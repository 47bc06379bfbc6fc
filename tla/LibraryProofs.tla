---------------------------- MODULE LibraryProofs ---------------------------
(***************************************************************************)
(* Proofs about the libraries tools_013_cpuuse brings along, for any number *)
(* of threads, processes, keys and forks.  Nvml: the module's count of      *)
(* initialisations agrees with the library's, and the lists it returns are  *)
(* complete or refused (both counts are sums over the same threads and      *)
(* initialisations).  Psutil: a checked operation does not hit a process    *)
(* that was there already, what a wait reports has ended, and children()    *)
(* misses none that lasts.  ProcFs: what a function returns was there, and  *)
(* what it raises is true.  LruCache: the ring of links is the cache in the *)
(* order of last use.                                                       *)
(***************************************************************************)
EXTENDS Nvml, Psutil, ProcFs, LruCache, FiniteSetTheorems, WellFoundedInduction, TLAPS

-----------------------------------------------------------------------------
(* Nvml: the counts of initialisations.                                    *)

\* One element more, one less.
LEMMA OneMore ==
  ASSUME NEW S, IsFiniteSet(S), NEW x, x \notin S
  PROVE  /\ IsFiniteSet(S \union {x}) /\ Cardinality(S) \in Nat
         /\ Cardinality(S \union {x}) = Cardinality(S) + 1
BY FS_AddElement, FS_CardinalityType

LEMMA OneLess ==
  ASSUME NEW S, IsFiniteSet(S), NEW x, x \in S
  PROVE  /\ IsFiniteSet(S \ {x}) /\ Cardinality(S \ {x}) \in Nat
         /\ Cardinality(S) = Cardinality(S \ {x}) + 1
<1>1. IsFiniteSet(S \ {x}) /\ Cardinality(S \ {x}) = Cardinality(S) - 1
  BY FS_RemoveElement
<1>2. Cardinality(S \ {x}) \in Nat /\ Cardinality(S) \in Nat
  BY <1>1, FS_CardinalityType
<1> QED  BY <1>1, <1>2

LEMMA Between3 ==
  ASSUME NEW a \in Nat, NEW b \in Nat, NEW c \in Nat, a <= b, b <= c
  PROVE  a <= c /\ (a < b => a < c) /\ (b < c => a < c)
OBVIOUS

LEMMA OneNumber ==
  ASSUME NEW n \in Nat
  PROVE  n <= n /\ ~(n < n) /\ n + 1 \in Nat
OBVIOUS

LEMMA Finite ==
  /\ \A f : IsFiniteSet(Counting(f)) /\ Cardinality(Counting(f)) \in Nat
  /\ IsFiniteSet(Uncalled) /\ Cardinality(Uncalled) \in Nat
<1>1. \A f : Counting(f) \subseteq NvmlThreads
  BY DEF Counting
<1>2. Uncalled \subseteq NvmlThreads
  BY DEF Uncalled
<1> QED  BY <1>1, <1>2, FS_Subset, FS_CardinalityType, NvmlAssumption

\* A step of one thread moves no other in or out of the parts of the sums.
LEMMA OthersStay ==
  ASSUME NEW t \in NvmlThreads,
         \A u \in NvmlThreads \ {t} : nvmlPc'[u] = nvmlPc[u] /\ doing'[u] = doing[u]
  PROVE  /\ \A f : Counting(f)' \ {t} = Counting(f) \ {t}
         /\ Uncalled' \ {t} = Uncalled \ {t}
BY DEF Counting, Uncalled

LEMMA AllStay ==
  ASSUME NEW t \in NvmlThreads, Sums,
         \A u \in NvmlThreads \ {t} : nvmlPc'[u] = nvmlPc[u] /\ doing'[u] = doing[u],
         \A f \in {"init", "shutdown"} : t \in Counting(f)' <=> t \in Counting(f),
         t \in Uncalled' <=> t \in Uncalled,
         own' = own, inits' = inits, refcount' = refcount
  PROVE  Sums'
<1>1. Counting("init")' = Counting("init") /\ Counting("shutdown")' = Counting("shutdown")
  BY OthersStay
<1>2. Uncalled' = Uncalled
  BY OthersStay
<1> QED  BY <1>1, <1>2 DEF Sums

-----------------------------------------------------------------------------
\* The invariant holds at the start.
LEMMA InitInv == NvmlInit => NvmlInv
<1> SUFFICES ASSUME NvmlInit PROVE NvmlInv
  OBVIOUS
<1>1. NvmlTypes
  BY FS_EmptySet DEF NvmlInit, NvmlTypes, Errors
<1>2. Places /\ Loaded /\ Numbered
  BY DEF NvmlInit, Places, Loaded, Numbered
<1>3. Counting("init") = {} /\ Counting("shutdown") = {} /\ Uncalled = {}
  BY DEF NvmlInit, Counting, Uncalled
<1>4. Cardinality({}) = 0
  BY FS_EmptySet
<1>5. own = {} /\ inits = 0 /\ refcount = 0
  BY DEF NvmlInit
<1>6. Sums
  BY <1>3, <1>4, <1>5 DEF Sums
<1> QED  BY <1>1, <1>2, <1>6 DEF NvmlInv

\* What an action that begins a function does to the thread's own state.
LEMMA BeginStep ==
  ASSUME NvmlInv, NEW t \in NvmlThreads, NEW f \in {"init", "shutdown", "query"},
         NEW p \in {"load", "pointer"}, Begin(t, f, p)
  PROVE  /\ nvmlPc[t] = "idle" /\ nvmlPc' = [nvmlPc EXCEPT ![t] = p]
         /\ doing' = [doing EXCEPT ![t] = f] /\ error' = [error EXCEPT ![t] = ""]
         /\ nvmlLib' = nvmlLib /\ inits' = inits /\ refcount' = refcount
         /\ libLoadLock' = libLoadLock /\ register' = register
BY DEF Begin, At, Goes, Driver, Counts

\* An action of a thread that neither owns more nor less, nor changes a count, keeps the
\* invariant, if its new place fits.
LEMMA QuietStep ==
  ASSUME NvmlInv, NEW t \in NvmlThreads,
         NEW p \in {"idle", "load", "loading", "pointer", "lookup", "call", "fill"},
         NEW d \in {"init", "shutdown", "query"}, NEW e \in Errors,
         nvmlPc' = [nvmlPc EXCEPT ![t] = p], doing' = [doing EXCEPT ![t] = d],
         error' = [error EXCEPT ![t] = e],
         own' = own, inits' = inits, refcount' = refcount, register' = register,
         libLoadLock' = libLoadLock, nvmlLib => nvmlLib', nvmlLib' \in BOOLEAN,
         begun' \in Nat, begun <= begun',
         nvmlPc[t] \notin {"count", "store"},
         t \in Uncalled <=> d = "shutdown" /\ p \in {"pointer", "lookup", "call"},
         p # "idle" => e = "",
         e = "UNINITIALIZED" => \A o \in own : o[1] # t,
         p \in {"load", "loading"} => d = "init",
         p = "fill" => d = "query",
         p \in {"pointer", "lookup", "call"} => nvmlLib' \/ d = "query",
         d = "init" /\ p # "idle" => begun < begun' \/ (doing[t] = "init" /\ nvmlPc[t] # "idle")
  PROVE  NvmlInv'
<1> USE DEF NvmlInv
<1>1. NvmlTypes'
  BY DEF NvmlTypes
<1>2. Places'
  <2> SUFFICES ASSUME NEW u \in NvmlThreads
               PROVE  Places!(u)'
    BY DEF Places
  <2>1. CASE u = t
    BY <2>1 DEF Places, NvmlTypes
  <2>2. CASE u # t
    BY <2>2 DEF Places, NvmlTypes
  <2> QED  BY <2>1, <2>2
<1>3. Loaded'
  <2>1. CASE nvmlLib'
    BY <2>1 DEF Loaded
  <2>2. CASE ~nvmlLib'
    <3>1. own = {}
      BY <2>2 DEF Loaded
    <3>2. ASSUME NEW u \in NvmlThreads
          PROVE  doing'[u] # "query" => nvmlPc'[u] \in {"idle", "load", "loading"}
      <4>1. CASE u = t
        BY <2>2, <4>1 DEF NvmlTypes
      <4>2. CASE u # t
        BY <2>2, <4>2 DEF Loaded, NvmlTypes
      <4> QED  BY <4>1, <4>2
    <3> QED  BY <3>1, <3>2 DEF Loaded
  <2> QED  BY <2>1, <2>2
<1>4. Numbered'
  <2> SUFFICES ASSUME NEW o \in own
               PROVE  Numbered!(o)'
    BY DEF Numbered
  <2>1. o[1] \in NvmlThreads /\ o[2] \in Nat /\ begun \in Nat
    BY DEF NvmlTypes
  <2>2. o[2] <= begun'
    <3>1. o[2] <= begun
      BY DEF Numbered
    <3> QED  BY <3>1, <2>1, Between3
  <2>3. error'[o[1]] # "UNINITIALIZED"
    BY <2>1 DEF Numbered, NvmlTypes
  <2>4. doing'[o[1]] = "init" /\ nvmlPc'[o[1]] # "idle" => o[2] < begun'
    <3>1. begun \in Nat /\ o[2] <= begun
      BY DEF Numbered, NvmlTypes
    <3>2. doing[o[1]] = "init" /\ nvmlPc[o[1]] # "idle" => o[2] < begun
      BY DEF Numbered
    <3>3. CASE o[1] = t
      <4>1. doing'[o[1]] = d /\ nvmlPc'[o[1]] = p
        BY <3>3 DEF NvmlTypes
      <4>2. d = "init" /\ p # "idle" => begun < begun' \/ o[2] < begun
        BY <3>2, <3>3
      <4>3. begun < begun' \/ o[2] < begun => o[2] < begun'
        BY <3>1, <2>1, Between3
      <4> QED  BY <4>1, <4>2, <4>3
    <3>4. CASE o[1] # t
      <4>1. doing'[o[1]] = doing[o[1]] /\ nvmlPc'[o[1]] = nvmlPc[o[1]]
        BY <3>4, <2>1 DEF NvmlTypes
      <4>2. o[2] < begun => o[2] < begun'
        BY <3>1, <2>1, Between3
      <4> QED  BY <4>1, <4>2, <3>2
    <3> QED  BY <3>3, <3>4
  <2> QED  BY <2>2, <2>3, <2>4
<1>5. Sums'
  <2>1. \A u \in NvmlThreads \ {t} : nvmlPc'[u] = nvmlPc[u] /\ doing'[u] = doing[u]
    BY DEF NvmlTypes
  <2>2. \A f \in {"init", "shutdown"} : t \in Counting(f)' <=> t \in Counting(f)
    BY DEF Counting, NvmlTypes
  <2>3. t \in Uncalled' <=> t \in Uncalled
    BY DEF Uncalled, NvmlTypes
  <2> QED  BY <2>1, <2>2, <2>3, AllStay
<1> QED  BY <1>1, <1>2, <1>3, <1>4, <1>5

LEMMA NoneLeft ==
  ASSUME NvmlInv, inits = 0
  PROVE  own = {} /\ Uncalled = {}
<1>1. IsFiniteSet(own) /\ Cardinality(own) \in Nat
  BY FS_CardinalityType DEF NvmlInv, NvmlTypes
<1>2. Cardinality(own) = 0 /\ Cardinality(Uncalled) = 0
  BY <1>1, Finite DEF NvmlInv, Sums
<1> QED  BY <1>1, <1>2, Finite, FS_EmptySet

\* Within a function: on to a place, or out of it with an error.
LEMMA MoveStep ==
  ASSUME NvmlInv, NEW t \in NvmlThreads,
         NEW p \in {"idle", "loading", "pointer", "lookup", "call", "fill"},
         Goes(t, p),
         UNCHANGED <<Asked, Counts, inits>>, nvmlLib => nvmlLib', nvmlLib' \in BOOLEAN,
         \/ error' = error
         \/ p = "idle" /\ \E e \in Errors : error' = [error EXCEPT ![t] = e]
                                            /\ (e = "UNINITIALIZED" => own = {}),
         nvmlPc[t] \notin {"idle", "count", "store"},
         doing[t] = "shutdown" =>
           nvmlPc[t] \in {"pointer", "lookup", "call"} /\ p \in {"pointer", "lookup", "call"},
         p = "loading" => nvmlPc[t] = "load",
         p = "fill" => doing[t] = "query",
         p \in {"pointer", "lookup", "call"} =>
           nvmlLib' \/ nvmlPc[t] \in {"pointer", "lookup", "call"}
  PROVE  NvmlInv'
<1>1. nvmlPc' = [nvmlPc EXCEPT ![t] = p]
  BY DEF Goes
<1>2. /\ doing' = [doing EXCEPT ![t] = doing[t]]
      /\ doing[t] \in {"init", "shutdown", "query"} /\ error[t] = "" /\ "" \in Errors
  BY DEF Asked, NvmlInv, NvmlTypes, Places, Errors
<1>3. PICK e \in Errors : /\ error' = [error EXCEPT ![t] = e]
                          /\ p # "idle" => e = ""
                          /\ e = "UNINITIALIZED" => own = {}
  <2>1. CASE error' = error
    <3>1. error' = [error EXCEPT ![t] = ""]
      BY <2>1, <1>2 DEF NvmlInv, NvmlTypes
    <3> QED  BY <3>1, <1>2
  <2>2. CASE error' # error
    BY <2>2
  <2> QED  BY <2>1, <2>2
<1>4. /\ own' = own /\ inits' = inits /\ refcount' = refcount /\ register' = register
      /\ libLoadLock' = libLoadLock /\ begun' \in Nat /\ begun <= begun'
  BY DEF Asked, Counts, NvmlInv, NvmlTypes
<1>5. t \in Uncalled <=> doing[t] = "shutdown" /\ p \in {"pointer", "lookup", "call"}
  BY DEF Uncalled
<1>6. e = "UNINITIALIZED" => \A o \in own : o[1] # t
  BY <1>3
<1>7. p = "loading" => doing[t] = "init"
  BY DEF NvmlInv, Places
<1>8. p \in {"pointer", "lookup", "call"} => nvmlLib' \/ doing[t] = "query"
  BY DEF NvmlInv, Loaded
<1>9. nvmlPc[t] \notin {"count", "store"} /\ nvmlPc[t] # "idle"
  OBVIOUS
<1> QED
  BY <1>1, <1>2, <1>3, <1>4, <1>5, <1>6, <1>7, <1>8, <1>9, QuietStep, Zenon

-----------------------------------------------------------------------------
\* The actions that only move, in the order of the module.
LEMMA CallInitInv ==
  ASSUME NvmlInv, NEW t \in NvmlThreads, CallInit(t)
  PROVE  NvmlInv'
<1>1. Begin(t, "init", "load") /\ begun' = begun + 1 /\ own' = own /\ begun \in Nat
  BY DEF CallInit, NvmlInv, NvmlTypes
<1>2. t \notin Uncalled
  BY <1>1, BeginStep DEF Uncalled
<1>3. "" \in Errors
  BY DEF Errors
<1>4. /\ nvmlPc[t] = "idle" /\ nvmlPc' = [nvmlPc EXCEPT ![t] = "load"]
      /\ doing' = [doing EXCEPT ![t] = "init"] /\ error' = [error EXCEPT ![t] = ""]
      /\ nvmlLib' = nvmlLib /\ inits' = inits /\ refcount' = refcount
      /\ libLoadLock' = libLoadLock /\ register' = register
  BY <1>1, BeginStep
<1>5. nvmlLib' \in BOOLEAN
  BY <1>4 DEF NvmlInv, NvmlTypes
<1>6. begun' \in Nat /\ begun <= begun' /\ begun < begun'
  BY <1>1
<1> QED  BY <1>1, <1>2, <1>3, <1>4, <1>5, <1>6, QuietStep, Zenon

LEMMA CallQueryInv ==
  ASSUME NvmlInv, NEW t \in NvmlThreads, CallQuery(t)
  PROVE  NvmlInv'
<1>1. Begin(t, "query", "pointer") /\ begun' = begun /\ own' = own /\ begun \in Nat
  BY DEF CallQuery, NvmlInv, NvmlTypes
<1>2. t \notin Uncalled
  BY <1>1, BeginStep DEF Uncalled
<1>3. "" \in Errors
  BY DEF Errors
<1>4. /\ nvmlPc[t] = "idle" /\ nvmlPc' = [nvmlPc EXCEPT ![t] = "pointer"]
      /\ doing' = [doing EXCEPT ![t] = "query"] /\ error' = [error EXCEPT ![t] = ""]
      /\ nvmlLib' = nvmlLib /\ inits' = inits /\ refcount' = refcount
      /\ libLoadLock' = libLoadLock /\ register' = register
  BY <1>1, BeginStep
<1>5. nvmlLib' \in BOOLEAN
  BY <1>4 DEF NvmlInv, NvmlTypes
<1>6. begun' \in Nat /\ begun <= begun'
  BY <1>1
<1> QED  BY <1>1, <1>2, <1>3, <1>4, <1>5, <1>6, QuietStep, Zenon

LEMMA LoadInv ==
  ASSUME NvmlInv, NEW t \in NvmlThreads, Load(t) \/ LoadLocked(t)
  PROVE  NvmlInv'
<1>1. UNCHANGED <<Asked, Counts, inits>>
  BY DEF Load, LoadLocked
<1>2. nvmlPc[t] \in {"load", "loading"}
  BY DEF Load, LoadLocked, At
<1>3. doing[t] = "init" /\ nvmlLib \in BOOLEAN
  BY <1>2 DEF NvmlInv, Places, NvmlTypes
<1>4. \/ Goes(t, "pointer") /\ error' = error /\ nvmlLib' = TRUE
      \/ Goes(t, "loading") /\ error' = error /\ nvmlLib' = nvmlLib /\ nvmlPc[t] = "load"
      \/ /\ Goes(t, "idle") /\ error' = [error EXCEPT ![t] = "LIBRARY_NOT_FOUND"]
         /\ nvmlLib' = nvmlLib
  BY <1>3 DEF Load, LoadLocked, At, NvmlRaises
<1>5. "LIBRARY_NOT_FOUND" \in Errors
  BY DEF Errors
<1> QED  BY <1>1, <1>2, <1>3, <1>4, <1>5, MoveStep

LEMMA PointerInv ==
  ASSUME NvmlInv, NEW t \in NvmlThreads, Pointer(t) \/ LookUpPointer(t)
  PROVE  NvmlInv'
<1>1. UNCHANGED <<Asked, Counts, inits>> /\ nvmlLib' = nvmlLib
  BY DEF Pointer, LookUpPointer
<1>2. nvmlPc[t] \in {"pointer", "lookup"}
  BY DEF Pointer, LookUpPointer, At
<1>3. nvmlLib \in BOOLEAN /\ (~nvmlLib => own = {} /\ doing[t] = "query")
  BY <1>2 DEF NvmlInv, NvmlTypes, Loaded
<1>4. \/ Goes(t, "call") /\ error' = error
      \/ Goes(t, "lookup") /\ error' = error
      \/ Goes(t, "idle") /\ doing[t] = "query" /\ error' = [error EXCEPT ![t] = "FUNCTION_NOT_FOUND"]
      \/ Goes(t, "idle") /\ ~nvmlLib /\ error' = [error EXCEPT ![t] = "UNINITIALIZED"]
  BY DEF Pointer, LookUpPointer, NvmlRaises
<1>5. "FUNCTION_NOT_FOUND" \in Errors /\ "UNINITIALIZED" \in Errors
  BY DEF Errors
<1>6. CASE Goes(t, "call") /\ error' = error
  BY <1>1, <1>2, <1>3, <1>6, MoveStep
<1>7. CASE Goes(t, "lookup") /\ error' = error
  BY <1>1, <1>2, <1>3, <1>7, MoveStep
<1>8. CASE Goes(t, "idle") /\ doing[t] = "query" /\ error' = [error EXCEPT ![t] = "FUNCTION_NOT_FOUND"]
  BY <1>1, <1>2, <1>3, <1>5, <1>8, MoveStep
<1>9. CASE Goes(t, "idle") /\ ~nvmlLib /\ error' = [error EXCEPT ![t] = "UNINITIALIZED"]
  BY <1>1, <1>2, <1>3, <1>5, <1>9, MoveStep
<1> QED  BY <1>4, <1>6, <1>7, <1>8, <1>9

\* The calls of a query end it, or go on to the second.
LEMMA QueryInv ==
  ASSUME NvmlInv, NEW t \in NvmlThreads, PlainCall(t) \/ SizeCall(t) \/ FillCall(t)
  PROVE  NvmlInv'
<1>1. UNCHANGED <<Asked, Counts, inits>> /\ nvmlLib' = nvmlLib
  <2>1. CASE PlainCall(t)
    BY <2>1 DEF PlainCall
  <2>2. CASE SizeCall(t)
    BY <2>2 DEF SizeCall
  <2>3. CASE FillCall(t)
    BY <2>3 DEF FillCall
  <2> QED  BY <2>1, <2>2, <2>3
<1>2. nvmlPc[t] \in {"call", "fill"} /\ (nvmlPc[t] = "call" => doing[t] = "query")
  BY DEF PlainCall, SizeCall, FillCall, At
<1>3. nvmlLib \in BOOLEAN /\ doing[t] = "query" /\ (inits = 0 => own = {})
  BY <1>2, NoneLeft DEF NvmlInv, NvmlTypes, Places
<1>4. SizeAnswer \in {"SUCCESS", "INSUFFICIENT_SIZE"}
  BY DEF SizeAnswer
<1>5. \/ Goes(t, "idle") /\ error' = error
      \/ Goes(t, "fill") /\ error' = error
      \/ Goes(t, "idle") /\ inits = 0 /\ error' = [error EXCEPT ![t] = "UNINITIALIZED"]
      \/ Goes(t, "idle") /\ error' = [error EXCEPT ![t] = "INSUFFICIENT_SIZE"]
      \/ Goes(t, "idle") /\ error' = [error EXCEPT ![t] = SizeAnswer]
  BY DEF PlainCall, SizeCall, FillCall, NvmlRaises
<1>6. {"SUCCESS", "INSUFFICIENT_SIZE", "UNINITIALIZED"} \subseteq Errors
  BY DEF Errors
<1>7. CASE Goes(t, "idle") /\ error' = error
  BY <1>1, <1>2, <1>3, <1>7, MoveStep
<1>8. CASE Goes(t, "fill") /\ error' = error
  BY <1>1, <1>2, <1>3, <1>8, MoveStep
<1>9. CASE Goes(t, "idle") /\ inits = 0 /\ error' = [error EXCEPT ![t] = "UNINITIALIZED"]
  BY <1>1, <1>2, <1>3, <1>6, <1>9, MoveStep
<1>10. ASSUME NEW e \in {"SUCCESS", "INSUFFICIENT_SIZE"}, Goes(t, "idle"),
              error' = [error EXCEPT ![t] = e]
       PROVE  NvmlInv'
  BY <1>1, <1>2, <1>3, <1>6, <1>10, MoveStep
<1> QED  BY <1>4, <1>5, <1>7, <1>8, <1>9, <1>10

-----------------------------------------------------------------------------
\* The actions that move a count.  The parts of the sums that a thread is not in stay.
LEMMA CallShutdownInv ==
  ASSUME NvmlInv, NEW t \in NvmlThreads, CallShutdown(t)
  PROVE  NvmlInv'
<1>1. PICK o \in own : o[1] = t /\ own' = own \ {o}
  BY DEF CallShutdown
<1>2. /\ nvmlPc[t] = "idle" /\ nvmlPc' = [nvmlPc EXCEPT ![t] = "pointer"]
      /\ doing' = [doing EXCEPT ![t] = "shutdown"] /\ error' = [error EXCEPT ![t] = ""]
      /\ nvmlLib' = nvmlLib /\ inits' = inits /\ refcount' = refcount
      /\ libLoadLock' = libLoadLock /\ register' = register /\ begun' = begun
  BY BeginStep DEF CallShutdown
<1>3. IsFiniteSet(own') /\ Cardinality(own') \in Nat /\ Cardinality(own) = Cardinality(own') + 1
  BY <1>1, OneLess DEF NvmlInv, NvmlTypes
<1>4. NvmlTypes'
  BY <1>1, <1>2, <1>3 DEF NvmlInv, NvmlTypes, Errors
<1>5. Places'
  <2> SUFFICES ASSUME NEW u \in NvmlThreads
               PROVE  Places!(u)'
    BY DEF Places
  <2>1. CASE u = t
    BY <1>2, <2>1 DEF NvmlInv, Places, NvmlTypes
  <2>2. CASE u # t
    BY <1>2, <2>2 DEF NvmlInv, Places, NvmlTypes
  <2> QED  BY <2>1, <2>2
<1>6. nvmlLib
  BY <1>1 DEF NvmlInv, Loaded
<1>7. Loaded'
  BY <1>2, <1>6 DEF Loaded
<1>8. Numbered'
  <2> SUFFICES ASSUME NEW q \in own'
               PROVE  Numbered!(q)'
    BY DEF Numbered
  <2>1. q \in own /\ q[1] \in NvmlThreads
    BY <1>1 DEF NvmlInv, NvmlTypes
  <2>2. CASE q[1] = t
    BY <1>2, <2>1, <2>2 DEF NvmlInv, Numbered, NvmlTypes
  <2>3. CASE q[1] # t
    BY <1>2, <2>1, <2>3 DEF NvmlInv, Numbered, NvmlTypes
  <2> QED  BY <2>2, <2>3
<1>9. Sums'
  <2>1. \A u \in NvmlThreads \ {t} : nvmlPc'[u] = nvmlPc[u] /\ doing'[u] = doing[u]
    BY <1>2 DEF NvmlInv, NvmlTypes
  <2>2. \A f \in {"init", "shutdown"} : t \notin Counting(f)' /\ t \notin Counting(f)
    BY <1>2 DEF Counting, NvmlInv, NvmlTypes
  <2>3. Counting("init")' = Counting("init") /\ Counting("shutdown")' = Counting("shutdown")
    BY <2>1, <2>2, OthersStay
  <2>4. t \notin Uncalled /\ t \in Uncalled'
    BY <1>2 DEF Uncalled, NvmlInv, NvmlTypes
  <2>5. Uncalled' = Uncalled \union {t}
    BY <2>1, <2>4, OthersStay
  <2>6. Cardinality(Uncalled') = Cardinality(Uncalled) + 1
    BY <2>4, <2>5, Finite, OneMore
  <2>7. /\ inits = Cardinality(own) + Cardinality(Counting("init")) + Cardinality(Uncalled)
        /\ refcount = Cardinality(own) + Cardinality(Uncalled) + Cardinality(Counting("shutdown"))
    BY DEF NvmlInv, Sums
  <2>8. /\ inits = Cardinality(own') + Cardinality(Counting("init")) + Cardinality(Uncalled')
        /\ refcount = Cardinality(own') + Cardinality(Uncalled')
                        + Cardinality(Counting("shutdown"))
    BY <1>3, <2>6, <2>7, Finite
  <2> QED  BY <1>2, <2>3, <2>8 DEF Sums
<1> QED  BY <1>4, <1>5, <1>7, <1>8, <1>9 DEF NvmlInv

\* A library that initialises, or has no driver.
LEMMA InitCallInv ==
  ASSUME NvmlInv, NEW t \in NvmlThreads, InitCall(t)
  PROVE  NvmlInv'
<1>1. /\ nvmlPc[t] = "call" /\ doing[t] = "init" /\ nvmlLib' = nvmlLib
      /\ UNCHANGED <<Asked, Counts>>
  BY DEF InitCall, At
<1>2. CASE inits' = inits /\ Goes(t, "idle") /\ error' = [error EXCEPT ![t] = "DRIVER_NOT_LOADED"]
  <2>1. "DRIVER_NOT_LOADED" \in Errors /\ nvmlLib' \in BOOLEAN
    BY <1>1 DEF Errors, NvmlInv, NvmlTypes
  <2> QED  BY <1>1, <1>2, <2>1, MoveStep
<1>3. CASE inits' = inits + 1 /\ Goes(t, "count") /\ error' = error
  <2>1. /\ nvmlPc' = [nvmlPc EXCEPT ![t] = "count"] /\ doing' = doing /\ own' = own
        /\ refcount' = refcount /\ libLoadLock' = libLoadLock /\ register' = register
        /\ begun' = begun
    BY <1>1, <1>3 DEF Goes, Asked, Counts
  <2>2. NvmlTypes'
    BY <1>1, <1>3, <2>1 DEF NvmlInv, NvmlTypes
  <2>3. Places'
    BY <1>1, <1>3, <2>1 DEF NvmlInv, Places, NvmlTypes
  <2>4. nvmlLib
    BY <1>1 DEF NvmlInv, Loaded
  <2>5. Loaded'
    BY <1>1, <2>4 DEF Loaded
  <2>6. Numbered'
    BY <1>1, <1>3, <2>1 DEF NvmlInv, Numbered, NvmlTypes
  <2>7. Sums'
    <3>1. \A u \in NvmlThreads \ {t} : nvmlPc'[u] = nvmlPc[u] /\ doing'[u] = doing[u]
      BY <2>1 DEF NvmlInv, NvmlTypes
    <3>2. /\ t \notin Counting("shutdown") /\ t \notin Counting("shutdown")'
          /\ t \notin Uncalled /\ t \notin Uncalled'
      BY <1>1, <2>1 DEF Counting, Uncalled, NvmlInv, NvmlTypes
    <3>3. Counting("shutdown")' = Counting("shutdown") /\ Uncalled' = Uncalled
      BY <3>1, <3>2, OthersStay
    <3>4. t \notin Counting("init") /\ t \in Counting("init")'
      BY <1>1, <2>1 DEF Counting, NvmlInv, NvmlTypes
    <3>5. Counting("init")' = Counting("init") \union {t}
      BY <3>1, <3>4, OthersStay
    <3>6. Cardinality(Counting("init")') = Cardinality(Counting("init")) + 1
      BY <3>4, <3>5, Finite, OneMore
    <3>7. Cardinality(own) \in Nat
      BY FS_CardinalityType DEF NvmlInv, NvmlTypes
    <3> QED  BY <1>3, <2>1, <3>3, <3>6, <3>7, Finite DEF NvmlInv, Sums
  <2> QED  BY <2>2, <2>3, <2>5, <2>6, <2>7 DEF NvmlInv
<1> QED  BY <1>2, <1>3 DEF InitCall, NvmlRaises

\* A library that shuts down: it cannot be uninitialised, the thread's own
\* initialisation is among its count.
LEMMA ShutdownCallInv ==
  ASSUME NvmlInv, NEW t \in NvmlThreads, ShutdownCall(t)
  PROVE  NvmlInv'
<1>1. /\ nvmlPc[t] = "call" /\ doing[t] = "shutdown" /\ nvmlLib' = nvmlLib
      /\ UNCHANGED <<Asked, Counts>>
  BY DEF ShutdownCall, At
<1>2. t \in Uncalled
  BY <1>1 DEF Uncalled
<1>3. inits # 0
  BY <1>2, NoneLeft
<1>4. inits' = inits - 1 /\ Goes(t, "count") /\ error' = error
  BY <1>3 DEF ShutdownCall
<1>5. /\ nvmlPc' = [nvmlPc EXCEPT ![t] = "count"] /\ doing' = doing /\ own' = own
      /\ refcount' = refcount /\ libLoadLock' = libLoadLock /\ register' = register
      /\ begun' = begun
  BY <1>1, <1>4 DEF Goes, Asked, Counts
<1>6. NvmlTypes'
  <2>1. inits' \in Nat
    BY <1>3, <1>4 DEF NvmlInv, NvmlTypes
  <2> QED  BY <1>1, <1>4, <1>5, <2>1 DEF NvmlInv, NvmlTypes
<1>7. Places'
  BY <1>1, <1>4, <1>5, Zenon DEF NvmlInv, Places, NvmlTypes
<1>8. nvmlLib
  BY <1>1 DEF NvmlInv, Loaded
<1>9. Loaded'
  BY <1>1, <1>8 DEF Loaded
<1>10. Numbered'
  BY <1>1, <1>4, <1>5 DEF NvmlInv, Numbered, NvmlTypes
<1>11. Sums'
  <2>1. \A u \in NvmlThreads \ {t} : nvmlPc'[u] = nvmlPc[u] /\ doing'[u] = doing[u]
    BY <1>5 DEF NvmlInv, NvmlTypes
  <2>2. t \notin Counting("init") /\ t \notin Counting("init")'
    BY <1>1, <1>5 DEF Counting, NvmlInv, NvmlTypes
  <2>3. Counting("init")' = Counting("init")
    BY <2>1, <2>2, OthersStay
  <2>4. t \notin Uncalled' /\ t \notin Counting("shutdown") /\ t \in Counting("shutdown")'
    BY <1>1, <1>5 DEF Counting, Uncalled, NvmlInv, NvmlTypes
  <2>5. Uncalled' = Uncalled \ {t} /\ Counting("shutdown")' = Counting("shutdown") \union {t}
    BY <1>2, <2>1, <2>4, OthersStay
  <2>6. Cardinality(Counting("shutdown")') = Cardinality(Counting("shutdown")) + 1
    BY <2>4, <2>5, Finite, OneMore
  <2>7. Cardinality(Uncalled') \in Nat /\ Cardinality(Uncalled) = Cardinality(Uncalled') + 1
    BY <1>2, <2>5, Finite, OneLess
  <2>8. Cardinality(own) \in Nat
    BY FS_CardinalityType DEF NvmlInv, NvmlTypes
  <2>9. /\ inits = Cardinality(own) + Cardinality(Counting("init")) + Cardinality(Uncalled)
        /\ refcount = Cardinality(own) + Cardinality(Uncalled) + Cardinality(Counting("shutdown"))
    BY DEF NvmlInv, Sums
  <2>10. /\ inits' = Cardinality(own) + Cardinality(Counting("init")) + Cardinality(Uncalled')
         /\ refcount = Cardinality(own) + Cardinality(Uncalled')
                         + Cardinality(Counting("shutdown")')
    BY <1>4, <2>6, <2>7, <2>8, <2>9, Finite
  <2> QED  BY <1>5, <2>3, <2>10 DEF Sums
<1> QED  BY <1>6, <1>7, <1>9, <1>10, <1>11 DEF NvmlInv

\* The lock is taken and the count read.
LEMMA CountInv ==
  ASSUME NvmlInv, NEW t \in NvmlThreads, Count(t)
  PROVE  NvmlInv'
<1>1. /\ nvmlPc[t] = "count" /\ libLoadLock = 0 /\ libLoadLock' = t
      /\ nvmlPc' = [nvmlPc EXCEPT ![t] = "store"]
      /\ register' = [register EXCEPT ![t] = refcount] /\ nvmlLib' = nvmlLib
      /\ refcount' = refcount /\ inits' = inits /\ error' = error
      /\ doing' = doing /\ own' = own /\ begun' = begun
  BY DEF Count, At, Goes, Asked
<1>2. NvmlTypes'
  BY <1>1 DEF NvmlInv, NvmlTypes
<1>3. Places'
  <2>1. \A u \in NvmlThreads : nvmlPc[u] # "store"
    BY <1>1, NvmlAssumption DEF NvmlInv, Places
  <2> SUFFICES ASSUME NEW u \in NvmlThreads
               PROVE  Places!(u)'
    BY DEF Places
  <2>2. CASE u = t
    BY <1>1, <2>2 DEF NvmlInv, Places, NvmlTypes
  <2>3. CASE u # t
    BY <1>1, <2>1, <2>3 DEF NvmlInv, Places, NvmlTypes
  <2> QED  BY <2>2, <2>3
<1>4. nvmlLib
  BY <1>1 DEF NvmlInv, Loaded, Places
<1>5. Loaded'
  BY <1>1, <1>4 DEF Loaded
<1>6. Numbered'
  BY <1>1 DEF NvmlInv, Numbered, NvmlTypes
<1>7. Sums'
  <2>1. \A u \in NvmlThreads \ {t} : nvmlPc'[u] = nvmlPc[u] /\ doing'[u] = doing[u]
    BY <1>1 DEF NvmlInv, NvmlTypes
  <2>2. \A f \in {"init", "shutdown"} : t \in Counting(f)' <=> t \in Counting(f)
    BY <1>1 DEF Counting, NvmlInv, NvmlTypes
  <2>3. t \in Uncalled' <=> t \in Uncalled
    BY <1>1 DEF Uncalled, NvmlInv, NvmlTypes
  <2> QED  BY <1>1, <2>1, <2>2, <2>3, AllStay DEF NvmlInv
<1> QED  BY <1>2, <1>3, <1>5, <1>6, <1>7 DEF NvmlInv

\* The count is stored and the lock released: an initialisation is the thread's own
\* from here on; a shutdown finds the count above zero.
LEMMA StoreCountInv ==
  ASSUME NvmlInv, NEW t \in NvmlThreads, StoreCount(t)
  PROVE  NvmlInv'
<1>1. /\ nvmlPc[t] = "store" /\ libLoadLock' = 0
      /\ nvmlPc' = [nvmlPc EXCEPT ![t] = "idle"] /\ register' = register
      /\ nvmlLib' = nvmlLib /\ inits' = inits /\ error' = error /\ doing' = doing
      /\ begun' = begun
  BY DEF StoreCount, At, Goes
<1>2. /\ doing[t] \in {"init", "shutdown"} /\ register[t] = refcount /\ error[t] = ""
      /\ refcount \in Nat /\ begun \in Nat /\ inits \in Nat
  BY <1>1 DEF NvmlInv, Places, NvmlTypes
<1>3. IsFiniteSet(own) /\ Cardinality(own) \in Nat
  BY FS_CardinalityType DEF NvmlInv, NvmlTypes
<1>4. \A u \in NvmlThreads \ {t} : nvmlPc'[u] = nvmlPc[u] /\ doing'[u] = doing[u]
  BY <1>1 DEF NvmlInv, NvmlTypes
<1>5. t \notin Uncalled /\ t \notin Uncalled'
  BY <1>1 DEF Uncalled, NvmlInv, NvmlTypes
<1>6. Uncalled' = Uncalled
  BY <1>4, <1>5, OthersStay
<1>7. Places'
  <2>1. \A u \in NvmlThreads \ {t} : nvmlPc[u] # "store"
    BY <1>1 DEF NvmlInv, Places
  <2> SUFFICES ASSUME NEW u \in NvmlThreads
               PROVE  Places!(u)'
    BY DEF Places
  <2>2. CASE u = t
    BY <1>1, <2>2 DEF NvmlInv, Places, NvmlTypes
  <2>3. CASE u # t
    BY <1>1, <2>1, <2>3 DEF NvmlInv, Places, NvmlTypes
  <2> QED  BY <2>2, <2>3
<1>8. nvmlLib
  BY <1>1, <1>2 DEF NvmlInv, Loaded
<1>9. Loaded'
  BY <1>1, <1>8 DEF Loaded
<1>10. Counting("init") \ {t} = Counting("init")' /\ Counting("shutdown") \ {t} = Counting("shutdown")'
  <2>1. t \notin Counting("init")' /\ t \notin Counting("shutdown")'
    BY <1>1 DEF Counting, NvmlInv, NvmlTypes
  <2> QED  BY <1>4, <2>1, OthersStay
<1>11. /\ inits = Cardinality(own) + Cardinality(Counting("init")) + Cardinality(Uncalled)
       /\ refcount = Cardinality(own) + Cardinality(Uncalled) + Cardinality(Counting("shutdown"))
  BY DEF NvmlInv, Sums
<1>12. CASE doing[t] = "init"
  <2>1. refcount' = refcount + 1 /\ own' = own \union {<<t, begun>>}
    BY <1>2, <1>12 DEF StoreCount
  <2>2. <<t, begun>> \notin own
    <3> SUFFICES ASSUME <<t, begun>> \in own PROVE FALSE
      OBVIOUS
    <3> DEFINE o == <<t, begun>>
    <3>1. o[1] = t /\ o[2] = begun
      OBVIOUS
    <3>2. doing[o[1]] = "init" /\ nvmlPc[o[1]] # "idle" => o[2] < begun
      BY DEF NvmlInv, Numbered
    <3>3. begun < begun
      BY <1>1, <1>12, <3>1, <3>2
    <3>4. begun \in Nat
      BY <1>2
    <3> QED  BY <3>3, <3>4, OneNumber
  <2>3. IsFiniteSet(own') /\ Cardinality(own') = Cardinality(own) + 1
    BY <1>3, <2>1, <2>2, OneMore
  <2>4. NvmlTypes'
    <3>1. own' \subseteq NvmlThreads \X Nat
      <4>1. <<t, begun>> \in NvmlThreads \X Nat
        BY <1>2
      <4> QED  BY <2>1, <4>1 DEF NvmlInv, NvmlTypes
    <3>2. refcount' \in Nat
      <4>1. refcount \in Nat
        BY <1>2
      <4> QED  BY <2>1, <4>1, OneNumber
    <3> QED  BY <1>1, <2>3, <3>1, <3>2 DEF NvmlInv, NvmlTypes
  <2>5. Numbered'
    <3> SUFFICES ASSUME NEW o \in own'
                 PROVE  Numbered!(o)'
      BY DEF Numbered
    <3>1. CASE o = <<t, begun>>
      <4>1. o[1] = t /\ o[2] = begun
        BY <3>1
      <4>2. nvmlPc'[t] = "idle" /\ error'[t] # "UNINITIALIZED"
        BY <1>1, <1>2 DEF NvmlInv, NvmlTypes
      <4>3. begun \in Nat /\ begun' = begun
        BY <1>1, <1>2
      <4>4. o[2] <= begun'
        BY <4>1, <4>3, OneNumber
      <4> QED  BY <4>1, <4>2, <4>4
    <3>2. CASE o \in own
      BY <1>1, <1>2, <3>2 DEF NvmlInv, Numbered, NvmlTypes
    <3> QED  BY <2>1, <3>1, <3>2
  <2>6. t \in Counting("init") /\ t \notin Counting("shutdown")
    BY <1>1, <1>12 DEF Counting
  <2>7. /\ Cardinality(Counting("init")) = Cardinality(Counting("init")') + 1
        /\ Cardinality(Counting("init")') \in Nat
    BY <1>10, <2>6, Finite, OneLess
  <2>8. Counting("shutdown")' = Counting("shutdown")
    BY <1>10, <2>6
  <2>9. /\ inits = Cardinality(own') + Cardinality(Counting("init")') + Cardinality(Uncalled)
        /\ refcount' = Cardinality(own') + Cardinality(Uncalled)
                         + Cardinality(Counting("shutdown"))
    BY <1>3, <1>11, <2>1, <2>3, <2>7, Finite
  <2>10. Sums'
    BY <1>1, <1>6, <2>8, <2>9 DEF Sums
  <2> QED  BY <1>7, <1>9, <2>4, <2>5, <2>10 DEF NvmlInv
<1>13. CASE doing[t] = "shutdown"
  <2>1. t \notin Counting("init") /\ t \in Counting("shutdown")
    BY <1>1, <1>13 DEF Counting
  <2>2. /\ Cardinality(Counting("shutdown")) = Cardinality(Counting("shutdown")') + 1
        /\ Cardinality(Counting("shutdown")') \in Nat
    BY <1>10, <2>1, Finite, OneLess
  <2>3. 0 < refcount
    BY <1>3, <1>11, <2>2, Finite
  <2>4. refcount' = refcount - 1 /\ own' = own
    BY <1>2, <1>13, <2>3 DEF StoreCount
  <2>5. Counting("init")' = Counting("init")
    BY <1>10, <2>1
  <2>6. NvmlTypes'
    <3>1. refcount \in Nat
      BY <1>2
    <3>2. refcount' \in Nat
      BY <2>3, <2>4, <3>1
    <3> QED  BY <1>1, <2>4, <3>2 DEF NvmlInv, NvmlTypes
  <2>7. Numbered'
    <3> SUFFICES ASSUME NEW o \in own
                 PROVE  Numbered!(o)'
      BY <2>4 DEF Numbered
    <3> QED  BY <1>1, <2>4 DEF NvmlInv, Numbered, NvmlTypes
  <2>8. refcount' = Cardinality(own) + Cardinality(Uncalled) + Cardinality(Counting("shutdown")')
    BY <1>3, <1>11, <2>2, <2>4, Finite
  <2>9. Sums'
    BY <1>1, <1>6, <1>11, <2>4, <2>5, <2>8 DEF Sums
  <2> QED  BY <1>7, <1>9, <2>6, <2>7, <2>9 DEF NvmlInv
<1> QED  BY <1>2, <1>12, <1>13

\* A step that leaves the threads and the counts alone.
LEMMA RestInv ==
  ASSUME NvmlInv, Resize \/ UNCHANGED nvmlVars
  PROVE  NvmlInv'
<1>1. UNCHANGED <<nvmlLib, libLoadLock, refcount, register, inits, doing, nvmlPc, own, error, begun>>
  <2>1. CASE Resize
    BY <2>1 DEF Resize, Counts
  <2>2. CASE UNCHANGED nvmlVars
    BY <2>2 DEF nvmlVars
  <2> QED  BY <2>1, <2>2
<1>2. NvmlTypes'
  BY <1>1 DEF NvmlInv, NvmlTypes
<1>3. Places' /\ Loaded' /\ Numbered'
  BY <1>1 DEF NvmlInv, Places, Loaded, Numbered
<1>4. \A f \in {"init", "shutdown"} : Counting(f)' = Counting(f)
  BY <1>1 DEF Counting
<1>5. Uncalled' = Uncalled
  BY <1>1 DEF Uncalled
<1>6. Sums'
  BY <1>1, <1>4, <1>5 DEF NvmlInv, Sums
<1> QED  BY <1>2, <1>3, <1>6 DEF NvmlInv

-----------------------------------------------------------------------------
\* The counts are the sums of the initialisations still held, of the threads about to
\* have the library shut down, and of those between its answer and their counting.
THEOREM NvmlInvariance == NvmlSpec => []NvmlInv
<1>1. NvmlInit => NvmlInv
  BY InitInv
<1>2. NvmlInv /\ [NvmlNext]_nvmlVars => NvmlInv'
  <2> SUFFICES ASSUME NvmlInv, [NvmlNext]_nvmlVars PROVE NvmlInv'
    OBVIOUS
  <2>1. CASE Resize \/ UNCHANGED nvmlVars
    BY <2>1, RestInv
  <2>2. ASSUME NEW t \in NvmlThreads, CallInit(t) PROVE NvmlInv'
    BY <2>2, CallInitInv
  <2>3. ASSUME NEW t \in NvmlThreads, CallShutdown(t) PROVE NvmlInv'
    BY <2>3, CallShutdownInv
  <2>4. ASSUME NEW t \in NvmlThreads, CallQuery(t) PROVE NvmlInv'
    BY <2>4, CallQueryInv
  <2>5. ASSUME NEW t \in NvmlThreads, Load(t) \/ LoadLocked(t) PROVE NvmlInv'
    BY <2>5, LoadInv
  <2>6. ASSUME NEW t \in NvmlThreads, Pointer(t) \/ LookUpPointer(t) PROVE NvmlInv'
    BY <2>6, PointerInv
  <2>7. ASSUME NEW t \in NvmlThreads, InitCall(t) PROVE NvmlInv'
    BY <2>7, InitCallInv
  <2>8. ASSUME NEW t \in NvmlThreads, ShutdownCall(t) PROVE NvmlInv'
    BY <2>8, ShutdownCallInv
  <2>9. ASSUME NEW t \in NvmlThreads, Count(t) PROVE NvmlInv'
    BY <2>9, CountInv
  <2>10. ASSUME NEW t \in NvmlThreads, StoreCount(t) PROVE NvmlInv'
    BY <2>10, StoreCountInv
  <2>11. ASSUME NEW t \in NvmlThreads, PlainCall(t) \/ SizeCall(t) \/ FillCall(t) PROVE NvmlInv'
    BY <2>11, QueryInv
  <2> QED
    BY <2>1, <2>2, <2>3, <2>4, <2>5, <2>6, <2>7, <2>8, <2>9, <2>10, <2>11 DEF NvmlNext
<1> QED  BY <1>1, <1>2, PTL DEF NvmlSpec

\* The two counts differ just by the threads between the library's answer and their own
\* counting, and nobody who holds an initialisation is told there is none.
LEMMA InvImpliesTrue == NvmlInv => RefcountTrue
<1> SUFFICES ASSUME NvmlInv PROVE RefcountTrue
  OBVIOUS
<1>1. IsFiniteSet(own) /\ Cardinality(own) \in Nat
  BY FS_CardinalityType DEF NvmlInv, NvmlTypes
<1>2. /\ inits = Cardinality(own) + Cardinality(Counting("init")) + Cardinality(Uncalled)
      /\ refcount = Cardinality(own) + Cardinality(Uncalled) + Cardinality(Counting("shutdown"))
  BY DEF NvmlInv, Sums
<1>3. refcount + Cardinality(Counting("init")) = inits + Cardinality(Counting("shutdown"))
  BY <1>1, <1>2, Finite
<1>4. \A o \in own : error[o[1]] # "UNINITIALIZED"
  BY DEF NvmlInv, Numbered
<1> QED  BY <1>3, <1>4 DEF RefcountTrue, Between

THEOREM RefcountsAgree == NvmlSpec => []RefcountTrue
<1>1. NvmlSpec => []NvmlInv
  BY NvmlInvariance
<1> QED  BY <1>1, InvImpliesTrue, PTL

-----------------------------------------------------------------------------
(* Nvml: the lists.                                                         *)

Listed == Queries \ ({"plain"} \union CodeReturned)

\* What is used of the shapes of the twelve lists.
LEMMA Shapes ==
  ASSUME query \in Listed
  PROVE  /\ Shape.exact = IF query \in {"processes", "pages"} THEN FALSE ELSE TRUE
         /\ Shape.cut = IF query \in {"hics", "units", "pids"} THEN FALSE ELSE TRUE
         /\ query \in {"samples", "sessions"} => "SUCCESS" \in Shape.goes
         /\ query \notin {"samples", "sessions"} => "INSUFFICIENT_SIZE" \in Shape.goes
         /\ Shape.none \notin {"empty", "go"} => query \in {"utilization", "pids"}
<1> USE DEF Shape, ShapeOf, Clocks
<1>1. CASE query \in {"clocks", "vgpus", "active", "samples of vgpus"}
  BY <1>1, Zenon DEF Vgpus, ActiveVgpus, VgpuSamples
<1>2. CASE query = "processes"
  BY <1>2 DEF RunningProcesses
<1>3. CASE query = "pages"
  BY <1>3 DEF RetiredPages
<1>4. CASE query = "hics"
  BY <1>4 DEF HicVersion
<1>5. CASE query = "units"
  BY <1>5 DEF UnitDevices, HicVersion
<1>6. CASE query = "samples"
  BY <1>6 DEF Samples
<1>7. CASE query = "sessions"
  BY <1>7 DEF Sessions, Samples
<1>8. CASE query = "utilization"
  BY <1>8 DEF ProcessUtilization
<1>9. CASE query = "pids"
  BY <1>9 DEF InstancePids, ProcessUtilization
<1> QED BY <1>1, <1>2, <1>3, <1>4, <1>5, <1>6, <1>7, <1>8, <1>9, Zenon DEF Listed, Queries, CodeReturned

\* A thread on its way has no answer yet, and before its first call knows no length; one
\* that fills an array asks for a list.
ListTypes ==
  /\ query \in Queries /\ length \in Nat
  /\ former \in [NvmlThreads -> Nat] /\ later \in [NvmlThreads -> Nat]
  /\ answer \in [NvmlThreads -> [entries : Nat, blanks : Int]]

OnTheWay ==
  \A t \in NvmlThreads : /\ nvmlPc[t] # "idle" => answer[t] = NoAnswer
                         /\ nvmlPc[t] \notin {"idle", "fill"} => later[t] = 0
                         /\ nvmlPc[t] = "fill" => query \in Listed

LEMMA NothingAnswered == /\ NoAnswer \in [entries : Nat, blanks : Int]
                          /\ NoAnswer.entries = 0 /\ ~(NoAnswer.blanks > 0)
BY DEF NoAnswer

ListInv == ListTypes /\ OnTheWay /\ ListsComplete

LEMMA ListInitInv == NvmlInit => ListInv
<1> SUFFICES ASSUME NvmlInit PROVE ListInv
  OBVIOUS
<1>1. ListTypes
  BY NvmlAssumption, NothingAnswered DEF NvmlInit, ListTypes
<1>2. OnTheWay /\ ListsComplete
  BY NothingAnswered DEF NvmlInit, OnTheWay, ListsComplete
<1> QED BY <1>1, <1>2 DEF ListInv

\* What a step of thread t may do to keep all this: the other threads stay as they are.
LEMMA ListStep ==
  ASSUME ListInv, NEW t \in NvmlThreads, ListTypes', query' = query,
         \A u \in NvmlThreads \ {t} :
           /\ nvmlPc'[u] = nvmlPc[u] /\ doing'[u] = doing[u] /\ error'[u] = error[u]
           /\ former'[u] = former[u] /\ later'[u] = later[u] /\ answer'[u] = answer[u],
         nvmlPc'[t] # "idle" => answer'[t] = NoAnswer,
         nvmlPc'[t] \notin {"idle", "fill"} => later'[t] = 0,
         nvmlPc'[t] = "fill" => query \in Listed,
         doing'[t] = "query" /\ nvmlPc'[t] = "idle" =>
           /\ error'[t] = "" => answer'[t].entries = later'[t]
           /\ error'[t] = "INSUFFICIENT_SIZE" =>
                later'[t] > IF query \in {"processes", "pages"} THEN 2 * former'[t] + 5 ELSE former'[t]
           /\ error'[t] = "SUCCESS" => former'[t] = 0 /\ query \in {"utilization", "pids"}
           /\ answer'[t].blanks > 0 => query \in {"hics", "units", "pids"} /\ former'[t] > later'[t]
  PROVE  ListInv'
<1>1. OnTheWay'
  BY DEF ListInv, OnTheWay
<1>2. ListsComplete'
  BY DEF ListInv, ListsComplete, At
<1> QED BY <1>1, <1>2 DEF ListInv

LEMMA BeginList ==
  ASSUME NvmlInv, ListInv, NEW t \in NvmlThreads, CallInit(t) \/ CallShutdown(t) \/ CallQuery(t)
  PROVE  ListInv'
<1>1. PICK f \in {"init", "shutdown", "query"}, p \in {"load", "pointer"} : Begin(t, f, p)
  BY DEF CallInit, CallShutdown, CallQuery
<1>2. ListTypes'
  BY <1>1, NothingAnswered DEF Begin, ListInv, ListTypes, Driver
<1> QED BY <1>1, <1>2, ListStep, Zenon DEF Begin, Goes, Driver, NvmlInv, NvmlTypes, ListInv, ListTypes

\* A step that neither asks for a list nor raises what a list's function raises.
LEMMA PlainStep ==
  ASSUME NvmlInv, ListInv, NEW t \in NvmlThreads,
         UNCHANGED <<query, length, Replies, doing>>, ~At(t, "idle"), ~At(t, "fill"),
         \A u \in NvmlThreads \ {t} : nvmlPc'[u] = nvmlPc[u] /\ error'[u] = error[u],
         nvmlPc'[t] # "fill", error'[t] \notin {"INSUFFICIENT_SIZE", "SUCCESS"}
  PROVE  ListInv'
<1>1. ListTypes' /\ query' = query /\ UNCHANGED <<former, later, answer, doing>>
  BY DEF ListInv, ListTypes, Replies
<1>2. answer[t] = NoAnswer /\ later[t] = 0
  BY DEF At, ListInv, OnTheWay
<1>3. ~(answer[t].blanks > 0) /\ answer[t].entries = later[t]
  BY <1>2, NothingAnswered
<1> QED BY <1>1, <1>2, <1>3, ListStep

LEMMA OtherList ==
  ASSUME NvmlInv, ListInv, NEW t \in NvmlThreads,
         \/ Load(t) \/ LoadLocked(t) \/ Pointer(t) \/ LookUpPointer(t)
         \/ InitCall(t) \/ ShutdownCall(t) \/ Count(t) \/ StoreCount(t) \/ PlainCall(t)
  PROVE  ListInv'
<1>1. UNCHANGED <<query, length, Replies, doing>>
  BY DEF Load, LoadLocked, Pointer, LookUpPointer, InitCall, ShutdownCall, Count, StoreCount,
         PlainCall, Driver, Replies, Asked
<1>2. ~At(t, "idle") /\ ~At(t, "fill")
  BY DEF Load, LoadLocked, Pointer, LookUpPointer, InitCall, ShutdownCall, Count, StoreCount,
         PlainCall, At
<1>3. /\ error[t] = "" /\ DOMAIN error = NvmlThreads /\ DOMAIN nvmlPc = NvmlThreads
  BY <1>2 DEF At, NvmlInv, Places, NvmlTypes
<1>4. /\ \A u \in NvmlThreads \ {t} : nvmlPc'[u] = nvmlPc[u]
      /\ nvmlPc'[t] # "fill"
  BY <1>3, Zenon DEF Load, LoadLocked, Pointer, LookUpPointer, InitCall, ShutdownCall, Count, StoreCount,
         PlainCall, Goes, NvmlRaises
<1>5. /\ \A u \in NvmlThreads \ {t} : error'[u] = error[u]
      /\ error'[t] \notin {"INSUFFICIENT_SIZE", "SUCCESS"}
  BY <1>3, Zenon DEF Load, LoadLocked, Pointer, LookUpPointer, InitCall, ShutdownCall, Count, StoreCount,
         PlainCall, NvmlRaises
<1> QED BY <1>1, <1>2, <1>4, <1>5, PlainStep

LEMMA SizeList ==
  ASSUME NvmlInv, ListInv, NEW t \in NvmlThreads, SizeCall(t)
  PROVE  ListInv'
<1>1. /\ query \in Listed /\ length \in Nat /\ error[t] = "" /\ answer[t] = NoAnswer
      /\ former' = [former EXCEPT ![t] = length]
      /\ later' = [later EXCEPT ![t] = length]
      /\ UNCHANGED <<query, length, answer, doing>>
  BY Zenon DEF SizeCall, At, Driver, Asked, NvmlInv, Places, ListInv, ListTypes, OnTheWay, Listed
<1>2. ListTypes'
  BY <1>1 DEF ListInv, ListTypes
<1>3. /\ \A u \in NvmlThreads \ {t} : nvmlPc'[u] = nvmlPc[u] /\ error'[u] = error[u]
      /\ nvmlPc'[t] \in {"idle", "fill"} /\ (nvmlPc'[t] = "idle" /\ error'[t] = "" => length = 0)
      /\ error'[t] = "SUCCESS" => length = 0 /\ query \in {"utilization", "pids"}
      /\ error'[t] # "INSUFFICIENT_SIZE"
  <2>1. CASE error' = error /\ ((length = 0 /\ Goes(t, "idle")) \/ Goes(t, "fill"))
    BY <1>1, <2>1 DEF Goes, NvmlInv, NvmlTypes
  <2>2. CASE NvmlRaises(t, "UNINITIALIZED")
    BY <2>2 DEF NvmlRaises, Goes, NvmlInv, NvmlTypes
  <2>3. CASE /\ NvmlRaises(t, SizeAnswer) /\ SizeAnswer \notin Shape.goes
             /\ ~(SizeAnswer = "SUCCESS" /\ Shape.none = "go") /\ ~(length = 0 /\ Shape.none = "empty")
    <3>1. SizeAnswer = "SUCCESS" /\ length = 0 /\ query \in {"utilization", "pids"}
      BY <1>1, <2>3, Shapes DEF SizeAnswer
    <3> QED BY <2>3, <3>1 DEF NvmlRaises, Goes, NvmlInv, NvmlTypes
  <2> QED BY <2>1, <2>2, <2>3 DEF SizeCall
<1>4. /\ ~(answer'[t].blanks > 0) /\ answer'[t].entries = 0
      /\ former'[t] = length /\ later'[t] = length
  BY <1>1, NothingAnswered DEF ListInv, ListTypes
<1>5. \A u \in NvmlThreads \ {t} : former'[u] = former[u] /\ later'[u] = later[u]
  BY <1>1 DEF ListInv, ListTypes
<1> QED BY <1>1, <1>2, <1>3, <1>4, <1>5, ListStep

LEMMA FillList ==
  ASSUME NvmlInv, ListInv, NEW t \in NvmlThreads, FillCall(t)
  PROVE  ListInv'
<1> DEFINE room == ArraySize(former[t])
           blanks == IF Taken(t) <= length THEN 0 ELSE Taken(t) - length
           list == [entries |-> length, blanks |-> blanks]
<1>1. /\ query \in Listed /\ length \in Nat /\ former[t] \in Nat /\ error[t] = ""
      /\ answer[t] = NoAnswer
      /\ later' = [later EXCEPT ![t] = length]
      /\ UNCHANGED <<query, length, former, doing>>
  BY Zenon DEF FillCall, At, Driver, Asked, NvmlInv, Places, ListInv, ListTypes, OnTheWay
<1>0. former[t] \in Nat /\ length \in Nat
  BY <1>1
<1>2. /\ room = (IF query \in {"processes", "pages"} THEN 2 * former[t] + 5 ELSE former[t])
      /\ room \in Nat
  <2>1. room = IF Shape.exact THEN former[t] ELSE 2 * former[t] + 5
    BY DEF ArraySize
  <2>2. CASE query \in {"processes", "pages"}
    <3>1. ~Shape.exact
      BY <1>1, <2>2, Shapes
    <3>2. room = 2 * former[t] + 5
      BY <2>1, <3>1
    <3>3. 2 * former[t] + 5 \in Nat
      BY <1>0
    <3> QED BY <2>2, <3>2, <3>3
  <2>3. CASE query \notin {"processes", "pages"}
    BY <1>1, <2>1, <2>3, Shapes
  <2> QED BY <2>2, <2>3
<1>3. /\ Taken(t) = IF query \in {"hics", "units", "pids"} THEN former[t] ELSE length
      /\ length <= room => length <= Taken(t)
  <2>1. CASE query \in {"hics", "units", "pids"}
    <3>1. Taken(t) = room /\ room = former[t]
      BY <1>1, <1>2, <2>1, Shapes DEF Taken
    <3> HIDE DEF room
    <3> QED BY <2>1, <3>1
  <2>2. CASE query \notin {"hics", "units", "pids"}
    <3>1. Taken(t) = length
      BY <1>1, <2>2, Shapes DEF Taken
    <3> QED BY <1>0, <2>2, <3>1
  <2> QED BY <2>1, <2>2
<1>4. /\ blanks \in Int
      /\ blanks > 0 => query \in {"hics", "units", "pids"} /\ former[t] > length
  <2>1. Taken(t) \in Nat /\ (Taken(t) > length => query \in {"hics", "units", "pids"} /\ former[t] > length)
    BY <1>0, <1>3
  <2> QED BY <1>0, <2>1
<1>5. length <= room => ListReturned(t) = list
  <2>1. Taken(t) \in Nat /\ (length <= room => length <= Taken(t))
    BY <1>0, <1>3
  <2>2. CASE Taken(t) <= length /\ length <= room
    <3>1. Taken(t) = length
      BY <1>0, <2>1, <2>2
    <3> QED BY <2>2, <3>1 DEF ListReturned
  <2>3. CASE ~(Taken(t) <= length)
    BY <2>3 DEF ListReturned
  <2> QED BY <2>2, <2>3
<1>6. \/ NvmlRaises(t, "UNINITIALIZED") /\ answer' = answer
      \/ length > room /\ NvmlRaises(t, "INSUFFICIENT_SIZE") /\ answer' = answer
      \/ Goes(t, "idle") /\ error' = error /\ answer' = [answer EXCEPT ![t] = list]
  <2>1. CASE inits # 0 /\ ~(length > room)
    <3>1. length <= room
      BY <1>0, <1>2, <2>1
    <3>2. answer' = [answer EXCEPT ![t] = ListReturned(t)] /\ Goes(t, "idle") /\ error' = error
      BY <2>1 DEF FillCall
    <3> QED BY <1>5, <3>1, <3>2
  <2>2. CASE inits = 0 \/ length > room
    BY <2>2 DEF FillCall
  <2> QED BY <2>1, <2>2
<1>7. list \in [entries : Nat, blanks : Int] /\ list.entries = length /\ list.blanks = blanks
  BY <1>1, <1>4
<1> HIDE DEF room, blanks, list
<1>8. /\ nvmlPc' = [nvmlPc EXCEPT ![t] = "idle"]
      /\ \A u \in NvmlThreads \ {t} : error'[u] = error[u] /\ answer'[u] = answer[u]
      /\ error'[t] = "INSUFFICIENT_SIZE" => length > room
      /\ error'[t] # "SUCCESS"
      /\ answer'[t] \in {NoAnswer, list} /\ (error'[t] = "" => answer'[t] = list)
      /\ answer' \in [NvmlThreads -> [entries : Nat, blanks : Int]]
  <2>1. /\ DOMAIN error = NvmlThreads /\ answer \in [NvmlThreads -> [entries : Nat, blanks : Int]]
    BY DEF NvmlInv, NvmlTypes, ListInv, ListTypes
  <2>2. CASE answer' = answer /\ ~(Goes(t, "idle") /\ error' = error /\ answer' = [answer EXCEPT ![t] = list])
    BY <1>1, <1>6, <2>1, <2>2 DEF NvmlRaises, Goes
  <2>3. CASE Goes(t, "idle") /\ error' = error /\ answer' = [answer EXCEPT ![t] = list]
    <3>1. \A u \in NvmlThreads \ {t} : answer'[u] = answer[u]
      BY <2>1, <2>3
    <3>2. answer'[t] = list
      BY <2>1, <2>3
    <3>3. answer' \in [NvmlThreads -> [entries : Nat, blanks : Int]]
      BY <1>7, <2>1, <2>3
    <3> QED BY <1>1, <2>3, <3>1, <3>2, <3>3 DEF Goes
  <2> QED BY <1>6, <2>2, <2>3
<1>9. ListTypes'
  BY <1>1, <1>8 DEF ListInv, ListTypes
<1>10. /\ nvmlPc'[t] = "idle" /\ later'[t] = length
       /\ \A u \in NvmlThreads \ {t} : nvmlPc'[u] = nvmlPc[u] /\ later'[u] = later[u]
  BY <1>1, <1>8 DEF NvmlInv, NvmlTypes, ListInv, ListTypes
<1>11. /\ answer'[t].blanks > 0 => query \in {"hics", "units", "pids"} /\ former[t] > length
       /\ error'[t] = "" => answer'[t].entries = length
  BY <1>4, <1>7, <1>8, NothingAnswered
<1> QED BY <1>1, <1>2, <1>8, <1>9, <1>10, <1>11, ListStep

LEMMA ResizeList ==
  ASSUME ListInv, Resize PROVE ListInv'
<1>1. length' \in Nat /\ UNCHANGED <<query, former, later, answer, doing, nvmlPc, error>>
  BY NvmlAssumption DEF Resize, Replies
<1> QED BY <1>1 DEF ListInv, ListTypes, OnTheWay, ListsComplete, At

LEMMA ListInvNext == NvmlInv /\ ListInv /\ [NvmlNext]_nvmlVars => ListInv'
<1> SUFFICES ASSUME NvmlInv, ListInv, [NvmlNext]_nvmlVars PROVE ListInv'
  OBVIOUS
<1>1. CASE UNCHANGED nvmlVars
  BY <1>1 DEF nvmlVars, ListInv, ListTypes, OnTheWay, ListsComplete, At
<1> QED BY <1>1, ResizeList, BeginList, OtherList, SizeList, FillList DEF NvmlNext

\* A list has all the entries there are at the library's last answer, and its function
\* fails only when the list has outgrown the array between the two calls, for any number
\* of threads and any lengths.
THEOREM ListsAreComplete == NvmlSpec => []ListsComplete
<1>1. NvmlSpec => []NvmlInv
  BY NvmlInvariance
<1>2. ListInv => ListsComplete
  BY DEF ListInv
<1> QED BY <1>1, <1>2, ListInitInv, ListInvNext, PTL DEF NvmlSpec

-----------------------------------------------------------------------------
(* Psutil: the processes.                                                   *)

LEMMA Least ==
  ASSUME NEW T, T \subseteq Nat, T # {} PROVE \E n \in T : \A m \in T : n <= m
<1>1. PICK n \in T : \A m \in T : ~(<<m, n>> \in OpToRel(<, Nat))
  BY NatLessThanWellFounded, WFMin
<1>2. \A m \in T : ~(m < n)
  BY <1>1 DEF OpToRel
<1> QED BY <1>2

Records == [birth : Nat \ {0}, parent : Nat, zombie : BOOLEAN]
Objects == [pid : Nat, birth : Nat, gone : BOOLEAN]

\* Birth times tell the processes apart, and parents are there and older.
ProcsOK ==
  /\ births \in Nat \ {0} /\ DOMAIN procs \subseteq Pids
  /\ \A p \in DOMAIN procs : procs[p] \in Records /\ procs[p].birth <= births
  /\ \A p, q \in DOMAIN procs : procs[p].birth = procs[q].birth => p = q
  /\ \A p \in DOMAIN procs : procs[p].parent # 0 =>
       /\ procs[p].parent \in DOMAIN procs
       /\ procs[procs[p].parent].birth < procs[p].birth

\* What a step does to the processes: those that are there keep their birth, and their
\* parent as long as it is there; new ones are younger than all before.
Ages ==
  /\ births' \in Nat /\ births <= births'
  /\ \A p \in DOMAIN procs' :
       \/ /\ p \in DOMAIN procs /\ procs'[p].birth = procs[p].birth
          /\ procs'[p].parent \in {procs[p].parent, 0}
       \/ p \notin DOMAIN procs /\ procs'[p].birth > births
\* Those that lasted and still last are there.
Thins ==
  /\ lasting' \subseteq lasting
  /\ \A p \in DOMAIN procs : procs[p].birth \in lasting' => p \in DOMAIN procs'

LEMMA OwnPidIn == OwnPid \in Pids
<1>1. \E p \in Pids : \A q \in Pids : p <= q
  BY PsutilAssumption, Least
<1> QED BY <1>1 DEF OwnPid

LEMMA ForkAges ==
  ASSUME ProcsOK, NEW p \in Pids, NEW q \in Pids, Fork(p, q)
  PROVE  ProcsOK' /\ Ages /\ Thins
<1> DEFINE new == [birth |-> births + 1, parent |-> p, zombie |-> FALSE]
<1>1. /\ p \in DOMAIN procs /\ q \notin DOMAIN procs /\ births' = births + 1 /\ lasting' = lasting
      /\ procs' = [r \in DOMAIN procs \union {q} |-> IF r = q THEN new ELSE procs[r]]
      /\ births \in Nat \ {0} /\ p # 0
  BY PsutilAssumption DEF Fork, There, ProcsOK
<1>2. new \in Records /\ new.birth = births + 1 /\ new.parent = p
  <2>1. births + 1 \in Nat \ {0} /\ p \in Nat
    BY <1>1, PsutilAssumption
  <2> QED BY <2>1 DEF Records
<1> HIDE DEF new
<1>3. /\ DOMAIN procs' = DOMAIN procs \union {q} /\ procs'[q] = new
      /\ \A r \in DOMAIN procs : procs'[r] = procs[r]
  BY <1>1
<1>4. \A r \in DOMAIN procs : procs[r].birth \in Nat /\ procs[r].birth <= births
  BY DEF ProcsOK, Records
<1>5. ProcsOK'
  <2>1. \A r \in DOMAIN procs' : procs'[r] \in Records /\ procs'[r].birth <= births'
    BY <1>1, <1>2, <1>3, <1>4 DEF ProcsOK
  <2>2. \A r, s \in DOMAIN procs' : procs'[r].birth = procs'[s].birth => r = s
    BY <1>1, <1>2, <1>3, <1>4 DEF ProcsOK
  <2>3. \A r \in DOMAIN procs' : procs'[r].parent # 0 =>
          /\ procs'[r].parent \in DOMAIN procs'
          /\ procs'[procs'[r].parent].birth < procs'[r].birth
    BY <1>1, <1>2, <1>3, <1>4 DEF ProcsOK
  <2>4. births' \in Nat \ {0} /\ DOMAIN procs' \subseteq Pids
    BY <1>1, <1>3 DEF ProcsOK
  <2> QED BY <2>1, <2>2, <2>3, <2>4 DEF ProcsOK
<1>6. Ages /\ Thins
  BY <1>1, <1>2, <1>3 DEF Ages, Thins
<1> QED BY <1>5, <1>6

\* A process ends, or only becomes a zombie: its children get init for a parent.
LEMMA EndAges ==
  ASSUME ProcsOK, NEW p \in DOMAIN procs, births' = births,
         \/ procs' = Without(p) /\ lasting' = lasting \ {procs[p].birth}
         \/ /\ procs' = [r \in DOMAIN procs |->
                 IF r = p THEN [procs[r] EXCEPT !.zombie = TRUE]
                 ELSE IF procs[r].parent = p THEN [procs[r] EXCEPT !.parent = 0] ELSE procs[r]]
            /\ lasting' = lasting
  PROVE  ProcsOK' /\ Ages /\ Thins
<1>1. /\ DOMAIN procs' \subseteq DOMAIN procs /\ DOMAIN procs \ {p} \subseteq DOMAIN procs'
      /\ \A r \in DOMAIN procs' :
           /\ procs'[r] \in Records /\ procs'[r].birth = procs[r].birth
           /\ r # p => procs'[r].parent = IF procs[r].parent = p THEN 0 ELSE procs[r].parent
           /\ r = p => procs'[r].parent = procs[r].parent
      /\ lasting' \subseteq lasting
      /\ p \notin DOMAIN procs' => procs[p].birth \notin lasting'
  <2>1. \A r \in DOMAIN procs : procs[r] \in Records
    BY DEF ProcsOK
  <2>2. \A r \in DOMAIN procs :
          /\ [procs[r] EXCEPT !.parent = 0] \in Records
          /\ [procs[r] EXCEPT !.parent = 0].birth = procs[r].birth
          /\ [procs[r] EXCEPT !.parent = 0].parent = 0
          /\ [procs[r] EXCEPT !.zombie = TRUE] \in Records
          /\ [procs[r] EXCEPT !.zombie = TRUE].birth = procs[r].birth
          /\ [procs[r] EXCEPT !.zombie = TRUE].parent = procs[r].parent
    BY <2>1 DEF Records
  <2>3. CASE procs' = Without(p) /\ lasting' = lasting \ {procs[p].birth}
    BY <2>1, <2>2, <2>3 DEF Without
  <2>4. CASE /\ procs' = [r \in DOMAIN procs |->
                    IF r = p THEN [procs[r] EXCEPT !.zombie = TRUE]
                    ELSE IF procs[r].parent = p THEN [procs[r] EXCEPT !.parent = 0] ELSE procs[r]]
             /\ lasting' = lasting
    BY <2>1, <2>2, <2>4
  <2> QED BY <2>3, <2>4
<1>2. procs[p].parent # p
  <2>1. p # 0 /\ procs[p].birth \in Nat
    BY PsutilAssumption DEF ProcsOK, Records
  <2> QED BY <2>1 DEF ProcsOK
<1>3. ProcsOK'
  <2>1. \A r \in DOMAIN procs' : procs'[r].parent # 0 =>
          /\ procs'[r].parent \in DOMAIN procs'
          /\ procs'[procs'[r].parent].birth < procs'[r].birth
    <3> SUFFICES ASSUME NEW r \in DOMAIN procs', procs'[r].parent # 0
                 PROVE  /\ procs'[r].parent \in DOMAIN procs'
                        /\ procs'[procs'[r].parent].birth < procs'[r].birth
      OBVIOUS
    <3>1. procs'[r].parent = procs[r].parent /\ procs[r].parent # p
      BY <1>1, <1>2
    <3>2. /\ procs[r].parent \in DOMAIN procs
          /\ procs[procs[r].parent].birth < procs[r].birth
      BY <1>1, <3>1 DEF ProcsOK
    <3> QED BY <1>1, <3>1, <3>2
  <2> QED BY <1>1, <2>1 DEF ProcsOK
<1>4. Ages /\ Thins
  BY <1>1 DEF Ages, Thins, ProcsOK
<1> QED BY <1>3, <1>4

LEMMA SystemAges ==
  ASSUME ProcsOK, System \/ Reap \/ UNCHANGED <<procs, births, lasting>>
  PROVE  ProcsOK' /\ Ages /\ Thins
<1>1. CASE UNCHANGED <<procs, births, lasting>>
  BY <1>1 DEF ProcsOK, Ages, Thins, Records
<1>2. CASE Reap
  BY <1>2, EndAges DEF Reap, There
<1>3. ASSUME NEW p \in Pids, Exit(p) PROVE ProcsOK' /\ Ages /\ Thins
  <2>1. p \in DOMAIN procs /\ births' = births
    BY <1>3 DEF Exit, There
  <2> QED BY <1>3, <2>1, EndAges DEF Exit
<1> QED BY <1>1, <1>2, <1>3, ForkAges DEF System

-----------------------------------------------------------------------------
(* Psutil: the objects.                                                     *)

Ended(o, ps) == \A p \in DOMAIN ps : ps[p].birth # o.birth

\* An object is of a process that is or was there, and is gone only when that has ended.
Known(o, ps, bs) ==
  /\ o \in Objects /\ o.birth <= bs
  /\ \A p \in DOMAIN ps : ps[p].birth = o.birth => p = o.pid
  /\ o.gone => Ended(o, ps)

LEMMA KnownLater ==
  ASSUME ProcsOK, Ages, NEW o, Known(o, procs, births)
  PROVE  Known(o, procs', births') /\ (Ended(o, procs) => Ended(o, procs'))
<1>1. o.birth \in Nat /\ births \in Nat /\ births' \in Nat /\ o.birth <= births
  BY DEF Known, Objects, ProcsOK, Ages
<1>2. \A p \in DOMAIN procs' : procs'[p].birth = o.birth =>
        p \in DOMAIN procs /\ procs[p].birth = o.birth
  BY <1>1 DEF Ages
<1> QED BY <1>1, <1>2 DEF Known, Ended, Ages

LEMMA ObjectKnown ==
  ASSUME ProcsOK, NEW p \in DOMAIN procs
  PROVE  Known(Object(p), procs, births) /\ Object(p).pid = p /\ Object(p).birth = procs[p].birth
BY PsutilAssumption DEF Known, Object, Objects, ProcsOK, Records

LEMMA NoObjectKnown == ASSUME ProcsOK PROVE Known(NoObject, procs, births)
BY DEF Known, Ended, NoObject, Objects, ProcsOK, Records

\* What is not running has ended.
LEMMA RunningOrEnded ==
  ASSUME ProcsOK, NEW o, Known(o, procs, births)
  PROVE  /\ Running(o) => o.pid \in DOMAIN procs /\ procs[o.pid].birth = o.birth
         /\ ~Running(o) => Ended(o, procs)
BY DEF Running, Same, There, Known, Ended

\* Marking an object as gone.
LEMMA MarkedGone ==
  ASSUME ProcsOK, NEW o, Known(o, procs, births), NEW n,
         \/ n = o
         \/ o.pid \notin DOMAIN procs /\ n = [o EXCEPT !.gone = TRUE]
  PROVE  Known(n, procs, births) /\ n.pid = o.pid /\ n.birth = o.birth
<1>1. CASE n = o
  BY <1>1
<1>2. CASE o.pid \notin DOMAIN procs /\ n = [o EXCEPT !.gone = TRUE]
  <2>1. o \in Objects
    BY DEF Known
  <2>2. n \in Objects /\ n.pid = o.pid /\ n.birth = o.birth
    BY <1>2, <2>1 DEF Objects
  <2> QED BY <1>2, <2>2 DEF Known, Ended
<1> QED BY <1>1, <1>2

\* Nothing changes unless the condition holds.
LEMMA MarkedIf ==
  ASSUME NEW o \in Objects, NEW b \in BOOLEAN, NEW n, n = [o EXCEPT !.gone = o.gone \/ b]
  PROVE  /\ ~b => n = o
         /\ b => n = [o EXCEPT !.gone = TRUE]
<1>1. CASE b = TRUE
  <2>1. (o.gone \/ b) = TRUE
    BY <1>1, Zenon
  <2> QED BY <1>1, <2>1, Zenon
<1>2. CASE b = FALSE
  <2>1. o.gone \in BOOLEAN
    BY DEF Objects
  <2>2. (o.gone \/ b) = o.gone
    BY <1>2, <2>1, Zenon
  <2>3. n = [o EXCEPT !.gone = o.gone]
    BY <2>2, Zenon
  <2>4. n = o
    BY <2>3 DEF Objects
  <2> QED BY <1>2, <2>4, Zenon
<1> QED BY <1>1, <1>2

-----------------------------------------------------------------------------
(* Psutil: the invariant.                                                   *)

Guards == {"signal", "nice"}
Waits == {"wait", "wait_procs"}

\* Which function can be where.
PcOK ==
  \/ pc = "idle"
  \/ call \in Guards /\ pc \in {"check", "act"}
  \/ call = "ionice" /\ pc = "act"
  \/ call = "parent" /\ pc \in {"ppid", "create"}
  \/ call \in {"children", "descendants"} /\ pc \in {"check", "pids", "visit", "child"}
  \/ call = "process_iter" /\ pc \in {"pids", "visit"}
  \/ call = "wait" /\ pc \in {"waitpid", "exists"}
  \/ call = "wait_procs" /\ pc \in {"choose", "waitpid", "exists", "recheck"}

ObjectsOK ==
  /\ Known(held, procs, births) /\ Known(waitee, procs, births)
  /\ \A p \in DOMAIN pmap : Known(pmap[p], procs, births) /\ pmap[p].pid = p

\* A process that was not there when the function was called is younger than the object;
\* so the process that the check has found was there already.
GuardInv ==
  /\ pc # "idle" =>
       /\ touched = NoHit
       /\ \A p \in DOMAIN procs : \/ p \in DOMAIN began /\ began[p].birth = procs[p].birth
                                  \/ procs[p].birth > held.birth
  /\ pc = "act" /\ call \in Guards =>
       held.pid \in DOMAIN began /\ began[held.pid].birth = held.birth
  /\ GuardedChecked

\* What wait_procs has to look at are objects, and what it takes for gone has ended.
WaitInv ==
  /\ pc # "idle" /\ call = "wait_procs" =>
       /\ \A o \in left : Known(o, procs, births)
       /\ \A o \in table : Known(o, procs, births) /\ Ended(o, procs)
  /\ pc = "idle" /\ call \in Waits =>
       \A o \in result : Known(o, procs, births) /\ Ended(o, procs)

PsInv == ProcsOK /\ PcOK /\ ObjectsOK /\ GuardInv /\ WaitInv

LEMMA InitPs == PsutilInit => PsInv
<1> SUFFICES ASSUME PsutilInit PROVE PsInv
  OBVIOUS
<1>1. DOMAIN procs = {OwnPid} /\ procs[OwnPid] = [birth |-> 1, parent |-> 0, zombie |-> FALSE]
  BY DEF PsutilInit
<1>2. births = 1 /\ held = NoObject /\ waitee = NoObject /\ pmap = <<>> /\ pc = "idle" /\ call = "none"
  BY DEF PsutilInit
<1>3. ProcsOK
  <2>1. procs[OwnPid] \in Records /\ procs[OwnPid].birth = 1 /\ procs[OwnPid].parent = 0
    BY <1>1 DEF Records
  <2>2. births \in Nat \ {0} /\ DOMAIN procs \subseteq Pids
    BY <1>1, <1>2, OwnPidIn
  <2>3. \A p \in DOMAIN procs : p = OwnPid
    BY <1>1
  <2> QED BY <1>2, <2>1, <2>2, <2>3 DEF ProcsOK
<1>4. ObjectsOK
  BY <1>2, <1>3, NoObjectKnown DEF ObjectsOK
<1>5. PcOK /\ GuardInv /\ WaitInv
  BY <1>2 DEF PcOK, GuardInv, WaitInv, Guards, Waits, GuardedChecked, Returned
<1> QED BY <1>3, <1>4, <1>5 DEF PsInv

LEMMA SystemPs ==
  ASSUME PsInv, System \/ UNCHANGED psutilVars
  PROVE  PsInv'
<1>1. UNCHANGED <<held, pmap, call, pc, waitee, left, table, result, began, touched>>
  BY DEF System, Exit, Fork, Program, psutilVars
<1>2. ProcsOK' /\ Ages
  BY SystemAges DEF PsInv, psutilVars
<1>3. \A o : Known(o, procs, births) => Known(o, procs', births') /\ (Ended(o, procs) => Ended(o, procs'))
  BY <1>2, KnownLater DEF PsInv
<1>4. ObjectsOK'
  BY <1>1, <1>3 DEF PsInv, ObjectsOK
<1>5. WaitInv'
  BY <1>1, <1>3 DEF PsInv, WaitInv
<1>6. GuardInv'
  <2>1. held.birth \in Nat /\ held.birth <= births /\ births \in Nat
    BY DEF PsInv, ObjectsOK, Known, Objects, ProcsOK
  <2> QED BY <1>1, <1>2, <2>1 DEF PsInv, GuardInv, Ages, ProcsOK, Records, GuardedChecked, Returned, Elsewhere
<1> QED BY <1>1, <1>2, <1>4, <1>5, <1>6 DEF PsInv, PcOK

\* A function is called.
LEMMA CallPs ==
  ASSUME PsInv, CallMethod \/ CallWait \/ CallWaitProcs \/ CallIter
  PROVE  PsInv'
<1> USE DEF PsInv
<1>1. /\ UNCHANGED <<procs, births, held, pmap>> /\ began' = procs /\ touched' = NoHit
      /\ table' = {} /\ pc' # "idle"
  BY DEF CallMethod, CallWait, CallWaitProcs, CallIter, Call, SystemSame
<1>2. ProcsOK' /\ waitee' \in {waitee, held}
  BY <1>1 DEF ProcsOK, CallMethod, CallWait, CallWaitProcs, CallIter
<1>3. PcOK' /\ (pc' = "act" => call' \notin Guards)
  BY DEF PcOK, CallMethod, CallWait, CallWaitProcs, CallIter, Call, Checked, Unchecked, Guards
<1>4. ObjectsOK'
  BY <1>1, <1>2 DEF ObjectsOK
<1>5. call' = "wait_procs" => \A o \in left' : Known(o, procs, births)
  BY DEF CallMethod, CallWait, CallWaitProcs, CallIter, Call, Checked, Unchecked, ObjectsOK
<1>6. GuardInv' /\ WaitInv'
  BY <1>1, <1>3, <1>5 DEF GuardInv, WaitInv, GuardedChecked, Returned
<1> QED BY <1>2, <1>3, <1>4, <1>6

LEMMA NewProcessPs ==
  ASSUME PsInv, NEW p \in Pids, NewProcess(p)
  PROVE  PsInv'
<1> USE DEF PsInv
<1>1. /\ UNCHANGED <<procs, births, pmap, pc, waitee>> /\ call' = "none" /\ pc = "idle"
      /\ p \in DOMAIN procs /\ held' = IF p \in DOMAIN pmap THEN pmap[p] ELSE Object(p)
  BY DEF NewProcess, SystemSame, There
<1>2. ProcsOK'
  BY <1>1 DEF ProcsOK
<1>3. ObjectsOK'
  BY <1>1, ObjectKnown DEF ObjectsOK
<1>4. PcOK' /\ GuardInv' /\ WaitInv'
  BY <1>1 DEF PcOK, GuardInv, WaitInv, GuardedChecked, Returned, Guards, Waits
<1> QED BY <1>2, <1>3, <1>4

\* The steps of the functions that do not wait.
LEMMA StepPs ==
  ASSUME PsInv, UNCHANGED <<procs, births, call, began>>, pc # "idle", call \notin Waits, PcOK',
         waitee' \in {waitee, NoObject},
         Known(held', procs, births), held'.pid = held.pid, held'.birth = held.birth,
         \A p \in DOMAIN pmap' : Known(pmap'[p], procs, births) /\ pmap'[p].pid = p,
         pc' # "idle" => touched' = touched,
         pc' = "act" /\ call \in Guards =>
           held.pid \in DOMAIN began /\ began[held.pid].birth = held.birth,
         pc' = "idle" /\ call \in Guards => ~Elsewhere'
  PROVE  PsInv'
<1> USE DEF PsInv
<1>1. ProcsOK'
  BY DEF ProcsOK
<1>2. ObjectsOK'
  BY NoObjectKnown DEF ObjectsOK
<1>3. GuardInv'
  BY DEF GuardInv, GuardedChecked, Returned, Guards
<1>4. WaitInv'
  BY DEF WaitInv, Waits
<1> QED BY <1>1, <1>2, <1>3, <1>4

LEMMA CheckPs == ASSUME PsInv, Check PROVE PsInv'
<1>1. /\ UNCHANGED <<procs, births, call, began, pmap, touched>> /\ pc = "check"
      /\ call \in {"signal", "nice", "children", "descendants"}
      /\ held' = [held EXCEPT !.gone = held.gone \/ ~There(held.pid)]
  BY DEF Check, Frame, Returns, SystemSame, PsInv, PcOK, Guards
<1>2. Known(held', procs, births) /\ held'.pid = held.pid /\ held'.birth = held.birth
  <2> DEFINE b == ~There(held.pid)
  <2>1. held \in Objects /\ Known(held, procs, births) /\ b \in BOOLEAN
    BY DEF PsInv, ObjectsOK, Known
  <2>2. held' = [held EXCEPT !.gone = held.gone \/ b]
    BY <1>1, Zenon
  <2>3. b => held.pid \notin DOMAIN procs
    BY DEF There
  <2> HIDE DEF b
  <2>4. (~b => held' = held) /\ (b => held' = [held EXCEPT !.gone = TRUE])
    BY <2>1, <2>2, MarkedIf
  <2>5. held' = held \/ (held.pid \notin DOMAIN procs /\ held' = [held EXCEPT !.gone = TRUE])
    BY <2>3, <2>4
  <2> QED BY <2>1, <2>5, MarkedGone DEF PsInv
<1>3. touched = NoHit
  BY <1>1 DEF PsInv, GuardInv
<1>4. ~Elsewhere'
  BY <1>1, <1>3 DEF Elsewhere, NoHit
<1>5. CASE Running(held)
  <2>1. /\ pc' = (IF call \in {"children", "descendants"} THEN "pids" ELSE "act")
        /\ waitee' = waitee
    BY <1>5 DEF Check, Frame
  <2>2. held.pid \in DOMAIN procs /\ procs[held.pid].birth = held.birth /\ held.birth \in Nat
    BY <1>5, RunningOrEnded DEF PsInv, ObjectsOK, Known, Objects
  <2>3. held.pid \in DOMAIN began /\ began[held.pid].birth = held.birth
    BY <1>1, <2>2 DEF PsInv, GuardInv
  <2>4. PcOK'
    BY <1>1, <2>1 DEF PcOK, Guards
  <2> QED BY <1>1, <1>2, <1>4, <2>1, <2>3, <2>4, StepPs DEF PsInv, ObjectsOK, Waits
<1>6. CASE ~Running(held)
  <2>1. pc' = "idle" /\ waitee' = NoObject
    BY <1>6 DEF Check, Returns
  <2> QED BY <1>1, <1>2, <1>4, <2>1, StepPs DEF PsInv, ObjectsOK, PcOK, Waits
<1> QED BY <1>5, <1>6

LEMMA ActPs == ASSUME PsInv, Act PROVE PsInv'
<1>1. /\ UNCHANGED <<procs, births, call, began, pmap>> /\ pc = "act" /\ pc' = "idle"
      /\ waitee' = NoObject /\ call \notin Waits
  BY DEF Act, Returns, SystemSame, PsInv, PcOK, Guards, Waits
<1>2. PcOK'
  BY <1>1 DEF PcOK
<1>3. CASE There(held.pid)
  <2>1. /\ held' = held
        /\ touched' = [at |-> procs[held.pid].birth, own |-> held.birth,
                        began |-> BirthAt(began, held.pid)]
    BY <1>3 DEF Act
  <2>2. call \in Guards => BirthAt(began, held.pid) = held.birth
    BY <1>1 DEF PsInv, GuardInv, BirthAt
  <2>3. call \in Guards => ~Elsewhere'
    BY <2>1, <2>2 DEF Elsewhere
  <2> QED BY <1>1, <1>2, <2>1, <2>3, StepPs DEF PsInv, ObjectsOK
<1>4. CASE ~There(held.pid)
  <2>1. held' = [held EXCEPT !.gone = held.gone \/ call = "signal"] /\ touched' = touched
    BY <1>4 DEF Act
  <2>2. Known(held', procs, births) /\ held'.pid = held.pid /\ held'.birth = held.birth
    <3> DEFINE b == call = "signal"
    <3>1. held \in Objects /\ Known(held, procs, births) /\ held.pid \notin DOMAIN procs
      BY <1>4 DEF PsInv, ObjectsOK, Known, There
    <3>2. b \in BOOLEAN /\ held' = [held EXCEPT !.gone = held.gone \/ b]
      BY <2>1, Zenon
    <3> HIDE DEF b
    <3>3. (~b => held' = held) /\ (b => held' = [held EXCEPT !.gone = TRUE])
      BY <3>1, <3>2, MarkedIf
    <3>4. held' = held \/ held' = [held EXCEPT !.gone = TRUE]
      BY <3>2, <3>3
    <3> QED BY <3>1, <3>4, MarkedGone DEF PsInv
  <2>3. ~Elsewhere'
    BY <1>1, <2>1 DEF Elsewhere, NoHit, PsInv, GuardInv
  <2> QED BY <1>1, <1>2, <2>1, <2>2, <2>3, StepPs DEF PsInv, ObjectsOK
<1> QED BY <1>3, <1>4

LEMMA ParentPs == ASSUME PsInv, ParentPpid \/ ParentCreate PROVE PsInv'
<1>1. /\ UNCHANGED <<procs, births, call, began, pmap, held, touched>> /\ pc # "idle"
      /\ call = "parent" /\ waitee' \in {waitee, NoObject} /\ pc' \in {"create", "idle"}
  BY DEF ParentPpid, ParentCreate, Returns, Frame, SystemSame, PsInv, PcOK, Guards
<1>2. PcOK' /\ pc' # "act" /\ call \notin Guards /\ call \notin Waits
  BY <1>1 DEF PcOK, Guards, Waits
<1> QED BY <1>1, <1>2, StepPs DEF PsInv, ObjectsOK

\* The next pid of a walk is one of those left.
LEMMA FollowingIn ==
  ASSUME left # {}, left \subseteq Pids PROVE Following \in left
<1>1. \E p \in left : \A q \in left : p <= q
  BY PsutilAssumption, Least
<1> QED BY <1>1 DEF Following

LEMMA VisitedKnown ==
  ASSUME PsInv, NEW p \in DOMAIN procs
  PROVE  /\ Known(Visited(p), procs, births) /\ Visited(p).pid = p
         /\ Visited(p).birth = procs[p].birth
<1>1. CASE p \in DOMAIN pmap /\ Running(pmap[p])
  <2>1. Visited(p) = pmap[p] /\ Known(pmap[p], procs, births) /\ pmap[p].pid = p
    BY <1>1 DEF Visited, PsInv, ObjectsOK
  <2> QED BY <1>1, <2>1, RunningOrEnded DEF PsInv
<1>2. CASE ~(p \in DOMAIN pmap /\ Running(pmap[p]))
  BY <1>2, ObjectKnown DEF Visited, PsInv
<1> QED BY <1>1, <1>2

LEMMA WalkPs ==
  ASSUME PsInv, IterPids \/ IterVisit \/ ChildPpid \/ IterEnds
  PROVE  PsInv'
<1>1. /\ UNCHANGED <<procs, births, call, began, held, touched>>
      /\ call \in {"children", "descendants", "process_iter"} /\ pc \in {"pids", "visit", "child"}
      /\ waitee' \in {waitee, NoObject} /\ pc' \in {"visit", "child", "idle"}
      /\ pc' = "child" => call # "process_iter"
  BY DEF IterPids, IterVisit, ChildPpid, IterEnds, Returns, Frame, SystemSame, PsInv, PcOK, Guards
<1>2. PcOK' /\ pc' # "act" /\ call \notin Guards /\ call \notin Waits
  BY <1>1 DEF PcOK, Guards, Waits
<1>3. \A p \in DOMAIN pmap' : Known(pmap'[p], procs, births) /\ pmap'[p].pid = p
  <2>1. CASE pmap' = pmap
    BY <2>1 DEF PsInv, ObjectsOK
  <2>2. CASE IterPids
    BY <2>2 DEF IterPids, PsInv, ObjectsOK
  <2>3. CASE IterVisit
    <3>1. CASE Following \in DOMAIN procs
      BY <2>3, <3>1, VisitedKnown DEF IterVisit, There, PsInv, ObjectsOK
    <3>2. CASE Following \notin DOMAIN procs
      BY <2>3, <3>2 DEF IterVisit, There, PsInv, ObjectsOK
    <3> QED BY <3>1, <3>2
  <2> QED BY <2>1, <2>2, <2>3 DEF ChildPpid, IterEnds
<1> QED BY <1>1, <1>2, <1>3, StepPs DEF PsInv, ObjectsOK

\* The steps of the functions that wait.
LEMMA WaitStepPs ==
  ASSUME PsInv, ProcsOK', Ages, UNCHANGED <<call, began, held, pmap, touched>>, pc # "idle",
         call \in Waits, PcOK', Known(waitee', procs', births'), WaitInv'
  PROVE  PsInv'
<1> USE DEF PsInv
<1>1. \A o : Known(o, procs, births) => Known(o, procs', births')
  BY KnownLater
<1>2. ObjectsOK'
  BY <1>1 DEF ObjectsOK
<1>3. GuardInv'
  <2>1. held.birth \in Nat /\ held.birth <= births /\ births \in Nat
    BY DEF ObjectsOK, Known, Objects, ProcsOK
  <2> QED BY <2>1 DEF GuardInv, Ages, ProcsOK, Records, GuardedChecked, Returned, Guards, Waits
<1> QED BY <1>2, <1>3

LEMMA WaitPs ==
  ASSUME PsInv, WaitPid \/ Reap \/ WaitExists \/ WaitTimeout \/ WaitChoose \/ WaitRecheck \/ WaitProcsEnds
  PROVE  PsInv'
<1>1. /\ UNCHANGED <<call, began, held, pmap, touched>> /\ pc # "idle" /\ call \in Waits
  BY DEF WaitPid, Reap, WaitExists, WaitTimeout, WaitChoose, WaitRecheck, WaitProcsEnds, Returns,
         Frame, WaitedFor, PsInv, PcOK, Guards, Waits
<1>2. ProcsOK' /\ Ages /\ (~Reap => UNCHANGED <<procs, births>>)
  <2>1. CASE Reap
    BY <2>1, SystemAges DEF PsInv
  <2>2. CASE ~Reap
    <3>1. UNCHANGED <<procs, births>>
      BY <2>2 DEF WaitPid, WaitExists, WaitTimeout, WaitChoose, WaitRecheck, WaitProcsEnds, Frame,
                  SystemSame
    <3> QED BY <2>2, <3>1 DEF PsInv, ProcsOK, Records, Ages
  <2> QED BY <2>1, <2>2
<1>3. \A o : Known(o, procs, births) => Known(o, procs', births') /\ (Ended(o, procs) => Ended(o, procs'))
  BY <1>2, KnownLater DEF PsInv
<1>4. Known(waitee, procs, births) /\ Known(NoObject, procs, births)
  BY NoObjectKnown DEF PsInv, ObjectsOK
<1>5. call = "wait_procs" => /\ \A o \in left : Known(o, procs, births)
                            /\ \A o \in table : Known(o, procs, births) /\ Ended(o, procs)
  BY <1>1 DEF PsInv, WaitInv
<1>6. CASE WaitPid
  <2>1. PcOK' /\ pc' # "idle" /\ UNCHANGED <<waitee, left, table>>
    BY <1>1, <1>6 DEF WaitPid, Frame, PsInv, PcOK, Waits, Guards
  <2>2. WaitInv'
    BY <1>1, <1>3, <1>5, <2>1 DEF WaitInv
  <2> QED BY <1>1, <1>2, <1>3, <1>4, <2>1, <2>2, WaitStepPs
<1>7. CASE Reap
  <2>1. Ended(waitee, procs')
    BY <1>4, <1>7 DEF Reap, Without, Known, Ended
  <2>2. CASE call = "wait"
    <3>1. result' = {waitee} /\ pc' = "idle" /\ waitee' = NoObject
      BY <1>7, <2>2 DEF Reap, Returns
    <3>2. WaitInv' /\ PcOK'
      BY <1>1, <1>3, <1>4, <2>1, <3>1 DEF WaitInv, PcOK
    <3> QED BY <1>1, <1>2, <1>3, <1>4, <3>1, <3>2, WaitStepPs
  <2>3. CASE call = "wait_procs"
    <3>1. pc' = "choose" /\ left' = left \ {waitee} /\ table' = table \union {waitee} /\ waitee' = waitee
      BY <1>7, <2>3 DEF Reap
    <3>2. WaitInv' /\ PcOK'
      BY <1>1, <1>3, <1>4, <1>5, <2>1, <2>3, <3>1 DEF WaitInv, PcOK
    <3> QED BY <1>1, <1>2, <1>3, <1>4, <3>1, <3>2, WaitStepPs
  <2> QED BY <1>1, <2>2, <2>3 DEF Waits
<1>8. CASE WaitExists
  <2>1. Ended(waitee, procs) /\ UNCHANGED <<procs, births>>
    BY <1>2, <1>4, <1>8 DEF WaitExists, There, Known, Ended, Reap
  <2>2. CASE call = "wait"
    <3>1. result' = {waitee} /\ pc' = "idle" /\ waitee' = NoObject
      BY <1>8, <2>2 DEF WaitExists, WaitedFor, Returns
    <3>2. WaitInv' /\ PcOK'
      BY <1>1, <1>3, <1>4, <2>1, <3>1 DEF WaitInv, PcOK
    <3> QED BY <1>1, <1>2, <1>3, <1>4, <3>1, <3>2, WaitStepPs
  <2>3. CASE call = "wait_procs"
    <3>1. pc' = "recheck" /\ UNCHANGED <<left, table, waitee>>
      BY <1>8, <2>3 DEF WaitExists, WaitedFor
    <3>2. WaitInv' /\ PcOK'
      BY <1>1, <1>3, <1>5, <2>3, <3>1 DEF WaitInv, PcOK
    <3> QED BY <1>1, <1>2, <1>3, <1>4, <3>1, <3>2, WaitStepPs
  <2> QED BY <1>1, <2>2, <2>3 DEF Waits
<1>9. CASE WaitTimeout
  <2>1. CASE call = "wait"
    <3>1. result' = {} /\ pc' = "idle" /\ waitee' = NoObject
      BY <1>9, <2>1 DEF WaitTimeout, Returns
    <3>2. WaitInv' /\ PcOK'
      BY <1>1, <3>1 DEF WaitInv, PcOK
    <3> QED BY <1>1, <1>2, <1>3, <1>4, <3>1, <3>2, WaitStepPs
  <2>2. CASE call = "wait_procs"
    <3>1. pc' = "choose" /\ UNCHANGED <<left, table, waitee>>
      BY <1>9, <2>2 DEF WaitTimeout
    <3>2. WaitInv' /\ PcOK'
      BY <1>1, <1>3, <1>5, <2>2, <3>1 DEF WaitInv, PcOK
    <3> QED BY <1>1, <1>2, <1>3, <1>4, <3>1, <3>2, WaitStepPs
  <2> QED BY <1>1, <2>1, <2>2 DEF Waits
<1>10. CASE WaitChoose
  <2>1. /\ pc' = "waitpid" /\ UNCHANGED <<left, table>> /\ waitee' \in left
        /\ call = "wait_procs"
    BY <1>1, <1>10 DEF WaitChoose, PsInv, PcOK, Waits, Guards
  <2>2. WaitInv' /\ PcOK'
    BY <1>1, <1>3, <1>5, <2>1 DEF WaitInv, PcOK
  <2> QED BY <1>1, <1>2, <1>3, <1>5, <2>1, <2>2, WaitStepPs
<1>11. CASE WaitRecheck
  <2>1. pc' = "choose" /\ waitee' = waitee /\ call = "wait_procs"
    BY <1>1, <1>11 DEF WaitRecheck, Frame, PsInv, PcOK, Waits, Guards
  <2>2. \/ UNCHANGED <<left, table>>
        \/ /\ left' = left \ {waitee} /\ table' = table \union {waitee}
           /\ Ended(waitee, procs)
    BY <1>4, <1>11, RunningOrEnded DEF WaitRecheck, PsInv
  <2>3. WaitInv' /\ PcOK'
    BY <1>1, <1>3, <1>4, <1>5, <2>1, <2>2 DEF WaitInv, PcOK
  <2> QED BY <1>1, <1>2, <1>3, <1>4, <2>1, <2>3, WaitStepPs
<1>12. CASE WaitProcsEnds
  <2>1. pc' = "idle" /\ result' = table /\ waitee' = NoObject /\ call = "wait_procs"
    BY <1>1, <1>12 DEF WaitProcsEnds, Returns, PsInv, PcOK, Waits, Guards
  <2>2. WaitInv' /\ PcOK'
    BY <1>1, <1>3, <1>5, <2>1 DEF WaitInv, PcOK
  <2> QED BY <1>1, <1>2, <1>3, <1>4, <2>1, <2>2, WaitStepPs
<1> QED BY <1>6, <1>7, <1>8, <1>9, <1>10, <1>11, <1>12

LEMMA NextPs == PsInv /\ [PsutilNext]_psutilVars => PsInv'
<1> SUFFICES ASSUME PsInv, [PsutilNext]_psutilVars PROVE PsInv'
  OBVIOUS
<1>1. CASE Function
  BY <1>1, CheckPs, ActPs, ParentPs, WalkPs, WaitPs DEF Function
<1> QED BY <1>1, SystemPs, CallPs, NewProcessPs DEF PsutilNext

LEMMA AlwaysPs == PsutilSpec => []PsInv
BY InitPs, NextPs, PTL DEF PsutilSpec

\* A signal or a priority set never reaches a process that had the pid already when the
\* function was called, for any number of processes, forks and reuses of pids.
THEOREM GuardsHold == PsutilSpec => []GuardedChecked
<1>1. PsInv => GuardedChecked
  BY DEF PsInv, GuardInv
<1> QED BY <1>1, AlwaysPs, PTL

\* What wait() and wait_procs() report as gone has ended, though its pid may be another's.
THEOREM WaitsHold == PsutilSpec => []WaitTrue
<1>1. PsInv => WaitTrue
  BY DEF PsInv, WaitInv, WaitTrue, Returned, Waits, Ended
<1> QED BY <1>1, AlwaysPs, PTL

-----------------------------------------------------------------------------
(* Psutil: the walks of process_iter and children().                        *)

Walks == {"children", "descendants", "process_iter"}
Found == {o.birth : o \in result}

\* What lasts is there, and its parent is the one it had at the call, unless that ended.
LastOK ==
  /\ \A b \in lasting : \E p \in DOMAIN procs : procs[p].birth = b
  /\ \A p \in Lasting : /\ p \in DOMAIN began /\ began[p].birth = procs[p].birth
                        /\ procs[p].parent \in {began[p].parent, 0}

\* An entry is of a known process; the parent that was read for one that lasts is the one
\* it had at the call and still has, unless that ended.
EntryOK(e) ==
  /\ Known(e[1], procs, births) /\ e[1].pid \in Pids
  /\ e[2] # -1 /\ e[1].birth \in lasting =>
       e[2] \in {began[e[1].pid].parent, 0} /\ procs[e[1].pid].parent \in {e[2], 0}
  /\ e[2] = -1 => call = "process_iter" \/ pc = "child"
InTable(p) == \E e \in table : e[1].birth = procs[p].birth /\ e[1].pid = p

\* Who lasts is in the table, or the walk will come to it.
TableOK ==
  /\ pc \in {"check", "pids"} => table = {}
  /\ pc \in {"visit", "child"} => /\ left \subseteq Pids
                                  /\ \A e \in table : EntryOK(e)
                                  /\ \A p \in Lasting : p \in left \/ InTable(p)

\* What was found: all, or the children, and, for all descendants, with any also its children.
ResultOK ==
  pc = "idle" =>
    /\ call = "process_iter" => \A p \in Lasting : procs[p].birth \in Found
    /\ call \in {"children", "descendants"} /\ Lasts(held) =>
         \A p \in Lasting : procs[p].parent = held.pid => procs[p].birth \in Found
    /\ call = "children" /\ Lasts(held) =>
         \A o \in result : Lasts(o) => began[o.pid].parent = held.pid
    /\ call = "descendants" /\ Lasts(held) =>
         \A p, r \in Lasting : procs[p].parent = r /\ procs[r].birth \in Found
                                 => procs[p].birth \in Found

ChInv == LastOK /\ TableOK /\ ResultOK

\* What lasts after a step of the system lasted before.
LEMMA LastLater ==
  ASSUME ProcsOK, LastOK, Ages, Thins, began' = began
  PROVE  /\ LastOK' /\ lasting' \subseteq lasting
         /\ \A p \in Lasting' : /\ p \in Lasting /\ procs'[p].birth = procs[p].birth
                                /\ procs'[p].parent \in {procs[p].parent, 0}
<1>1. \A b \in lasting : b \in Nat /\ b <= births
  BY DEF LastOK, ProcsOK, Records
<1>2. \A p \in Lasting' : /\ p \in Lasting /\ procs'[p].birth = procs[p].birth
                          /\ procs'[p].parent \in {procs[p].parent, 0}
  <2> SUFFICES ASSUME NEW p \in DOMAIN procs', procs'[p].birth \in lasting'
               PROVE  /\ p \in DOMAIN procs /\ procs'[p].birth = procs[p].birth
                      /\ procs'[p].parent \in {procs[p].parent, 0} /\ procs[p].birth \in lasting
    BY DEF Lasting
  <2>1. procs'[p].birth \in lasting
    BY DEF Thins
  <2>2. births \in Nat /\ ~(procs'[p].birth > births)
    BY <1>1, <2>1 DEF ProcsOK
  <2> QED BY <2>1, <2>2 DEF Ages
<1>3. \A b \in lasting' : \E p \in DOMAIN procs' : procs'[p].birth = b
  <2> SUFFICES ASSUME NEW b \in lasting' PROVE \E p \in DOMAIN procs' : procs'[p].birth = b
    OBVIOUS
  <2>1. PICK p \in DOMAIN procs : procs[p].birth = b
    BY DEF Thins, LastOK
  <2>2. p \in DOMAIN procs'
    BY <2>1 DEF Thins
  <2> QED BY <2>1, <2>2 DEF Ages
<1> QED BY <1>2, <1>3 DEF LastOK, Thins

\* An object that lasts is of the process at its pid.
LEMMA LastsThere ==
  ASSUME ProcsOK, LastOK, NEW o, Known(o, procs, births), Lasts(o)
  PROVE  o.pid \in Lasting /\ procs[o.pid].birth = o.birth /\ o.pid \in Pids /\ o.pid # 0
<1>1. PICK p \in DOMAIN procs : procs[p].birth = o.birth
  BY DEF LastOK, Lasts
<1>2. p = o.pid
  BY <1>1 DEF Known
<1> QED BY <1>1, <1>2, PsutilAssumption DEF Lasting, Lasts, ProcsOK

LEMMA SystemCh ==
  ASSUME PsInv, ChInv, System \/ UNCHANGED psutilVars
  PROVE  ChInv'
<1> USE DEF ChInv
<1>1. UNCHANGED <<held, pmap, call, pc, waitee, left, table, result, began, touched>>
  BY DEF System, Exit, Fork, Program, psutilVars
<1>2. ProcsOK /\ ProcsOK' /\ Ages /\ Thins
  BY SystemAges DEF PsInv, psutilVars
<1>3. /\ LastOK' /\ lasting' \subseteq lasting
      /\ \A p \in Lasting' : /\ p \in Lasting /\ procs'[p].birth = procs[p].birth
                             /\ procs'[p].parent \in {procs[p].parent, 0}
  BY <1>1, <1>2, LastLater
<1>4. \A e \in table : EntryOK(e) => EntryOK(e)'
  <2> SUFFICES ASSUME NEW e \in table, EntryOK(e) PROVE EntryOK(e)'
    OBVIOUS
  <2>1. Known(e[1], procs', births') /\ Known(e[1], procs, births)
    BY <1>2, KnownLater DEF EntryOK
  <2>2. ASSUME e[2] # -1, e[1].birth \in lasting'
        PROVE  e[2] \in {began[e[1].pid].parent, 0} /\ procs'[e[1].pid].parent \in {e[2], 0}
    <3>1. Lasts(e[1]) /\ Lasts(e[1])'
      BY <1>1, <1>3, <2>2 DEF Lasts
    <3>2. e[1].pid \in Lasting'
      <4>1. PICK p \in DOMAIN procs' : procs'[p].birth = e[1].birth
        BY <1>3, <2>2 DEF LastOK
      <4>2. p = e[1].pid
        BY <2>1, <4>1 DEF Known
      <4> QED BY <2>2, <4>1, <4>2 DEF Lasting
    <3> QED BY <1>3, <2>2, <3>1, <3>2 DEF EntryOK, Lasts
  <2> QED BY <1>1, <2>1, <2>2 DEF EntryOK
<1>5. TableOK'
  BY <1>1, <1>3, <1>4 DEF TableOK, InTable
<1>6. ResultOK'
  <2>1. CASE pc = "idle"
    <3>1. Lasts(held)' => Lasts(held) /\ held.pid # 0
      BY <1>1, <1>2, <1>3, LastsThere DEF Lasts, PsInv, ObjectsOK
    <3>2. \A o : Lasts(o)' => o'.birth \in lasting
      BY <1>3 DEF Lasts
    <3>3. ASSUME NEW p \in Lasting', NEW r \in Lasting', procs'[p].parent = r
          PROVE  procs[p].parent = r
      BY <1>2, <1>3, PsutilAssumption, <3>3 DEF Lasting, ProcsOK
    <3>4. Found' = Found
      BY <1>1 DEF Found
    <3> QED BY <1>1, <1>3, <2>1, <3>1, <3>3, <3>4 DEF ResultOK, Lasts
  <2> QED BY <1>1, <2>1 DEF ResultOK
<1> QED BY <1>3, <1>5, <1>6

LEMMA CallCh ==
  ASSUME PsInv, ChInv, CallMethod \/ CallWait \/ CallWaitProcs \/ CallIter
  PROVE  ChInv'
<1>1. /\ UNCHANGED <<procs, births>> /\ began' = procs /\ table' = {} /\ pc' # "idle"
      /\ lasting' = {procs[p].birth : p \in DOMAIN procs} /\ pc' \notin {"visit", "child"}
  BY DEF CallMethod, CallWait, CallWaitProcs, CallIter, Call, SystemSame
<1> QED BY <1>1 DEF ChInv, LastOK, TableOK, ResultOK, Lasting

\* Steps of functions that do not walk, and of the program.
LEMMA OtherCh ==
  ASSUME PsInv, ChInv, UNCHANGED <<procs, lasting, began>>, pc' \notin {"check", "pids", "visit", "child"},
         pc' = "idle" => call' \notin Walks
  PROVE  ChInv'
<1>1. LastOK'
  BY DEF ChInv, LastOK, Lasting
<1> QED BY <1>1 DEF ChInv, TableOK, ResultOK, Walks

LEMMA CheckCh == ASSUME PsInv, ChInv, Check PROVE ChInv'
<1>1. /\ UNCHANGED <<procs, births, lasting, call, began>> /\ pc = "check"
      /\ call \in {"signal", "nice", "children", "descendants"}
  BY DEF Check, Frame, Returns, SystemSame, PsInv, PcOK, Guards
<1>2. LastOK'
  BY <1>1 DEF ChInv, LastOK, Lasting
<1>3. CASE Running(held)
  <2>1. pc' \in {"pids", "act"} /\ table' = table
    BY <1>3 DEF Check
  <2> QED BY <1>1, <1>2, <2>1 DEF ChInv, TableOK, ResultOK
<1>4. CASE ~Running(held)
  <2>1. pc' = "idle" /\ held'.birth = held.birth
    <3>1. held \in Objects
      BY DEF PsInv, ObjectsOK, Known
    <3>2. held' = [held EXCEPT !.gone = held.gone \/ ~There(held.pid)] /\ pc' = "idle"
      BY <1>4 DEF Check, Returns
    <3> QED BY <3>1, <3>2 DEF Objects
  <2>2. ~Lasts(held)
    <3>1. Ended(held, procs)
      BY <1>4, RunningOrEnded DEF PsInv, ObjectsOK
    <3> QED BY <3>1 DEF ChInv, LastOK, Lasts, Ended
  <2>3. ~Lasts(held)'
    BY <1>1, <2>1, <2>2 DEF Lasts
  <2> QED BY <1>1, <1>2, <2>1, <2>3 DEF ChInv, TableOK, ResultOK
<1> QED BY <1>3, <1>4

LEMMA PidsCh == ASSUME PsInv, ChInv, IterPids PROVE ChInv'
<1>1. /\ UNCHANGED <<procs, births, lasting, call, began, table>> /\ pc = "pids" /\ pc' = "visit"
      /\ left' = DOMAIN procs
  BY DEF IterPids, Frame, SystemSame
<1>2. LastOK'
  BY <1>1 DEF ChInv, LastOK, Lasting
<1>3. TableOK' /\ ResultOK'
  BY <1>1 DEF ChInv, TableOK, ResultOK, Lasting, PsInv, ProcsOK
<1> QED BY <1>2, <1>3 DEF ChInv

LEMMA VisitCh == ASSUME PsInv, ChInv, IterVisit PROVE ChInv'
<1> DEFINE f == Following
<1>1. /\ UNCHANGED <<procs, births, lasting, call, began>> /\ pc = "visit" /\ left # {}
      /\ left' = left \ {f} /\ pc' \in {"visit", "child"}
  BY DEF IterVisit, Frame, SystemSame
<1>2. LastOK'
  BY <1>1 DEF ChInv, LastOK, Lasting
<1>3. left \subseteq Pids /\ f \in left
  BY <1>1, FollowingIn DEF ChInv, TableOK
<1>4. Lasting' = Lasting
  BY <1>1 DEF Lasting
<1> HIDE DEF f
<1>5. CASE f \in DOMAIN procs
  <2> PICK n : n = <<Visited(f), -1>>
    OBVIOUS
  <2>1. /\ table' = table \union {n} /\ pc' = (IF call = "process_iter" THEN "visit" ELSE "child")
    BY <1>5 DEF IterVisit, There, f
  <2>2. Known(n[1], procs, births) /\ n[1].pid = f /\ n[1].birth = procs[f].birth
    BY <1>5, VisitedKnown
  <2>3. n[2] = -1
    OBVIOUS
  <2>4. EntryOK(n)'
    BY <1>1, <1>3, <2>1, <2>2, <2>3 DEF EntryOK
  <2>5. \A e \in table : EntryOK(e)'
    BY <1>1, <2>1 DEF ChInv, TableOK, EntryOK
  <2>6. ASSUME NEW p \in Lasting, p \notin left' PROVE InTable(p)'
    <3>1. CASE p = f
      BY <1>1, <2>1, <2>2, <3>1 DEF InTable
    <3>2. CASE p # f
      <4>1. PICK e \in table : e[1].birth = procs[p].birth /\ e[1].pid = p
        BY <1>1, <2>6, <3>2 DEF ChInv, TableOK, InTable
      <4> QED BY <1>1, <2>1, <4>1 DEF InTable
    <3> QED BY <3>1, <3>2
  <2>7. TableOK'
    BY <1>1, <1>3, <1>4, <2>1, <2>4, <2>5, <2>6 DEF TableOK
  <2> QED BY <1>1, <1>2, <2>7 DEF ChInv, ResultOK
<1>6. CASE f \notin DOMAIN procs
  <2>1. table' = table /\ pc' = pc
    BY <1>6 DEF IterVisit, There, f
  <2>2. f \notin Lasting
    BY <1>6 DEF Lasting
  <2>3. TableOK'
    BY <1>1, <1>3, <1>4, <2>1, <2>2 DEF ChInv, TableOK, EntryOK, InTable
  <2> QED BY <1>1, <1>2, <2>3 DEF ChInv, ResultOK
<1> QED BY <1>5, <1>6

LEMMA ChildCh == ASSUME PsInv, ChInv, ChildPpid PROVE ChInv'
<1>1. /\ UNCHANGED <<procs, births, lasting, call, began, left>> /\ pc = "child" /\ pc' = "visit"
      /\ call # "process_iter"
  BY DEF ChildPpid, Frame, SystemSame, PsInv, PcOK, Guards
<1>2. LastOK' /\ Lasting' = Lasting
  BY <1>1 DEF ChInv, LastOK, Lasting
<1>3. table' = UNION {IF e[2] # -1 THEN {e}
                      ELSE IF There(e[1].pid) THEN {<<e[1], procs[e[1].pid].parent>>} ELSE {} :
                      e \in table}
  BY DEF ChildPpid
<1>4. \A e \in table : EntryOK(e)
  BY <1>1 DEF ChInv, TableOK
<1>5. \A e \in table' : EntryOK(e)'
  <2> SUFFICES ASSUME NEW x \in table' PROVE EntryOK(x)'
    OBVIOUS
  <2>1. PICK e \in table : x \in (IF e[2] # -1 THEN {e}
                      ELSE IF There(e[1].pid) THEN {<<e[1], procs[e[1].pid].parent>>} ELSE {})
    BY <1>3
  <2>2. CASE e[2] # -1
    BY <1>1, <1>4, <2>1, <2>2 DEF EntryOK
  <2>3. CASE e[2] = -1
    <3>1. There(e[1].pid) /\ x = <<e[1], procs[e[1].pid].parent>>
      BY <2>1, <2>3
    <3>2. x[1] = e[1] /\ x[2] = procs[e[1].pid].parent
      BY <3>1
    <3>3. x[2] \in Nat
      BY <3>1, <3>2 DEF There, PsInv, ProcsOK, Records
    <3>4. Known(e[1], procs, births) /\ e[1].pid \in Pids
      BY <1>4 DEF EntryOK
    <3>5. e[1].birth \in lasting => e[1].pid \in Lasting
      BY <3>4, LastsThere DEF PsInv, ChInv, Lasts
    <3> QED BY <1>1, <3>2, <3>3, <3>4, <3>5 DEF EntryOK, ChInv, LastOK
  <2> QED BY <2>2, <2>3
<1>6. \A p \in Lasting : p \in left \/ InTable(p)'
  <2> SUFFICES ASSUME NEW p \in Lasting, p \notin left PROVE InTable(p)'
    OBVIOUS
  <2>1. PICK e \in table : e[1].birth = procs[p].birth /\ e[1].pid = p
    BY <1>1 DEF ChInv, TableOK, InTable
  <2>2. p \in DOMAIN procs
    BY DEF Lasting
  <2>3. CASE e[2] # -1
    <3>1. e \in table'
      BY <1>3, <2>3
    <3> QED BY <1>1, <2>1, <3>1 DEF InTable
  <2>4. CASE e[2] = -1
    <3> DEFINE x == <<e[1], procs[e[1].pid].parent>>
    <3>1. x \in table'
      BY <1>3, <2>1, <2>2, <2>4 DEF There
    <3>2. x[1] = e[1]
      OBVIOUS
    <3> QED BY <1>1, <2>1, <3>1, <3>2 DEF InTable
  <2> QED BY <2>3, <2>4
<1>7. TableOK'
  BY <1>1, <1>2, <1>5, <1>6 DEF ChInv, TableOK
<1> QED BY <1>1, <1>2, <1>7 DEF ChInv, ResultOK

-----------------------------------------------------------------------------
(* Psutil: descendants.                                                     *)

\* g is F applied n times to b, at each n of 0..k.
Iterates(g, k, b, F) == g = [n \in 0..k |-> IF n = 0 THEN b ELSE F[g[n - 1]]]

\* A function defined by recursion over 0..k exists.
LEMMA Iterated ==
  ASSUME NEW U, NEW b \in SUBSET U, NEW F \in [SUBSET U -> SUBSET U], NEW k \in Nat
  PROVE  \E g \in [0..k -> SUBSET U] : Iterates(g, k, b, F)
<1> DEFINE Has(m) == \E g \in [0..m -> SUBSET U] : g = [n \in 0..m |-> IF n = 0 THEN b ELSE F[g[n - 1]]]
           T == {m \in Nat : ~Has(m)}
<1> SUFFICES ASSUME T # {} PROVE FALSE
  BY DEF Iterates
<1>1. PICK m \in T : \A i \in T : m <= i
  <2>1. T \subseteq Nat
    OBVIOUS
  <2> HIDE DEF T
  <2> QED BY <2>1, Least
<1>2. m \in Nat /\ ~Has(m)
  BY <1>1
<1>3. m # 0
  <2>1. Has(0)
    <3> DEFINE g == [n \in 0..0 |-> b]
    <3>1. g \in [0..0 -> SUBSET U]
      OBVIOUS
    <3>2. g = [n \in 0..0 |-> IF n = 0 THEN b ELSE F[g[n - 1]]]
      OBVIOUS
    <3> HIDE DEF g
    <3> QED BY <3>1, <3>2
  <2> QED BY <1>2, <2>1
<1>4. m - 1 \in Nat /\ ~(m <= m - 1)
  BY <1>2, <1>3
<1>5. Has(m - 1)
  BY <1>1, <1>4
<1>6. PICK g \in [0..m - 1 -> SUBSET U] :
        g = [n \in 0..m - 1 |-> IF n = 0 THEN b ELSE F[g[n - 1]]]
  BY <1>5
<1> DEFINE h == [n \in 0..m |-> IF n = m THEN F[g[m - 1]] ELSE g[n]]
<1>7. m - 1 \in 0..m - 1 /\ \A n \in 0..m : n # m => n \in 0..m - 1
  BY <1>2, <1>4
<1>8. h \in [0..m -> SUBSET U]
  BY <1>7
<1>9. ASSUME NEW n \in 0..m PROVE h[n] = IF n = 0 THEN b ELSE F[h[n - 1]]
  <2>1. CASE n = m
    <3>1. m - 1 # m /\ m - 1 \in 0..m
      BY <1>2, <1>4
    <3> QED BY <1>3, <2>1, <3>1
  <2>2. CASE n # m /\ n # 0
    <3>1. n - 1 \in 0..m /\ n - 1 # m /\ n \in 0..m - 1
      BY <1>2, <2>2
    <3> QED BY <1>6, <2>2, <3>1
  <2>3. CASE n = 0
    BY <1>3, <1>6, <1>7, <2>3
  <2> QED BY <2>1, <2>2, <2>3
<1>10. h = [n \in 0..m |-> IF n = 0 THEN b ELSE F[h[n - 1]]]
  BY <1>9
<1> HIDE DEF h
<1> QED BY <1>2, <1>8, <1>10

Generation(S) == S \union {o.pid : o \in Offspring(S)}
ClosedUnder(S) == \A o \in Offspring(S) : o.pid \in S

LEMMA NextGeneration ==
  ASSUME \A e \in table : e[1].pid \in Pids, NEW S \in SUBSET Pids
  PROVE  /\ Generation(S) \in SUBSET Pids /\ S \subseteq Generation(S)
         /\ ClosedUnder(S) => Generation(S) = S
         /\ Cardinality(S) \in Nat /\ Cardinality(Generation(S)) \in Nat
         /\ ~ClosedUnder(S) => Cardinality(Generation(S)) > Cardinality(S)
<1>1. \A o \in Offspring(S) : o.pid \in Pids
  BY DEF Offspring
<1>2. Generation(S) \in SUBSET Pids /\ S \subseteq Generation(S)
  BY <1>1 DEF Generation
<1>3. ClosedUnder(S) => Generation(S) = S
  BY DEF Generation, ClosedUnder
<1>4. ~ClosedUnder(S) => Generation(S) # S
  BY DEF Generation, ClosedUnder
<1>5. IsFiniteSet(S) /\ IsFiniteSet(Generation(S))
  BY <1>2, FS_Subset, PsutilAssumption
<1>6. Cardinality(S) \in Nat /\ Cardinality(Generation(S)) \in Nat
  BY <1>5, FS_CardinalityType
<1>7. Generation(S) # S => Cardinality(Generation(S)) > Cardinality(S)
  BY <1>2, <1>5, <1>6, FS_Subset
<1> QED BY <1>2, <1>3, <1>4, <1>6, <1>7

\* The recursion over as many steps as there are pids reaches them all.
LEMMA DescendantsClosed ==
  ASSUME held.pid \in Pids, \A e \in table : e[1].pid \in Pids
  PROVE  held.pid \in DescendantPids /\ ClosedUnder(DescendantPids)
<1> DEFINE K == Cardinality(Pids)
           Rec(g) == g = [n \in 0..K |-> IF n = 0 THEN {held.pid}
                                         ELSE g[n - 1] \union {o.pid : o \in Offspring(g[n - 1])}]
           f == CHOOSE g : Rec(g)
<1>1. K \in Nat /\ IsFiniteSet(Pids)
  BY FS_CardinalityType, PsutilAssumption
<1>2. DescendantPids = f[K]
  BY DEF DescendantPids
<1>3. \E g : Rec(g)
  <2> DEFINE F == [S \in SUBSET Pids |-> Generation(S)]
  <2>1. F \in [SUBSET Pids -> SUBSET Pids] /\ {held.pid} \in SUBSET Pids
    BY NextGeneration
  <2>2. PICK g \in [0..K -> SUBSET Pids] : Iterates(g, K, {held.pid}, F)
    <3> DEFINE b == {held.pid}
    <3>1. b \in SUBSET Pids
      BY <2>1
    <3> HIDE DEF F, K, b
    <3>2. \E g \in [0..K -> SUBSET Pids] : Iterates(g, K, b, F)
      BY <1>1, <2>1, <3>1, Iterated
    <3> QED BY <3>2 DEF b
  <2>3. ASSUME NEW n \in 0..K
        PROVE  g[n] = IF n = 0 THEN {held.pid}
                      ELSE g[n - 1] \union {o.pid : o \in Offspring(g[n - 1])}
    <3>1. CASE n = 0
      BY <2>2, <3>1 DEF Iterates
    <3>2. CASE n # 0
      <4>1. n - 1 \in 0..K
        BY <1>1, <3>2
      <4>2. g[n] = F[g[n - 1]] /\ g[n - 1] \in SUBSET Pids
        BY <2>2, <3>2, <4>1 DEF Iterates
      <4> QED BY <3>2, <4>2 DEF Generation
    <3> QED BY <3>1, <3>2
  <2>4. Rec(g)
    <3>1. DOMAIN g = 0..K /\ g = [n \in DOMAIN g |-> g[n]]
      BY <2>2 DEF Iterates
    <3> QED BY <2>3, <3>1
  <2> QED BY <2>4
<1>4. Rec(f)
  BY <1>3
<1> HIDE DEF f
<1>5. /\ f[0] = {held.pid}
      /\ \A n \in 1..K : f[n] = Generation(f[n - 1])
  <2>1. f[0] = {held.pid}
    BY <1>1, <1>4
  <2>2. ASSUME NEW n \in 1..K PROVE f[n] = Generation(f[n - 1])
    <3>1. n \in 0..K /\ n # 0
      BY <1>1
    <3>2. f[n] = f[n - 1] \union {o.pid : o \in Offspring(f[n - 1])}
      BY <1>4, <3>1
    <3> QED BY <3>2 DEF Generation
  <2> QED BY <2>1, <2>2
<1> HIDE DEF Rec, K
<1> DEFINE Reached(n) == /\ f[n] \in SUBSET Pids /\ held.pid \in f[n]
                         /\ ClosedUnder(f[n]) \/ Cardinality(f[n]) > n
           T == {n \in 0..K : ~Reached(n)}
<1>6. T = {}
  <2> SUFFICES ASSUME T # {} PROVE FALSE
    OBVIOUS
  <2>1. PICK n \in T : \A i \in T : n <= i
    <3>1. T \subseteq Nat
      BY <1>1
    <3> HIDE DEF T
    <3> QED BY <3>1, Least
  <2>2. n \in 0..K /\ ~Reached(n)
    BY <2>1
  <2>3. n # 0
    <3>1. Cardinality({held.pid}) = 1
      BY FS_Singleton
    <3>2. Reached(0)
      BY <1>5, <3>1
    <3> QED BY <2>2, <3>2
  <2>4. n - 1 \in 0..K /\ ~(n <= n - 1) /\ n \in 1..K
    BY <1>1, <2>2, <2>3
  <2>5. Reached(n - 1)
    BY <2>1, <2>4
  <2>6. f[n] = Generation(f[n - 1])
    BY <1>5, <2>4
  <2> DEFINE S == f[n - 1]
  <2>7. S \in SUBSET Pids /\ held.pid \in S /\ (ClosedUnder(S) \/ Cardinality(S) > n - 1)
    BY <2>5
  <2> HIDE DEF S
  <2>8. /\ Generation(S) \in SUBSET Pids /\ S \subseteq Generation(S)
        /\ ClosedUnder(S) => Generation(S) = S
        /\ Cardinality(S) \in Nat /\ Cardinality(Generation(S)) \in Nat
        /\ ~ClosedUnder(S) => Cardinality(Generation(S)) > Cardinality(S)
    BY <2>7, NextGeneration
  <2>9. f[n] = Generation(S)
    BY <2>6 DEF S
  <2>10. ClosedUnder(f[n]) \/ Cardinality(f[n]) > n
    <3>1. CASE ClosedUnder(S)
      BY <2>8, <2>9, <3>1
    <3>2. CASE ~ClosedUnder(S)
      <4>1. n \in Nat /\ Cardinality(S) > n - 1 /\ Cardinality(Generation(S)) > Cardinality(S)
        BY <2>2, <2>7, <2>8, <3>2
      <4>2. Cardinality(Generation(S)) > n
        BY <2>8, <4>1
      <4> QED BY <2>9, <4>2
    <3> QED BY <3>1, <3>2
  <2> QED BY <2>2, <2>7, <2>8, <2>9, <2>10
<1>7. Reached(K)
  BY <1>1, <1>6
<1>8. ~(Cardinality(f[K]) > K)
  <2>1. f[K] \subseteq Pids
    BY <1>7
  <2>2. Cardinality(f[K]) <= Cardinality(Pids) /\ Cardinality(f[K]) \in Nat
    BY <1>1, <2>1, FS_Subset, FS_CardinalityType
  <2> QED BY <1>1, <2>2 DEF K
<1> QED BY <1>2, <1>7, <1>8

\* The children that last of what the walk asks about are found.
LEMMA ChildEntry ==
  ASSUME PsInv, ChInv, pc = "visit", left = {}, call # "process_iter",
         NEW p \in Lasting, procs[p].parent # 0
  PROVE  \E e \in table : e[1].birth = procs[p].birth /\ e[1].pid = p /\ e[2] = procs[p].parent
<1>1. PICK e \in table : e[1].birth = procs[p].birth /\ e[1].pid = p
  BY DEF ChInv, TableOK, InTable
<1>2. EntryOK(e) /\ procs[p].birth \in lasting
  BY DEF ChInv, TableOK, Lasting
<1> QED BY <1>1, <1>2 DEF EntryOK

LEMMA EndsCh == ASSUME PsInv, ChInv, IterEnds PROVE ChInv'
<1>1. /\ UNCHANGED <<procs, births, lasting, call, began, held>> /\ pc = "visit" /\ left = {}
      /\ pc' = "idle" /\ table' = {} /\ call \in Walks
      /\ result' = (CASE call = "process_iter" -> {e[1] : e \in table}
                     [] call = "children" -> Offspring({held.pid})
                     [] call = "descendants" -> Offspring(DescendantPids))
  BY DEF IterEnds, Returns, SystemSame, PsInv, PcOK, Guards, Walks
<1>2. LastOK' /\ Lasting' = Lasting
  BY <1>1 DEF ChInv, LastOK, Lasting
<1>3. TableOK'
  BY <1>1 DEF TableOK
<1>4. \A o : o \in result' => o.birth \in Found'
  BY DEF Found
<1>5. \A e \in table : EntryOK(e)
  BY <1>1 DEF ChInv, TableOK
<1>6. Lasts(held) => /\ held.pid \in Lasting /\ procs[held.pid].birth = held.birth
                     /\ held.pid \in Pids /\ held.pid # 0
  BY LastsThere DEF PsInv, ChInv, ObjectsOK
<1>7. CASE call = "process_iter"
  <2>1. \A p \in Lasting : procs[p].birth \in Found'
    <3> SUFFICES ASSUME NEW p \in Lasting PROVE procs[p].birth \in Found'
      OBVIOUS
    <3>1. PICK e \in table : e[1].birth = procs[p].birth
      BY <1>1 DEF ChInv, TableOK, InTable
    <3>2. e[1] \in result'
      BY <1>1, <1>7
    <3> QED BY <1>4, <3>1, <3>2
  <2> QED BY <1>1, <1>2, <1>3, <1>7, <2>1 DEF ChInv, ResultOK
<1>8. \A p \in Lasting : procs[p].parent # 0 =>
        /\ procs[p].parent \in DOMAIN procs
        /\ procs[p].birth \in Nat /\ procs[procs[p].parent].birth \in Nat
        /\ procs[procs[p].parent].birth < procs[p].birth
  BY DEF PsInv, ProcsOK, Records, Lasting
<1>9. CASE call = "children" /\ Lasts(held)
  <2>1. result' = Offspring({held.pid})
    BY <1>1, <1>9
  <2>2. ASSUME NEW p \in Lasting, procs[p].parent = held.pid PROVE procs[p].birth \in Found'
    <3>1. PICK e \in table : e[1].birth = procs[p].birth /\ e[1].pid = p /\ e[2] = procs[p].parent
      BY <1>1, <1>6, <1>9, <2>2, ChildEntry
    <3>2. held.birth <= e[1].birth
      BY <1>6, <1>8, <1>9, <2>2, <3>1
    <3>3. e[1] \in result'
      BY <2>1, <2>2, <3>1, <3>2 DEF Offspring
    <3> QED BY <1>4, <3>1, <3>3
  <2>3. ASSUME NEW o \in result', Lasts(o) PROVE began[o.pid].parent = held.pid
    <3>1. PICK e \in table : e[1] = o /\ e[2] = held.pid
      BY <2>1 DEF Offspring
    <3>2. held.pid \in Nat /\ held.pid # 0
      BY <1>6, <1>9, PsutilAssumption
    <3> QED BY <1>5, <2>3, <3>1, <3>2 DEF EntryOK, Lasts
  <2>4. Lasts(held)' <=> Lasts(held)
    BY <1>1 DEF Lasts
  <2>5. \A o \in result' : Lasts(o)' => began[o.pid].parent = held.pid
    BY <1>1, <2>3 DEF Lasts
  <2>6. ResultOK'
    BY <1>1, <1>2, <1>9, <2>2, <2>5 DEF ResultOK, Lasts
  <2> QED BY <1>2, <1>3, <2>6 DEF ChInv
<1>10. CASE call = "descendants" /\ Lasts(held)
  <2> DEFINE D == DescendantPids
  <2>1. result' = Offspring(D)
    BY <1>1, <1>10
  <2>2. held.pid \in D /\ ClosedUnder(D)
    BY <1>5, <1>6, <1>10, DescendantsClosed DEF EntryOK
  <2> HIDE DEF D
  <2>3. ASSUME NEW p \in Lasting, procs[p].parent # 0, procs[p].parent \in D,
               held.birth <= procs[procs[p].parent].birth
        PROVE  procs[p].birth \in Found'
    <3>1. PICK e \in table : e[1].birth = procs[p].birth /\ e[1].pid = p /\ e[2] = procs[p].parent
      BY <1>1, <1>10, <2>3, ChildEntry
    <3>2. held.birth <= e[1].birth
      <4>1. held.birth \in Nat
        BY DEF PsInv, ObjectsOK, Known, Objects
      <4> QED BY <1>8, <2>3, <3>1, <4>1
    <3>3. e[1] \in result'
      BY <2>1, <2>3, <3>1, <3>2 DEF Offspring
    <3> QED BY <1>4, <3>1, <3>3
  <2>4. ASSUME NEW p \in Lasting, procs[p].parent = held.pid PROVE procs[p].birth \in Found'
    <3>1. held.birth \in Nat
      BY DEF PsInv, ObjectsOK, Known, Objects
    <3> QED BY <1>6, <1>10, <2>2, <2>3, <2>4, <3>1
  <2>5. ASSUME NEW p \in Lasting, NEW r \in Lasting, procs[p].parent = r, procs[r].birth \in Found'
        PROVE  procs[p].birth \in Found'
    <3>1. PICK o \in Offspring(D) : o.birth = procs[r].birth
      BY <2>1, <2>5 DEF Found
    <3>2. PICK e \in table : e[1] = o /\ held.birth <= o.birth
      BY DEF Offspring
    <3>3. r = o.pid /\ r # 0
      BY <1>5, <3>1, <3>2, PsutilAssumption DEF EntryOK, Known, Lasting, PsInv, ProcsOK
    <3>4. r \in D
      BY <2>2, <3>1, <3>3 DEF ClosedUnder
    <3> QED BY <2>3, <2>5, <3>1, <3>2, <3>3, <3>4
  <2>6. ResultOK'
    BY <1>1, <1>2, <1>10, <2>4, <2>5 DEF ResultOK
  <2> QED BY <1>2, <1>3, <2>6 DEF ChInv
<1>11. CASE call \in {"children", "descendants"} /\ ~Lasts(held)
  <2>1. ~Lasts(held)'
    BY <1>1, <1>11 DEF Lasts
  <2> QED BY <1>1, <1>2, <1>3, <1>11, <2>1 DEF ChInv, ResultOK
<1> QED BY <1>1, <1>7, <1>9, <1>10, <1>11 DEF Walks

LEMMA InitCh == PsutilInit => ChInv
<1> SUFFICES ASSUME PsutilInit PROVE ChInv
  OBVIOUS
<1>1. /\ procs = [p \in {OwnPid} |-> [birth |-> 1, parent |-> 0, zombie |-> FALSE]]
      /\ began = procs /\ lasting = {1} /\ pc = "idle" /\ call = "none"
  BY DEF PsutilInit
<1>2. DOMAIN procs = {OwnPid} /\ procs[OwnPid].birth = 1
  BY <1>1
<1> QED BY <1>1, <1>2 DEF ChInv, LastOK, Lasting, TableOK, ResultOK

LEMMA ReapCh == ASSUME PsInv, ChInv, Reap PROVE ChInv'
<1>1. /\ began' = began /\ call' = call /\ call \in Waits /\ pc' \in {"idle", "choose"}
  BY DEF Reap, Returns, PsInv, PcOK, Guards, Waits
<1>2. LastOK'
  BY <1>1, SystemAges, LastLater DEF PsInv, ChInv
<1> QED BY <1>1, <1>2 DEF ChInv, TableOK, ResultOK, Waits

LEMMA NextCh == PsInv /\ ChInv /\ [PsutilNext]_psutilVars => ChInv'
<1> SUFFICES ASSUME PsInv, ChInv, [PsutilNext]_psutilVars PROVE ChInv'
  OBVIOUS
<1>1. ASSUME NEW p \in Pids, NewProcess(p) PROVE ChInv'
  <2>1. UNCHANGED <<procs, lasting, began>> /\ pc' = "idle" /\ call' = "none"
    BY <1>1 DEF NewProcess, SystemSame
  <2> QED BY <2>1, OtherCh DEF Walks
<1>2. CASE Act \/ ParentPpid \/ ParentCreate
  <2>1. /\ UNCHANGED <<procs, lasting, began, call>> /\ pc' \in {"create", "idle"}
        /\ call \notin Walks
    BY <1>2 DEF Act, ParentPpid, ParentCreate, Returns, Frame, SystemSame, PsInv, PcOK, Guards, Walks
  <2> QED BY <2>1, OtherCh
<1>3. CASE WaitPid \/ WaitExists \/ WaitTimeout \/ WaitChoose \/ WaitRecheck \/ WaitProcsEnds
  <2>1. /\ UNCHANGED <<procs, lasting, began, call>> /\ call \notin Walks
        /\ pc' \notin {"check", "pids", "visit", "child"}
    BY <1>3 DEF WaitPid, WaitExists, WaitTimeout, WaitChoose, WaitRecheck, WaitProcsEnds, WaitedFor,
               Returns, Frame, SystemSame, PsInv, PcOK, Guards, Walks
  <2> QED BY <2>1, OtherCh
<1>4. CASE Function
  BY <1>2, <1>3, <1>4, CheckCh, PidsCh, VisitCh, ChildCh, EndsCh, ReapCh DEF Function
<1> QED BY <1>1, <1>4, SystemCh, CallCh DEF PsutilNext

\* The walks' invariant holds.
LEMMA AlwaysCh == PsutilSpec => [](PsInv /\ ChInv)
<1>1. PsutilInit => PsInv /\ ChInv
  BY InitPs, InitCh
<1>2. PsInv /\ ChInv /\ [PsutilNext]_psutilVars => (PsInv /\ ChInv)'
  BY NextPs, NextCh
<1> QED BY <1>1, <1>2, PTL DEF PsutilSpec

\* All that descend from p along processes that last are among those found.
LEMMA DescendantsFound ==
  ASSUME PsInv, NEW p \in Pids,
         \A q \in Lasting : procs[q].parent = p => procs[q].birth \in Found,
         \A q, r \in Lasting : procs[q].parent = r /\ procs[r].birth \in Found
                                 => procs[q].birth \in Found
  PROVE  BirthsOf(DescendantsOf(p)) \subseteq Found
<1> DEFINE K == Cardinality(Pids)
           Rec(g) == g = [n \in 0..K |-> IF n = 0 THEN {q \in Lasting : procs[q].parent = p}
                            ELSE g[n - 1] \union {q \in Lasting : procs[q].parent \in g[n - 1]}]
           f == CHOOSE g : Rec(g)
           Good == {q \in Lasting : procs[q].birth \in Found}
<1>1. K \in Nat /\ IsFiniteSet(Pids)
  BY FS_CardinalityType, PsutilAssumption
<1>2. DescendantsOf(p) = f[K]
  BY DEF DescendantsOf
<1>3. \E g : Rec(g)
  <2> DEFINE U == Lasting
             F == [S \in SUBSET U |-> S \union {q \in Lasting : procs[q].parent \in S}]
             b == {q \in Lasting : procs[q].parent = p}
  <2>1. F \in [SUBSET U -> SUBSET U] /\ b \in SUBSET U
    OBVIOUS
  <2>2. PICK g \in [0..K -> SUBSET U] : Iterates(g, K, b, F)
    <3> HIDE DEF F, K, U, b
    <3> QED BY <1>1, <2>1, Iterated
  <2>3. ASSUME NEW n \in 0..K
        PROVE  g[n] = IF n = 0 THEN {q \in Lasting : procs[q].parent = p}
                      ELSE g[n - 1] \union {q \in Lasting : procs[q].parent \in g[n - 1]}
    <3>1. CASE n = 0
      BY <2>2, <3>1 DEF Iterates
    <3>2. CASE n # 0
      <4>1. n - 1 \in 0..K
        BY <1>1, <3>2
      <4>2. g[n] = F[g[n - 1]] /\ g[n - 1] \in SUBSET U
        BY <2>2, <3>2, <4>1 DEF Iterates
      <4> QED BY <3>2, <4>2
    <3> QED BY <3>1, <3>2
  <2>4. Rec(g)
    <3>1. DOMAIN g = 0..K /\ g = [n \in DOMAIN g |-> g[n]]
      BY <2>2 DEF Iterates
    <3> QED BY <2>3, <3>1
  <2> QED BY <2>4
<1>4. Rec(f)
  BY <1>3
<1> HIDE DEF f
<1>5. /\ f[0] = {q \in Lasting : procs[q].parent = p}
      /\ \A n \in 1..K : f[n] = f[n - 1] \union {q \in Lasting : procs[q].parent \in f[n - 1]}
  BY <1>1, <1>4
<1> HIDE DEF Rec, K
<1> DEFINE T == {n \in 0..K : ~(f[n] \subseteq Good)}
<1>6. T = {}
  <2> SUFFICES ASSUME T # {} PROVE FALSE
    OBVIOUS
  <2>1. PICK n \in T : \A i \in T : n <= i
    <3>1. T \subseteq Nat
      BY <1>1
    <3> HIDE DEF T
    <3> QED BY <3>1, Least
  <2>2. n \in 0..K /\ ~(f[n] \subseteq Good)
    BY <2>1
  <2>3. n # 0
    BY <1>5, <2>2
  <2>4. n - 1 \in 0..K /\ ~(n <= n - 1) /\ n \in 1..K
    BY <1>1, <2>2, <2>3
  <2>5. f[n - 1] \subseteq Good
    BY <2>1, <2>4
  <2>6. f[n] = f[n - 1] \union {q \in Lasting : procs[q].parent \in f[n - 1]}
    BY <1>5, <2>4
  <2>7. \A q \in Lasting : procs[q].parent \in Good => q \in Good
    OBVIOUS
  <2> QED BY <2>2, <2>5, <2>6, <2>7
<1>7. f[K] \subseteq Good
  BY <1>1, <1>6
<1> QED BY <1>2, <1>7 DEF BirthsOf

\* The three walks, once they have returned.
LEMMA ChildrenAreTrue == PsInv /\ ChInv => ChildrenTrue
<1> SUFFICES ASSUME PsInv, ChInv PROVE ChildrenTrue
  OBVIOUS
<1>1. Returned({"process_iter"}) => BirthsOf(Lasting) \subseteq Found
  BY DEF Returned, BirthsOf, ChInv, ResultOK
<1>2. Returned({"children"}) /\ Lasts(held) =>
        /\ BirthsOf({p \in Lasting : procs[p].parent = held.pid}) \subseteq Found
        /\ \A o \in result : Lasts(o) => began[o.pid].parent = held.pid
  BY DEF Returned, BirthsOf, ChInv, ResultOK
<1>3. ASSUME Returned({"descendants"}), Lasts(held)
      PROVE  BirthsOf(DescendantsOf(held.pid)) \subseteq Found
  <2>1. held.pid \in Pids
    BY <1>3, LastsThere DEF PsInv, ChInv, ObjectsOK
  <2>2. /\ \A q \in Lasting : procs[q].parent = held.pid => procs[q].birth \in Found
        /\ \A q, r \in Lasting : procs[q].parent = r /\ procs[r].birth \in Found
                                   => procs[q].birth \in Found
    BY <1>3 DEF Returned, ChInv, ResultOK
  <2> QED BY <2>1, <2>2, DescendantsFound
<1> QED BY <1>1, <1>2, <1>3 DEF ChildrenTrue, Found

\* children() and process_iter() miss none that lasts through the call, whatever forks,
\* ends and pids used again there are meanwhile; a child that lasts is one.
THEOREM ChildrenHold == PsutilSpec => []ChildrenTrue
BY AlwaysCh, ChildrenAreTrue, PTL

-----------------------------------------------------------------------------
(* ProcFs: what a function has still to look at.                            *)

Sockets == Inet \union Unix
Things == {"task"} \union OpenThings
SocketsKept == {e \in kept : e[1] = Subject /\ e[3] \in Sockets}

\* What the descriptors are open on, and what was there at some time or all the time.
OpenOK ==
  /\ DOMAIN leader \subseteq Ids
  /\ \A p \in DOMAIN leader : Runs(p) =>
       p \in DOMAIN open /\ \A f \in DOMAIN open[p] : open[p][f] \in OpenThings
HistoryOK == Present \subseteq seen /\ kept \subseteq Present

\* Which function is where.
PlaceOK ==
  /\ procPc \in {"open", "read"} => method \in FileMethods
  /\ procPc \in {"syscall", "cpus"} => method \in Getters \union Setters /\ arg \in SetArgs(method)
  /\ procPc \in {"readlink", "lexists"} => method \in {"exe", "cwd"}
  /\ procPc = "listdir" => method \in {"threads", "open_files", "num_fds", "connections"}
  /\ procPc \in {"threads", "thread"} => method = "threads"
  /\ procPc \in {"open_files", "file"} => method = "open_files"
  /\ procPc \in {"connections", "stat"} => method = "connections"
  /\ procPc \in {"pids", "each", "fds"} => method = "net_connections"
  /\ procPc \in {"inet", "unix"} => method \in {"connections", "net_connections"}
  /\ procPc \in {"kill", "tgid", "listed"} => method = "pid_exists"
  /\ procPc = "cpus" => arg = "bad"

\* Returned is what was there; a thread or a descriptor that stays is in what is returned
\* or still to come.
FoundOK == method # "num_fds" => \A r \in ret : r \in seen \/ r[1] = 0
ThreadsOK ==
  /\ procPc \in {"threads", "thread"} =>
       /\ entries \subseteq Nat
       /\ \A e \in kept : e[1] = Subject /\ e[3] = "task" =>
            e \in ret \/ e[2] \in entries \/ (procPc = "thread" /\ current = e[2])
  /\ procPc = "thread" => <<Subject, current, "task">> \in seen
FilesOK ==
  procPc \in {"open_files", "file"} =>
    \A e \in kept : e[1] = Subject /\ e[3] = "file" =>
      e \in ret \/ e[2] \in entries \/ (procPc = "file" /\ current = e[2])

\* A socket is of one process only; those that stay are found or still to come.
InodesOK ==
  /\ \A i \in inodes \union found : i \in seen /\ i = <<i[1], i[2], i[3]>>
  /\ \A i, j \in inodes : i[3] = j[3] => i[1] = j[1]
  /\ procPc = "fds" => \A j \in found : j[1] = current
  /\ procPc = "listdir" => inodes = {}
  /\ procPc = "connections" => \A i \in inodes : i[1] = Subject
SocketsOK ==
  /\ procPc = "connections" => \A e \in SocketsKept : e \in inodes \/ e[2] \in entries
  /\ procPc \in {"inet", "unix"} /\ method = "connections" => SocketsKept \subseteq inodes
  /\ procPc = "unix" => \A e \in kept : e[3] \in Inet /\ e[3] \in Tables(arg) =>
       /\ method = "connections" /\ e[1] = Subject => e \in ret
       /\ method = "net_connections" => \E r \in ret : r[3] = e[3]
  /\ procPc = "stat" => \A e \in kept : e[1] = Subject /\ e[3] \in Tables(arg) => e \in ret

ProcInv ==
  /\ OpenOK /\ HistoryOK /\ PlaceOK /\ FoundOK /\ ThreadsOK /\ FilesOK /\ InodesOK /\ SocketsOK
  /\ procPc # "done" => raised = ""
  /\ AnswersTrue

-----------------------------------------------------------------------------
(* ProcFs: what is there.                                                   *)

LEMMA TaskPresent ==
  ASSUME NEW t \in DOMAIN leader PROVE <<leader[t], t, "task">> \in Present
BY DEF Present

LEMMA FdPresent ==
  ASSUME NEW p, NEW f \in FdsOf(p) PROVE p \in Processes /\ <<p, f, open[p][f]>> \in Present
<1>1. p \in Processes
  BY DEF FdsOf, Runs, Exists
<1> QED BY <1>1 DEF Present

LEMMA PresentIs ==
  ASSUME OpenOK, NEW e \in Present
  PROVE  /\ e = <<e[1], e[2], e[3]>>
         /\ e[3] = "task" => e[2] \in DOMAIN leader /\ leader[e[2]] = e[1]
         /\ e[3] # "task" => /\ e[1] \in Processes /\ e[2] \in FdsOf(e[1])
                             /\ e[3] = open[e[1]][e[2]] /\ e[3] \in OpenThings
<1>1. CASE e \in {<<leader[t], t, "task">> : t \in DOMAIN leader}
  BY <1>1
<1>2. ASSUME NEW p \in Processes, e \in {<<p, f, open[p][f]>> : f \in FdsOf(p)}
      PROVE  /\ e = <<e[1], e[2], e[3]>> /\ e[3] # "task" /\ e[1] \in Processes
             /\ e[2] \in FdsOf(e[1]) /\ e[3] = open[e[1]][e[2]] /\ e[3] \in OpenThings
  <2>1. PICK f \in FdsOf(p) : e = <<p, f, open[p][f]>>
    BY <1>2
  <2>2. open[p][f] \in OpenThings
    BY DEF OpenOK, FdsOf, Processes
  <2>3. e[1] = p /\ e[2] = f /\ e[3] = open[p][f]
    BY <2>1
  <2>4. e[3] # "task"
    BY <2>2, <2>3 DEF OpenThings, Inet, Unix
  <2> QED BY <2>1, <2>2, <2>3, <2>4
<1> QED BY <1>1, <1>2 DEF Present

\* The system's steps keep descriptors on what they can be open on.
LEMMA OpenLater ==
  ASSUME OpenOK, DOMAIN leader' \subseteq Ids,
         \A q \in DOMAIN leader' : Runs(q)' =>
           \/ q \in DOMAIN leader /\ Runs(q) /\ (q \in DOMAIN open => q \in DOMAIN open' /\ open'[q] = open[q])
           \/ q \in DOMAIN open' /\ \A f \in DOMAIN open'[q] : open'[q][f] \in OpenThings
  PROVE  OpenOK'
<1> SUFFICES ASSUME NEW q \in DOMAIN leader', Runs(q)'
             PROVE  q \in DOMAIN open' /\ \A f \in DOMAIN open'[q] : open'[q][f] \in OpenThings
  BY DEF OpenOK
<1>1. CASE q \in DOMAIN leader /\ Runs(q) /\ (q \in DOMAIN open => q \in DOMAIN open' /\ open'[q] = open[q])
  BY <1>1 DEF OpenOK
<1> QED BY <1>1

LEMMA SystemOpen ==
  ASSUME OpenOK, Happens PROVE OpenOK'
<1> USE DEF Runs, Exists, Processes
<1>1. ASSUME NEW p \in Processes, ProcessExit(p) PROVE OpenOK'
  <2>1. DOMAIN leader' \subseteq DOMAIN leader /\ \A t \in DOMAIN leader' : leader'[t] = leader[t]
    BY <1>1 DEF ProcessExit, Less
  <2>2. zombies \subseteq zombies' /\ (p \in DOMAIN leader' => p \in zombies')
    BY <1>1 DEF ProcessExit, Less, TasksOf
  <2>3. \A q \in DOMAIN open : q # p => q \in DOMAIN open' /\ open'[q] = open[q]
    BY <1>1 DEF ProcessExit, Less
  <2> QED BY <2>1, <2>2, <2>3, OpenLater DEF OpenOK
<1>2. ASSUME NEW p \in Processes, ReapLater(p) PROVE OpenOK'
  <2>1. DOMAIN leader' = DOMAIN leader \ {p} /\ \A t \in DOMAIN leader' : leader'[t] = leader[t]
    BY <1>2 DEF ReapLater, Less
  <2>2. zombies' = zombies \ {p} /\ open' = open
    BY <1>2 DEF ReapLater
  <2> QED BY <2>1, <2>2, OpenLater DEF OpenOK
<1>3. ASSUME NEW p \in Processes, NEW t \in Ids, NewTask(p, t) PROVE OpenOK'
  <2>1. Runs(p) /\ t \notin DOMAIN leader /\ zombies' = zombies
    BY <1>3 DEF NewTask
  <2>2. CASE leader' = Plus(leader, t, p) /\ UNCHANGED open
    <3>1. /\ DOMAIN leader' = DOMAIN leader \union {t} /\ leader'[t] = p
          /\ \A q \in DOMAIN leader : leader'[q] = leader[q]
      BY <2>1, <2>2 DEF Plus
    <3> QED BY <2>1, <2>2, <3>1, OpenLater DEF OpenOK
  <2>3. CASE leader' = Plus(leader, t, t) /\ open' = Plus(open, t, open[p])
    <3>1. /\ DOMAIN leader' = DOMAIN leader \union {t}
          /\ \A q \in DOMAIN leader : leader'[q] = leader[q]
      BY <2>1, <2>3 DEF Plus
    <3>2. /\ t \in DOMAIN open' /\ open'[t] = open[p]
          /\ \A q \in DOMAIN open : q # t => q \in DOMAIN open' /\ open'[q] = open[q]
      BY <2>3 DEF Plus
    <3>3. \A f \in DOMAIN open[p] : open[p][f] \in OpenThings
      BY <2>1 DEF OpenOK
    <3> QED BY <2>1, <3>1, <3>2, <3>3, OpenLater DEF OpenOK
  <2> QED BY <1>3, <2>2, <2>3 DEF NewTask
<1>4. ASSUME NEW t \in DOMAIN leader, TaskEnds(t) PROVE OpenOK'
  <2>1. /\ DOMAIN leader' \subseteq DOMAIN leader /\ \A q \in DOMAIN leader' : leader'[q] = leader[q]
        /\ zombies' = zombies /\ open' = open
    BY <1>4 DEF TaskEnds, Less
  <2> QED BY <2>1, OpenLater DEF OpenOK
<1>5. ASSUME NEW p \in Processes, NEW f \in Fds, CloseFd(p, f) PROVE OpenOK'
  <2>1. leader' = leader /\ zombies' = zombies /\ Runs(p) /\ p \in DOMAIN open
    BY <1>5 DEF CloseFd, OpenOK
  <2>2. /\ DOMAIN open' = DOMAIN open /\ \A q \in DOMAIN open : q # p => open'[q] = open[q]
        /\ open'[p] = Less(open[p], {f})
    BY <1>5, <2>1 DEF CloseFd
  <2>3. \A g \in DOMAIN open'[p] : open'[p][g] \in OpenThings
    BY <2>1, <2>2 DEF Less, OpenOK
  <2> QED BY <2>1, <2>2, <2>3, OpenLater DEF OpenOK
<1>6. ASSUME NEW p \in Processes, NEW f \in Fds, NEW x \in OpenThings, OpenFd(p, f, x) PROVE OpenOK'
  <2>1. leader' = leader /\ zombies' = zombies /\ Runs(p) /\ p \in DOMAIN open
    BY <1>6 DEF OpenFd, OpenOK
  <2>2. /\ DOMAIN open' = DOMAIN open /\ \A q \in DOMAIN open : q # p => open'[q] = open[q]
        /\ open'[p] = Plus(open[p], f, x)
    BY <1>6, <2>1 DEF OpenFd
  <2>3. \A g \in DOMAIN open'[p] : open'[p][g] \in OpenThings
    BY <2>1, <2>2 DEF Plus, OpenOK
  <2> QED BY <2>1, <2>2, <2>3, OpenLater DEF OpenOK
<1> QED BY <1>1, <1>2, <1>3, <1>4, <1>5, <1>6 DEF Happens

LEMMA HappensProc ==
  ASSUME ProcInv, Happens PROVE ProcInv'
<1>1. OpenOK'
  BY SystemOpen, Zenon DEF ProcInv
<1>2. /\ HistoryOK' /\ seen \subseteq seen' /\ kept' \subseteq kept
  BY DEF Happens, HistoryOK
<1>3. procPc' # "done" /\ raised' = raised
      /\ UNCHANGED <<method, arg, procPc, entries, current, found, inodes, ret>>
  BY DEF Happens
<1>4. PlaceOK' /\ FoundOK' /\ (procPc' # "done" => raised' = "")
  BY <1>2, <1>3 DEF ProcInv, PlaceOK, FoundOK
<1>5. ThreadsOK' /\ FilesOK'
  BY <1>2, <1>3 DEF ProcInv, ThreadsOK, FilesOK
<1>6. InodesOK'
  BY <1>2, <1>3 DEF ProcInv, InodesOK
<1>7. SocketsOK'
  <2>1. SocketsKept' \subseteq SocketsKept /\ Tables(arg)' = Tables(arg)
    BY <1>2, <1>3 DEF SocketsKept, Tables
  <2> QED BY <1>2, <1>3, <2>1 DEF ProcInv, SocketsOK
<1>8. AnswersTrue'
  BY <1>3 DEF AnswersTrue
<1> QED BY <1>1, <1>2, <1>3, <1>4, <1>5, <1>6, <1>7, <1>8 DEF ProcInv

-----------------------------------------------------------------------------
(* ProcFs: the functions.                                                   *)

Simple == FileMethods \union Getters \union Setters \union {"exe", "cwd"}

LEMMA SimpleMethods ==
  ASSUME method \in Simple
  PROVE  method \notin {"threads", "open_files", "num_fds", "connections", "net_connections", "pid_exists"}
BY DEF Simple, FileMethods, StatFiles, MemoryFiles, CounterFiles, IdFiles, OtherFiles, Getters, Setters

\* What a function that leaves the system alone does not change.
LEMMA StillThere ==
  ASSUME OpenOK, HistoryOK, Still
  PROVE  /\ OpenOK' /\ HistoryOK' /\ Present' = Present /\ AskedFor' = AskedFor
         /\ Exists(Subject)' = Exists(Subject) /\ Runs(Subject)' = Runs(Subject)
         /\ SocketsKept' = SocketsKept /\ Tables(arg)' = Tables(arg)
         /\ UNCHANGED <<leader, zombies, open, allowed, seen, kept, method, arg>>
<1>1. UNCHANGED <<leader, zombies, open, allowed, seen, kept, method, arg>>
  BY DEF Still, system
<1>2. Present' = Present
  BY <1>1 DEF Present, FdsOf, Runs, Exists, Processes
<1>3. Exists(Subject)' = Exists(Subject) /\ Runs(Subject)' = Runs(Subject)
  BY <1>1 DEF Runs, Exists, Processes
<1>4. OpenOK'
  BY <1>1 DEF OpenOK, Runs, Exists, Processes
<1>5. SocketsKept' = SocketsKept /\ Tables(arg)' = Tables(arg)
  BY <1>1 DEF SocketsKept, Tables
<1>6. AskedFor' = AskedFor
  BY <1>1, <1>5 DEF AskedFor, AskedId
<1> QED BY <1>1, <1>2, <1>3, <1>4, <1>5, <1>6 DEF HistoryOK

\* Once it has returned or raised there is only its answer.
LEMMA FunctionEnds ==
  ASSUME ProcInv, Still, procPc' = "done", inodes' = inodes, found' = found,
         FoundOK', ReturnsTrue', RaisesTrue'
  PROVE  ProcInv'
<1>1. OpenOK' /\ HistoryOK' /\ seen' = seen
  BY StillThere, Zenon DEF ProcInv
<1>2. PlaceOK' /\ ThreadsOK' /\ FilesOK' /\ SocketsOK'
  BY DEF PlaceOK, ThreadsOK, FilesOK, SocketsOK
<1>3. InodesOK'
  BY <1>1 DEF ProcInv, InodesOK
<1> QED BY <1>1, <1>2, <1>3 DEF ProcInv, AnswersTrue

LEMMA FunctionReturns ==
  ASSUME ProcInv, Still, NEW r, Gives(r), procPc # "done", inodes' = inodes, found' = found,
         method # "num_fds" => \A x \in r : x \in seen \/ x[1] = 0,
         AskedFor \subseteq r,
         method = "num_fds" => {e[2] : e \in {x \in kept : x[1] = Subject /\ x[3] # "task"}}
                                 \subseteq {e[2] : e \in r},
         method = "net_connections" =>
           \A e \in kept : e[3] \in Tables(arg) => \E x \in r : x[3] = e[3]
  PROVE  ProcInv'
<1>1. /\ AskedFor' = AskedFor /\ Tables(arg)' = Tables(arg)
      /\ UNCHANGED <<seen, kept, method, arg>>
  BY StillThere, Zenon DEF ProcInv
<1>2. procPc' = "done" /\ ret' = r /\ raised' = ""
  BY DEF Gives, ProcInv
<1>3. FoundOK'
  BY <1>1, <1>2 DEF FoundOK
<1>4. ReturnsTrue'
  BY <1>1, <1>2 DEF ReturnsTrue
<1>5. RaisesTrue'
  BY <1>2 DEF RaisesTrue
<1> QED BY <1>2, <1>3, <1>4, <1>5, FunctionEnds

LEMMA FunctionReturnsNothing ==
  ASSUME ProcInv, Still, Gives({}), procPc # "done", inodes' = inodes, found' = found,
         method \in Simple
  PROVE  ProcInv'
<1>1. AskedFor = {}
  BY SimpleMethods DEF AskedFor
<1> QED BY <1>1, SimpleMethods, FunctionReturns

LEMMA FunctionRaises ==
  ASSUME ProcInv, Still, NEW e, Throws(e), e # "", inodes' = inodes, found' = found,
         e = "NoSuchProcess" =>
           \/ ~Runs(Subject)
           \/ method = "threads" /\ \E x \in seen \ Present : x[1] = Subject /\ x[3] = "task",
         e = "AccessDenied" =>
           \/ ~allowed \/ arg = "not permitted"
           \/ \E x \in seen : x[1] = Subject /\ x[3] = "hidden",
         e = "ValueError" =>
           \/ arg = "bad"
           \/ \E x, g \in seen : x[1] = g[1] /\ x[2] # g[2] /\ x[3] = g[3] /\ x[3] \in Inet,
         e = "OSError" => arg = "refused"
  PROVE  ProcInv'
<1>1. /\ Present' = Present /\ Runs(Subject)' = Runs(Subject)
      /\ UNCHANGED <<seen, allowed, method, arg>>
  BY StillThere, Zenon DEF ProcInv
<1>2. procPc' = "done" /\ ret' = {} /\ raised' = e
  BY DEF Throws
<1>3. FoundOK' /\ ReturnsTrue'
  BY <1>2 DEF FoundOK, ReturnsTrue
<1>4. RaisesTrue'
  BY <1>1, <1>2 DEF RaisesTrue
<1> QED BY <1>2, <1>3, <1>4, FunctionEnds

LEMMA FunctionRaisesEnded ==
  ASSUME ProcInv, Still, NEW e, e \in {"ENOENT", "ESRCH"}, Fails(e), inodes' = inodes, found' = found,
         \/ ~Runs(Subject)
         \/ method = "threads" /\ \E x \in seen \ Present : x[1] = Subject /\ x[3] = "task"
  PROVE  ProcInv'
<1>1. Throws("NoSuchProcess")
  BY DEF Fails, Translated
<1> QED BY <1>1, FunctionRaises

LEMMA FunctionRaisesDenied ==
  ASSUME ProcInv, Still, NEW e, e \in {"EPERM", "EACCES"}, Fails(e), inodes' = inodes, found' = found,
         \/ ~allowed \/ arg = "not permitted"
         \/ \E x \in seen : x[1] = Subject /\ x[3] = "hidden"
  PROVE  ProcInv'
<1>1. Throws("AccessDenied")
  BY DEF Fails, Translated
<1> QED BY <1>1, FunctionRaises

LEMMA FunctionGoesOn ==
  ASSUME ProcInv, Still, raised' = "", procPc' # "done", FoundOK',
         PlaceOK', ThreadsOK', FilesOK', InodesOK', SocketsOK'
  PROVE  ProcInv'
<1>1. OpenOK' /\ HistoryOK'
  BY StillThere DEF ProcInv
<1>2. AnswersTrue'
  BY DEF AnswersTrue
<1> QED BY <1>1, <1>2 DEF ProcInv

\* To a place where there is nothing to look at yet.
LEMMA FunctionGoesStraight ==
  ASSUME ProcInv, Still, NEW q, GoesOn(q), procPc # "done", PlaceOK', inodes' = inodes, found' = found,
         q \notin {"threads", "thread", "open_files", "file", "fds", "listdir", "connections",
                   "inet", "unix", "stat", "done"}
  PROVE  ProcInv'
<1>1. UNCHANGED <<ret, raised, seen, method>> /\ procPc' = q
  BY StillThere, Zenon DEF ProcInv, GoesOn
<1>2. ThreadsOK' /\ FilesOK' /\ SocketsOK'
  BY <1>1 DEF ThreadsOK, FilesOK, SocketsOK
<1>3. InodesOK'
  BY <1>1 DEF ProcInv, InodesOK
<1>4. FoundOK' /\ raised' = ""
  BY <1>1 DEF ProcInv, FoundOK
<1> QED BY <1>1, <1>2, <1>3, <1>4, FunctionGoesOn

LEMMA FileProc ==
  ASSUME ProcInv, OpenFile \/ ReadFile PROVE ProcInv'
<1>1. /\ Still /\ procPc \in {"open", "read"} /\ inodes' = inodes /\ found' = found
      /\ method \in Simple
  BY Zenon DEF OpenFile, ReadFile, Lists, ProcInv, PlaceOK, Simple
<1>2. CASE ~Exists(Subject) /\ (Fails("ENOENT") \/ Fails("ESRCH"))
  BY <1>1, <1>2, FunctionRaisesEnded DEF Runs
<1>3. CASE ~allowed /\ Fails("EACCES")
  BY <1>1, <1>3, FunctionRaisesDenied
<1>4. CASE procPc = "open" /\ GoesOn("read")
  <2>1. PlaceOK'
    BY <1>1, <1>4, StillThere, Zenon DEF ProcInv, PlaceOK, GoesOn
  <2> QED BY <1>1, <1>4, <2>1, FunctionGoesStraight
<1>5. CASE Gives({})
  BY <1>1, <1>5, FunctionReturnsNothing
<1> QED BY <1>2, <1>3, <1>4, <1>5 DEF OpenFile, ReadFile

LEMMA LinkProc ==
  ASSUME ProcInv, ReadLink \/ LExists PROVE ProcInv'
<1>1. /\ Still /\ procPc \in {"readlink", "lexists"} /\ inodes' = inodes /\ found' = found
      /\ method \in Simple
  BY Zenon DEF ReadLink, LExists, Lists, ProcInv, PlaceOK, Simple
<1>2. CASE ~allowed /\ Fails("EACCES")
  BY <1>1, <1>2, FunctionRaisesDenied
<1>3. CASE Gives({})
  BY <1>1, <1>3, FunctionReturnsNothing
<1>4. CASE procPc = "readlink" /\ GoesOn("lexists")
  <2>1. PlaceOK'
    BY <1>1, <1>4, StillThere, Zenon DEF ProcInv, PlaceOK, GoesOn
  <2> QED BY <1>1, <1>4, <2>1, FunctionGoesStraight
<1>5. CASE ~Runs(Subject) /\ Fails("ENOENT")
  BY <1>1, <1>5, FunctionRaisesEnded
<1>6. CASE ~Exists(Subject) /\ Throws("NoSuchProcess")
  BY <1>1, <1>6, FunctionRaises DEF Runs
<1> QED BY <1>2, <1>3, <1>4, <1>5, <1>6 DEF ReadLink, LExists

LEMMA CallProc ==
  ASSUME ProcInv, SysCall \/ PerCpuTimes PROVE ProcInv'
<1>1. /\ Still /\ procPc \in {"syscall", "cpus"} /\ inodes' = inodes /\ found' = found
      /\ method \in Simple /\ method \in Getters \union Setters /\ arg \in SetArgs(method)
  BY Zenon DEF SysCall, PerCpuTimes, Lists, ProcInv, PlaceOK, Simple
<1>2. CASE arg = "bad" /\ Throws("ValueError")
  BY <1>1, <1>2, FunctionRaises
<1>3. CASE ~Exists(Subject) /\ Fails("ESRCH")
  BY <1>1, <1>3, FunctionRaisesEnded DEF Runs
<1>4. CASE (Denied \/ arg = "not permitted") /\ Fails("EPERM")
  BY <1>1, <1>4, FunctionRaisesDenied DEF Denied
<1>5. CASE Gives({})
  BY <1>1, <1>5, FunctionReturnsNothing
<1>6. CASE procPc = "syscall" /\ arg = "bad" /\ GoesOn("cpus")
  <2>1. PlaceOK'
    <3>1. method' = method /\ arg' = arg /\ procPc' = "cpus"
      BY <1>1, <1>6, StillThere DEF ProcInv, GoesOn
    <3>2. SetArgs(method)' = SetArgs(method)
      BY <3>1 DEF SetArgs, NiceArgs, AffinityArgs, IoniceArgs, RlimitArgs
    <3> QED BY <1>1, <1>6, <3>1, <3>2 DEF PlaceOK
  <2> QED BY <1>1, <1>6, <2>1, FunctionGoesStraight
<1>7. CASE arg = "refused" /\ Fails("EINVAL")
  <2>1. Throws("OSError")
    BY <1>7 DEF Fails, Translated
  <2> QED BY <1>1, <1>7, <2>1, FunctionRaises
<1>8. procPc = "cpus" => arg = "bad"
  BY Zenon DEF ProcInv, PlaceOK
<1> QED BY <1>2, <1>3, <1>4, <1>5, <1>6, <1>7, <1>8 DEF SysCall, PerCpuTimes

\* num_fds() returns at once; the others have all that is there before them.
LEMMA ListProc ==
  ASSUME ProcInv, ListProcDir PROVE ProcInv'
<1> DEFINE names == IF method = "threads" THEN TasksOf(Subject) ELSE FdsOf(Subject)
<1>1. /\ Still /\ procPc = "listdir" /\ inodes' = inodes /\ found' = found /\ inodes = {}
      /\ method \in {"threads", "open_files", "num_fds", "connections"}
  BY Zenon DEF ListProcDir, ProcInv, PlaceOK, InodesOK
<1>2. /\ UNCHANGED <<seen, kept, method, arg, leader, open>> /\ SocketsKept' = SocketsKept
      /\ kept \subseteq Present /\ OpenOK
  BY <1>1, StillThere DEF ProcInv, HistoryOK
<1>3. \A e \in kept : e[1] = Subject =>
        /\ e[3] = "task" => e[2] \in TasksOf(Subject)
        /\ e[3] # "task" => e[2] \in FdsOf(Subject)
  BY <1>2, PresentIs DEF TasksOf
<1>4. CASE ~Exists(Subject) /\ Fails("ENOENT")
  BY <1>1, <1>4, FunctionRaisesEnded DEF Runs
<1>5. CASE ~allowed /\ Fails("EACCES")
  BY <1>1, <1>5, FunctionRaisesDenied
<1>6. CASE method = "num_fds" /\ Gives({<<Subject, f, "fd">> : f \in names})
  <2> DEFINE r == {<<Subject, f, "fd">> : f \in names}
  <2>1. AskedFor = {}
    BY <1>6 DEF AskedFor
  <2>2. \A f \in FdsOf(Subject) : \E x \in r : x[2] = f
    <3> SUFFICES ASSUME NEW f \in FdsOf(Subject) PROVE \E x \in r : x[2] = f
      OBVIOUS
    <3>1. <<Subject, f, "fd">> \in r
      BY <1>6
    <3> QED BY <3>1
  <2>3. {e[2] : e \in {x \in kept : x[1] = Subject /\ x[3] # "task"}} \subseteq {e[2] : e \in r}
    <3> HIDE DEF r
    <3> QED BY <1>3, <2>2
  <2> HIDE DEF r
  <2> QED BY <1>1, <1>6, <2>1, <2>3, FunctionReturns DEF r
<1>7. CASE method # "num_fds" /\ GoesOn(method) /\ entries' = names
  <2>1. procPc' = method /\ ret' = ret /\ raised' = ""
    BY <1>1, <1>7, Zenon DEF GoesOn, ProcInv
  <2>2. PlaceOK' /\ FoundOK'
    BY <1>1, <1>2, <1>7, <2>1 DEF PlaceOK, FoundOK, ProcInv
  <2>3. ThreadsOK' /\ FilesOK'
    <3>1. method = "threads" => entries' \subseteq Nat
      BY <1>2, <1>7, ProcFsAssumption DEF TasksOf, OpenOK
    <3> QED BY <1>1, <1>2, <1>3, <1>7, <2>1, <3>1, Zenon DEF ThreadsOK, FilesOK
  <2>4. InodesOK'
    BY <1>1, <1>2, <1>7, <2>1, Zenon DEF ProcInv, InodesOK
  <2>5. SocketsOK'
    <3>1. \A e \in SocketsKept : e[2] \in FdsOf(Subject)
      BY <1>3 DEF SocketsKept, Sockets, Inet, Unix
    <3> QED BY <1>1, <1>2, <1>7, <2>1, <3>1 DEF SocketsOK
  <2> QED BY <1>1, <1>7, <2>1, <2>2, <2>3, <2>4, <2>5, FunctionGoesOn
<1> QED BY <1>4, <1>5, <1>6, <1>7 DEF ListProcDir

LEMMA ThreadProc ==
  ASSUME ProcInv, OpenThread \/ ReadThread PROVE ProcInv'
<1>1. /\ Still /\ procPc \in {"threads", "thread"} /\ inodes' = inodes /\ found' = found
      /\ method = "threads"
  BY Zenon DEF OpenThread, ReadThread, Lists, ProcInv, PlaceOK
<1>2. /\ UNCHANGED <<seen, kept, method, arg, leader, open>>
      /\ kept \subseteq Present /\ Present \subseteq seen /\ OpenOK /\ Present' = Present
  BY <1>1, StillThere DEF ProcInv, HistoryOK
<1>3. \A e \in kept : e[1] = Subject /\ e[3] = "task" =>
        e[2] \in TasksOf(Subject) /\ e = <<Subject, e[2], "task">>
  BY <1>2, PresentIs DEF TasksOf
<1>4. \A t \in TasksOf(Subject) : <<Subject, t, "task">> \in Present
  BY TaskPresent DEF TasksOf
<1>5. CASE OpenThread
  <2>1. PICK t : /\ t \in entries /\ entries' = entries \ {t} /\ current' = t
                 /\ IF t \in TasksOf(Subject) THEN GoesOn("thread") ELSE GoesOn("threads")
    <3>1. entries \subseteq Nat /\ entries # {}
      BY <1>5 DEF OpenThread, ProcInv, ThreadsOK
    <3>2. \E t \in entries : \A u \in entries : t <= u
      BY <3>1, Least
    <3> QED BY <1>5, <3>2 DEF OpenThread
  <2>2. /\ procPc' = IF t \in TasksOf(Subject) THEN "thread" ELSE "threads"
        /\ ret' = ret /\ raised' = "" /\ procPc = "threads"
    BY <1>5, <2>1, Zenon DEF GoesOn, ProcInv, OpenThread
  <2>3. PlaceOK' /\ FoundOK' /\ FilesOK' /\ SocketsOK'
    BY <1>1, <1>2, <2>2, Zenon DEF PlaceOK, FoundOK, FilesOK, SocketsOK, ProcInv
  <2>4. InodesOK'
    BY <1>1, <1>2, <2>2, Zenon DEF ProcInv, InodesOK
  <2>5. ThreadsOK'
    BY <1>2, <1>3, <1>4, <2>1, <2>2, Zenon DEF ProcInv, ThreadsOK
  <2> QED BY <1>1, <2>2, <2>3, <2>4, <2>5, FunctionGoesOn
<1>6. CASE ReadThread /\ current \in TasksOf(Subject)
  <2>1. /\ procPc' = "threads" /\ raised' = "" /\ ret' = ret \union {<<Subject, current, "task">>}
        /\ entries' = entries /\ procPc = "thread"
    BY <1>6, Zenon DEF ReadThread, ProcInv, Lists
  <2>2. <<Subject, current, "task">> \in seen
    BY <1>2, <1>4, <1>6
  <2>3. PlaceOK' /\ FoundOK' /\ FilesOK' /\ SocketsOK'
    BY <1>1, <1>2, <2>1, <2>2, Zenon DEF PlaceOK, FoundOK, FilesOK, SocketsOK, ProcInv
  <2>4. InodesOK'
    BY <1>1, <1>2, <2>1, Zenon DEF ProcInv, InodesOK
  <2>5. ThreadsOK'
    BY <1>2, <1>3, <2>1 DEF ProcInv, ThreadsOK
  <2> QED BY <1>1, <2>1, <2>3, <2>4, <2>5, FunctionGoesOn, Zenon
<1>7. CASE ReadThread /\ current \notin TasksOf(Subject)
  <2>1. Fails("ESRCH") /\ <<Subject, current, "task">> \in seen
    BY <1>7, Zenon DEF ReadThread, ProcInv, ThreadsOK
  <2>2. <<Subject, current, "task">> \notin Present
    BY <1>2, <1>7, PresentIs DEF TasksOf
  <2>3. \E x \in seen \ Present : x[1] = Subject /\ x[3] = "task"
    BY <2>1, <2>2
  <2> QED BY <1>1, <2>1, <2>3, FunctionRaisesEnded
<1> QED BY <1>5, <1>6, <1>7

LEMMA OpenFilesProc ==
  ASSUME ProcInv, IsLink \/ FileLink PROVE ProcInv'
<1>1. /\ Still /\ procPc \in {"open_files", "file"} /\ inodes' = inodes /\ found' = found
      /\ method = "open_files"
  BY Zenon DEF IsLink, FileLink, ProcInv, PlaceOK
<1>2. /\ UNCHANGED <<seen, kept, method, arg, leader, open>>
      /\ kept \subseteq Present /\ Present \subseteq seen /\ OpenOK
  BY <1>1, StillThere DEF ProcInv, HistoryOK
<1>3. \A e \in kept : e[1] = Subject /\ e[3] = "file" =>
        e[2] \in FdsOf(Subject) /\ e = <<Subject, e[2], "file">> /\ e \in Present
  BY <1>2, PresentIs
<1>4. ASSUME FoundOK', ThreadsOK' /\ FilesOK', procPc' \in {"open_files", "file"}, raised' = ""
      PROVE  ProcInv'
  <2>1. PlaceOK' /\ SocketsOK' /\ procPc' # "done"
    BY <1>1, <1>2, <1>4, Zenon DEF PlaceOK, SocketsOK
  <2>2. InodesOK'
    BY <1>1, <1>2, <1>4 DEF ProcInv, InodesOK
  <2> QED BY <1>1, <1>4, <2>1, <2>2, FunctionGoesOn
<1>5. CASE IsLink
  <2>1. PICK f \in entries : /\ entries' = entries \ {f} /\ current' = f
                             /\ GoesOn(IF f \in FdsOf(Subject) THEN "file" ELSE "open_files")
    BY <1>5 DEF IsLink
  <2>2. /\ procPc' = IF f \in FdsOf(Subject) THEN "file" ELSE "open_files"
        /\ ret' = ret /\ raised' = "" /\ procPc = "open_files"
    BY <1>5, <2>1 DEF GoesOn, ProcInv, IsLink
  <2>3. FoundOK' /\ ThreadsOK'
    BY <1>1, <1>2, <2>2 DEF FoundOK, ThreadsOK, ProcInv
  <2>4. FilesOK'
    BY <1>2, <1>3, <2>1, <2>2, Zenon DEF ProcInv, FilesOK
  <2> QED BY <1>4, <2>2, <2>3, <2>4
<1>6. CASE FileLink /\ procPc' = "open_files"
  <2>1. /\ ret' = IF current \in FdsOf(Subject) THEN ret \union Regular ELSE ret
        /\ raised' = "" /\ entries' = entries /\ current' = current /\ procPc = "file"
    BY <1>6, Zenon DEF FileLink, LinkedFile, GoesOn, Fails, Throws, ProcInv
  <2>2. Regular \subseteq seen
    BY <1>2 DEF Regular
  <2>3. FoundOK' /\ ThreadsOK'
    BY <1>1, <1>2, <1>6, <2>1, <2>2 DEF FoundOK, ThreadsOK, ProcInv
  <2>4. FilesOK'
    <3>1. \A e \in kept : e[1] = Subject /\ e[3] = "file" /\ e[2] = current =>
            current \in FdsOf(Subject) /\ e \in Regular
      BY <1>3 DEF Regular
    <3> QED BY <1>2, <1>6, <2>1, <3>1, Zenon DEF ProcInv, FilesOK
  <2> QED BY <1>4, <1>6, <2>1, <2>3, <2>4
<1>7. CASE FileLink /\ procPc' # "open_files"
  <2>1. /\ current \in FdsOf(Subject) /\ open[Subject][current] = "hidden" /\ Fails("EACCES")
    BY <1>7 DEF FileLink, LinkedFile, GoesOn
  <2>2. <<Subject, current, "hidden">> \in seen
    BY <1>2, <2>1, FdPresent
  <2>3. \E x \in seen : x[1] = Subject /\ x[3] = "hidden"
    BY <2>2
  <2> QED BY <1>1, <2>1, <2>3, FunctionRaisesDenied
<1> QED BY <1>5, <1>6, <1>7

\* With nothing left, what stays has been found.
LEMMA StatProc ==
  ASSUME ProcInv, StatProcess \/ StatLast PROVE ProcInv'
<1>1. /\ Still /\ procPc \in {"threads", "open_files", "stat"} /\ inodes' = inodes /\ found' = found
      /\ method \in {"threads", "open_files", "connections"}
  BY DEF StatProcess, StatLast, Lists, ProcInv, PlaceOK
<1>2. CASE ~Exists(Subject) /\ Fails("ENOENT")
  BY <1>1, <1>2, FunctionRaisesEnded DEF Runs
<1>3. CASE Gives(ret) /\ (procPc # "stat" => entries = {})
  <2>1. AskedFor \subseteq ret
    <3>1. CASE method = "threads"
      BY <1>1, <1>3, <3>1, Zenon DEF AskedFor, ProcInv, ThreadsOK, PlaceOK
    <3>2. CASE method = "open_files"
      BY <1>1, <1>3, <3>2, Zenon DEF AskedFor, ProcInv, FilesOK, PlaceOK
    <3>3. CASE method = "connections"
      BY <1>1, <3>3, Zenon DEF AskedFor, ProcInv, SocketsOK, PlaceOK
    <3> QED BY <1>1, <3>1, <3>2, <3>3
  <2>2. method # "num_fds" => \A x \in ret : x \in seen \/ x[1] = 0
    BY DEF ProcInv, FoundOK
  <2> QED BY <1>1, <1>3, <2>1, <2>2, FunctionReturns
<1> QED BY <1>2, <1>3 DEF StatProcess, StatLast

LEMMA SocketsAtSeen ==
  ASSUME OpenOK, HistoryOK, NEW p, NEW f
  PROVE  /\ \A i \in SocketsAt(p, f) : i \in seen /\ i = <<i[1], i[2], i[3]>> /\ i[1] = p
         /\ \A e \in SocketsKept : p = Subject /\ e[2] = f => e \in SocketsAt(p, f)
<1>1. \A i \in SocketsAt(p, f) : i \in Present /\ i[1] = p
  BY DEF SocketsAt
<1>2. \A e \in SocketsKept : e \in Present /\ e = <<Subject, e[2], e[3]>> /\ e[3] \in Sockets
  BY PresentIs DEF SocketsKept, HistoryOK
<1> QED BY <1>1, <1>2, PresentIs DEF SocketsAt, Sockets, HistoryOK

LEMMA InodesProc ==
  ASSUME ProcInv, ProcInodes \/ InodesDone PROVE ProcInv'
<1>1. /\ Still /\ procPc = "connections" /\ found' = found /\ method = "connections"
      /\ ret' = ret /\ raised' = ""
  BY Zenon DEF ProcInodes, InodesDone, Lists, GoesOn, ProcInv, PlaceOK
<1>2. /\ UNCHANGED <<seen, kept, method, arg>> /\ SocketsKept' = SocketsKept /\ OpenOK /\ HistoryOK
  BY <1>1, StillThere DEF ProcInv
<1>3. procPc' \in {"connections", "inet", "stat"}
  BY DEF ProcInodes, InodesDone, GoesOn
<1>4. PlaceOK' /\ FoundOK' /\ ThreadsOK' /\ FilesOK'
  BY <1>1, <1>2, <1>3 DEF PlaceOK, FoundOK, ThreadsOK, FilesOK, ProcInv
<1>5. InodesOK' /\ SocketsOK'
  <2>1. CASE ProcInodes
    <3>1. PICK f \in entries : /\ entries' = entries \ {f} /\ procPc' = "connections"
                               /\ inodes' = inodes \union SocketsAt(Subject, f)
      BY <2>1 DEF ProcInodes, GoesOn
    <3>2. \A i \in inodes : i[1] = Subject
      BY <1>1 DEF ProcInv, InodesOK
    <3>3. InodesOK'
      <4>1. \A i \in SocketsAt(Subject, f) : i \in seen /\ i = <<i[1], i[2], i[3]>> /\ i[1] = Subject
        BY <1>2, SocketsAtSeen
      <4>2. \A i \in inodes' : i \in inodes \/ i \in SocketsAt(Subject, f)
        BY <3>1
      <4>3. \A i \in inodes' \union found' : i \in seen' /\ i = <<i[1], i[2], i[3]>>
        BY <1>1, <1>2, <4>1, <4>2 DEF ProcInv, InodesOK
      <4>4. \A i \in inodes' : i[1] = Subject
        BY <3>2, <4>1, <4>2
      <4> QED BY <3>1, <4>3, <4>4 DEF InodesOK
    <3>4. SocketsOK'
      BY <1>1, <1>2, <3>1, SocketsAtSeen DEF ProcInv, SocketsOK
    <3> QED BY <3>3, <3>4
  <2>2. CASE InodesDone
    <3>1. entries = {} /\ inodes' = inodes /\ procPc' = (IF inodes = {} THEN "stat" ELSE "inet")
      BY <2>2 DEF InodesDone, Lists, GoesOn
    <3>2. InodesOK'
      BY <1>1, <1>2, <3>1 DEF ProcInv, InodesOK
    <3>3. SocketsKept \subseteq inodes
      BY <1>1, <3>1 DEF ProcInv, SocketsOK
    <3>4. \A e \in kept : e[1] = Subject /\ e[3] \in Tables(arg) => e \in SocketsKept
      BY DEF SocketsKept, Sockets, Tables
    <3>5. Tables(arg)' = Tables(arg)
      BY <1>2 DEF Tables
    <3>6. SocketsOK'
      BY <1>2, <3>1, <3>3, <3>4, <3>5 DEF SocketsOK
    <3> QED BY <3>2, <3>6
  <2> QED BY <2>1, <2>2
<1> QED BY <1>1, <1>3, <1>4, <1>5, FunctionGoesOn

\* Of all processes: the sockets of one replace those found before that are the same.
LEMMA AllProc ==
  ASSUME ProcInv, PidsOf \/ NextPid \/ AllInodes \/ UpdateInodes \/ AllDone PROVE ProcInv'
<1>1. /\ Still /\ procPc \in {"pids", "each", "fds"} /\ method = "net_connections"
      /\ ret' = ret /\ raised' = ""
  BY Zenon DEF PidsOf, NextPid, AllInodes, UpdateInodes, AllDone, GoesOn, ProcInv, PlaceOK
<1>2. UNCHANGED <<seen, kept, method, arg>> /\ OpenOK /\ HistoryOK
  BY <1>1, StillThere DEF ProcInv
<1>3. procPc' \in {"each", "fds", "inet"}
  BY DEF PidsOf, NextPid, AllInodes, UpdateInodes, AllDone, GoesOn
<1>4. PlaceOK' /\ FoundOK' /\ ThreadsOK' /\ FilesOK' /\ SocketsOK'
  BY <1>1, <1>2, <1>3, Zenon DEF PlaceOK, FoundOK, ThreadsOK, FilesOK, SocketsOK, ProcInv
<1>5. InodesOK'
  <2>1. CASE inodes' = inodes /\ (procPc' # "fds" \/ found' = {}) /\ found' \in {found, {}}
    BY <1>2, <1>3, <2>1, Zenon DEF ProcInv, InodesOK
  <2>2. CASE AllInodes
    <3>1. PICK f \in entries : /\ found' = found \union SocketsAt(current, f)
                               /\ UNCHANGED <<current, inodes>>
      BY <2>2 DEF AllInodes
    <3>2. \A i \in SocketsAt(current, f) : i \in seen /\ i = <<i[1], i[2], i[3]>> /\ i[1] = current
      BY <1>2, SocketsAtSeen
    <3>3. \A i \in found' : i \in found \/ i \in SocketsAt(current, f)
      BY <3>1
    <3>4. \A j \in found' : j[1] = current
      BY <2>2, <3>2, <3>3 DEF ProcInv, InodesOK, AllInodes
    <3>5. \A i \in inodes' \union found' : i \in seen' /\ i = <<i[1], i[2], i[3]>>
      BY <1>2, <3>1, <3>2, <3>3, Zenon DEF ProcInv, InodesOK
    <3> QED BY <1>3, <3>1, <3>4, <3>5 DEF ProcInv, InodesOK
  <2>3. CASE UpdateInodes
    <3>1. /\ inodes' = {i \in inodes : \A j \in found : i[3] # j[3]} \union found
          /\ found' = found /\ procPc' = "each"
      BY <2>3 DEF UpdateInodes, GoesOn
    <3>2. \A j \in found : j[1] = current
      BY <2>3 DEF ProcInv, InodesOK, UpdateInodes
    <3>3. \A i \in inodes' : (i \in inodes /\ \A j \in found : i[3] # j[3]) \/ i \in found
      BY <3>1
    <3>4. \A i, j \in inodes' : i[3] = j[3] => i[1] = j[1]
      BY <3>2, <3>3 DEF ProcInv, InodesOK
    <3>5. \A i \in inodes' \union found' : i \in seen' /\ i = <<i[1], i[2], i[3]>>
      BY <1>2, <3>1, <3>3 DEF ProcInv, InodesOK
    <3> QED BY <3>1, <3>4, <3>5 DEF InodesOK
  <2> QED BY <2>1, <2>2, <2>3 DEF PidsOf, NextPid, AllDone, GoesOn, Lists
<1> QED BY <1>1, <1>3, <1>4, <1>5, FunctionGoesOn, Zenon

\* A socket that there is has a line: of those that were found with it, or of nobody.
LEMMA LinesOf ==
  ASSUME ProcInv, procPc \in {"inet", "unix"}, NEW S
  PROVE  /\ \A r \in TableLines(S) : r \in seen \/ r[1] = 0
         /\ method = "connections" /\ SocketsKept \subseteq inodes =>
              \A e \in SocketsKept : e[3] \in S /\ e[3] \in Tables(arg) => e \in TableLines(S)
         /\ method = "net_connections" =>
              \A e \in kept : e[3] \in S /\ e[3] \in Tables(arg) => \E r \in TableLines(S) : r[3] = e[3]
<1> DEFINE Line(x) == IF Owners(x) # {} THEN Owners(x)
                      ELSE IF method = "connections" THEN {} ELSE {<<0, 0, x>>}
           X == S \intersect SocketsNow \intersect Tables(arg)
<1>1. /\ \A x \in X : Line(x) \subseteq TableLines(S)
      /\ \A r \in TableLines(S) : \E x \in X : r \in Line(x)
  BY DEF TableLines
<1>2. \A e \in kept : e[3] \in SocketsNow
  BY DEF ProcInv, HistoryOK, SocketsNow
<1>3. ASSUME NEW r \in TableLines(S) PROVE r \in seen \/ r[1] = 0
  <2>1. PICK x : r \in Line(x)
    BY <1>1
  <2>2. r \in Owners(x) \/ r = <<0, 0, x>>
    BY <2>1
  <2>3. CASE r \in Owners(x)
    BY <2>3 DEF Owners, ProcInv, InodesOK
  <2>4. CASE r = <<0, 0, x>>
    BY <2>4
  <2> QED BY <2>2, <2>3, <2>4
<1>4. ASSUME SocketsKept \subseteq inodes, NEW e \in SocketsKept, e[3] \in S, e[3] \in Tables(arg)
      PROVE  e \in TableLines(S)
  <2>1. e[3] \in X /\ e \in Owners(e[3])
    BY <1>2, <1>4 DEF SocketsKept, Owners
  <2>2. e \in Line(e[3])
    BY <2>1
  <2> QED BY <1>1, <2>1, <2>2
<1>5. ASSUME method = "net_connections", NEW e \in kept, e[3] \in S, e[3] \in Tables(arg)
      PROVE  \E r \in TableLines(S) : r[3] = e[3]
  <2>1. e[3] \in X
    BY <1>2, <1>5
  <2>2. \E r \in Line(e[3]) : r[3] = e[3]
    BY <1>5 DEF Owners
  <2> QED BY <1>1, <2>1, <2>2
<1> QED BY <1>3, <1>4, <1>5

LEMMA TwoOf == ASSUME NEW S, Cardinality(S) > 1 PROVE \E x, y \in S : x # y
<1> SUFFICES ASSUME \A x, y \in S : x = y PROVE FALSE
  OBVIOUS
<1>1. CASE S = {}
  BY <1>1, FS_EmptySet
<1>2. ASSUME NEW x \in S PROVE FALSE
  <2>1. S = {x}
    BY <1>2
  <2> QED BY <2>1, FS_Singleton
<1> QED BY <1>1, <1>2

LEMMA NetProc ==
  ASSUME ProcInv, ProcessInet \/ ProcessUnix PROVE ProcInv'
<1>1. /\ Still /\ procPc \in {"inet", "unix"} /\ inodes' = inodes /\ found' = found
      /\ method \in {"connections", "net_connections"} /\ raised = ""
  BY Zenon DEF ProcessInet, ProcessUnix, Lists, ProcInv, PlaceOK
<1>2. /\ UNCHANGED <<seen, kept, method, arg>> /\ SocketsKept' = SocketsKept
      /\ Tables(arg)' = Tables(arg) /\ kept \subseteq seen
      /\ method = "connections" => SocketsKept \subseteq inodes
  BY <1>1, StillThere DEF ProcInv, HistoryOK, SocketsOK
<1>3. \A e \in kept : e[1] = Subject /\ e[3] \in Tables(arg) => e \in SocketsKept
  BY DEF SocketsKept, Sockets, Tables
<1>4. CASE procPc = "inet" /\ Throws("ValueError")
  <2>1. PICK x \in Inet : Cardinality(Owners(x)) > 1
    BY <1>4 DEF ProcessInet, ProcessUnix, Throws
  <2>2. PICK i, j \in Owners(x) : i # j
    BY <2>1, TwoOf
  <2>3. /\ i \in seen /\ j \in seen /\ i[1] = j[1] /\ i[3] = x /\ j[3] = x
        /\ i = <<i[1], i[2], i[3]>> /\ j = <<j[1], j[2], j[3]>>
    BY DEF Owners, ProcInv, InodesOK
  <2>4. i[2] # j[2]
    BY <2>2, <2>3
  <2>5. \E a, g \in seen : a[1] = g[1] /\ a[2] # g[2] /\ a[3] = g[3] /\ a[3] \in Inet
    BY <2>1, <2>3, <2>4
  <2> QED BY <1>1, <1>4, <2>5, FunctionRaises
<1>5. CASE /\ ProcessInet /\ procPc = "inet" /\ procPc' = "unix" /\ raised' = raised
           /\ ret' = ret \union TableLines(Inet)
  <2>1. \A r \in TableLines(Inet) : r \in seen \/ r[1] = 0
    BY <1>1, LinesOf, Zenon
  <2>2. PlaceOK' /\ FoundOK' /\ ThreadsOK' /\ FilesOK'
    BY <1>1, <1>2, <1>5, <2>1, Zenon DEF PlaceOK, FoundOK, ThreadsOK, FilesOK, ProcInv
  <2>3. InodesOK'
    BY <1>1, <1>2, <1>5, Zenon DEF ProcInv, InodesOK
  <2>4. ASSUME NEW e \in kept, e[3] \in Inet, e[3] \in Tables(arg)
        PROVE  /\ method = "connections" /\ e[1] = Subject => e \in ret'
               /\ method = "net_connections" => \E r \in ret' : r[3] = e[3]
    BY <1>1, <1>2, <1>3, <1>5, <2>4, LinesOf, Zenon
  <2>5. SocketsOK'
    BY <1>1, <1>2, <1>5, <2>4, Zenon DEF SocketsOK
  <2> QED BY <1>1, <1>5, <2>2, <2>3, <2>5, FunctionGoesOn
<1>6. CASE procPc = "unix" /\ ProcessUnix
  <2>1. \A r \in TableLines(Unix) : r \in seen \/ r[1] = 0
    BY <1>1, LinesOf, Zenon
  <2>2. /\ ret' = ret \union TableLines(Unix) /\ raised' = ""
        /\ procPc' = (IF method = "connections" THEN "stat" ELSE "done")
    BY <1>1, <1>6 DEF ProcessUnix
  <2>3. ASSUME NEW e \in kept, e[3] \in Tables(arg)
        PROVE  /\ method = "connections" /\ e[1] = Subject => e \in ret'
               /\ method = "net_connections" => \E r \in ret' : r[3] = e[3]
    <3>1. CASE e[3] \in Inet
      BY <1>6, <2>2, <2>3, <3>1 DEF ProcInv, SocketsOK
    <3>2. CASE e[3] \in Unix
      BY <1>1, <1>2, <1>3, <2>2, <2>3, <3>2, LinesOf, Zenon
    <3> QED BY <2>3, <3>1, <3>2 DEF Tables
  <2>4. FoundOK'
    BY <1>1, <1>2, <2>1, <2>2, Zenon DEF FoundOK, ProcInv
  <2>5. CASE method = "connections"
    <3>1. PlaceOK' /\ ThreadsOK' /\ FilesOK' /\ procPc' = "stat"
      BY <1>2, <2>2, <2>5, Zenon DEF PlaceOK, ThreadsOK, FilesOK
    <3>2. InodesOK'
      BY <1>1, <1>2, <2>2, Zenon DEF ProcInv, InodesOK
    <3>3. SocketsOK'
      BY <1>2, <2>3, <2>5, <3>1 DEF SocketsOK
    <3> QED BY <1>1, <2>2, <2>4, <3>1, <3>2, <3>3, FunctionGoesOn
  <2>6. CASE method = "net_connections"
    <3>1. AskedFor' = {} /\ RaisesTrue'
      BY <1>2, <2>2, <2>6, Zenon DEF AskedFor, RaisesTrue
    <3>2. \A r \in ret' : r \in seen' \/ r[1] = 0
      BY <1>2, <2>4, <2>6 DEF FoundOK
    <3>3. ReturnsTrue'
      BY <1>2, <2>3, <2>6, <3>1, <3>2 DEF ReturnsTrue
    <3> QED BY <1>1, <2>2, <2>4, <2>6, <3>1, <3>3, FunctionEnds
  <2> QED BY <1>1, <2>5, <2>6
<1> QED BY <1>4, <1>5, <1>6 DEF ProcessInet, ProcessUnix, Throws

\* pid_exists() is true of a process that was there at the last look, and of one that stays.
LEMMA PidExistsProc ==
  ASSUME ProcInv, Kill \/ Tgid \/ ListedPid PROVE ProcInv'
<1>1. /\ Still /\ procPc \in {"kill", "tgid", "listed"} /\ inodes' = inodes /\ found' = found
      /\ method = "pid_exists"
  BY Zenon DEF Kill, Tgid, ListedPid, Lists, ProcInv, PlaceOK
<1>2. kept \subseteq Present /\ Present \subseteq seen /\ OpenOK
  BY DEF ProcInv, HistoryOK
<1>3. AskedFor = kept \intersect AskedId
  BY <1>1 DEF AskedFor
<1>4. arg \in DOMAIN leader /\ leader[arg] = arg => AskedId \subseteq seen
  BY <1>2, TaskPresent DEF AskedId
<1>5. AskedFor # {} => arg \in DOMAIN leader /\ leader[arg] = arg
  <2>1. \A e \in AskedFor : e \in Present /\ e[1] = arg /\ e[2] = arg /\ e[3] = "task"
    BY <1>2, <1>3 DEF AskedId
  <2> QED BY <1>2, <2>1, PresentIs
<1>6. CASE (procPc = "kill" /\ GoesOn("tgid")) \/ (procPc = "tgid" /\ GoesOn("listed"))
  <2>1. PlaceOK'
    BY <1>1, <1>6, StillThere, Zenon DEF ProcInv, PlaceOK, GoesOn
  <2> QED BY <1>1, <1>6, <2>1, FunctionGoesStraight
<1>7. CASE Gives({}) /\ ~(arg \in DOMAIN leader /\ leader[arg] = arg)
  BY <1>1, <1>5, <1>7, FunctionReturns
<1>8. CASE Gives(AskedId) /\ arg \in DOMAIN leader /\ leader[arg] = arg
  BY <1>1, <1>3, <1>4, <1>8, FunctionReturns
<1> QED BY <1>6, <1>7, <1>8 DEF Kill, Tgid, ListedPid, Exists, Processes

-----------------------------------------------------------------------------
LEMMA MethodsApart ==
  ASSUME NEW m \in FileMethods
  PROVE  m \notin Getters \union Setters \union
           {"threads", "open_files", "num_fds", "connections", "net_connections",
            "pid_exists", "exe", "cwd"}
BY DEF FileMethods, StatFiles, MemoryFiles, CounterFiles, IdFiles, OtherFiles, Getters, Setters

LEMMA InitProc == ProcFsInit => ProcInv
<1> SUFFICES ASSUME ProcFsInit PROVE ProcInv
  OBVIOUS
<1> USE DEF ProcFsInit, ProcStart
<1>1. OpenOK
  <2>1. ASSUME NEW p \in DOMAIN leader, Runs(p)
        PROVE  p \in DOMAIN open /\ \A f \in DOMAIN open[p] : open[p][f] \in OpenThings
    <3>1. p \in Processes \ zombies
      BY <2>1 DEF Runs, Exists
    <3> DEFINE Tabled == UNION {[F -> OpenThings] : F \in SUBSET Fds}
    <3>2. DOMAIN open = Processes \ zombies /\ \A q \in Processes \ zombies : open[q] \in Tabled
      <4>1. open \in [Processes \ zombies -> Tabled]
        OBVIOUS
      <4> HIDE DEF Tabled
      <4> QED BY <4>1
    <3>3. open[p] \in Tabled
      BY <3>1, <3>2
    <3>4. PICK F \in SUBSET Fds : open[p] \in [F -> OpenThings]
      BY <3>3, Zenon DEF Tabled
    <3> QED BY <3>1, <3>2, <3>4
  <2> QED BY <2>1 DEF OpenOK
<1>2. PlaceOK
  <2> DEFINE Others == {"threads", "open_files", "num_fds", "connections", "net_connections",
                        "pid_exists", "exe", "cwd"}
  <2>1. \A m \in FileMethods : m \notin Getters \union Setters \union Others
    BY MethodsApart
  <2>2. \A m \in Getters \union Setters : m \notin Others
    BY DEF Getters, Setters
  <2>3. CASE method \in FileMethods
    <3>1. procPc = "open"
      BY <2>1, <2>3 DEF BeginsAt
    <3> QED BY <2>3, <3>1 DEF PlaceOK
  <2>4. CASE method \in Getters \union Setters
    <3>1. procPc = "syscall" /\ arg \in SetArgs(method)
      BY <2>1, <2>2, <2>4 DEF BeginsAt, Args
    <3> QED BY <2>4, <3>1 DEF PlaceOK
  <2>5. CASE method \in Others
    <3>1. method \notin FileMethods /\ method \notin Getters \union Setters
      BY <2>1, <2>2, <2>5, Zenon
    <3>2. /\ method \in {"exe", "cwd"} => procPc = "readlink"
          /\ method \in {"threads", "open_files", "num_fds", "connections"} => procPc = "listdir"
          /\ method = "net_connections" => procPc = "pids"
          /\ method = "pid_exists" => procPc = "kill"
      BY <3>1, Zenon DEF BeginsAt
    <3> QED BY <2>5, <3>2 DEF PlaceOK
  <2> QED BY <2>3, <2>4, <2>5 DEF ProcMethods
<1>3. HistoryOK /\ FoundOK
  BY DEF HistoryOK, FoundOK
<1>4. procPc \in {"open", "syscall", "readlink", "listdir", "pids", "kill"}
  BY DEF BeginsAt, ProcMethods
<1>5. ThreadsOK /\ FilesOK /\ InodesOK /\ SocketsOK /\ AnswersTrue
  BY <1>4 DEF ThreadsOK, FilesOK, InodesOK, SocketsOK, AnswersTrue
<1> QED BY <1>1, <1>2, <1>3, <1>5 DEF ProcInv

LEMMA NextProc == ProcInv /\ [ProcFsNext]_procVars => ProcInv'
<1> SUFFICES ASSUME ProcInv, [ProcFsNext]_procVars PROVE ProcInv'
  OBVIOUS
<1>1. CASE UNCHANGED procVars
  <2>1. Still /\ UNCHANGED <<procPc, pidsLeft, entries, current, found, inodes, ret, raised>>
    BY <1>1 DEF procVars, Still, system
  <2>2. /\ OpenOK' /\ HistoryOK' /\ Present' = Present /\ AskedFor' = AskedFor
        /\ Runs(Subject)' = Runs(Subject) /\ SocketsKept' = SocketsKept /\ Tables(arg)' = Tables(arg)
        /\ UNCHANGED <<allowed, seen, kept, method, arg>>
    BY <2>1, StillThere DEF ProcInv
  <2>3. PlaceOK' /\ FoundOK' /\ ThreadsOK' /\ FilesOK' /\ InodesOK' /\ SocketsOK'
    <3>1. SetArgs(method)' = SetArgs(method)
      BY <2>2 DEF SetArgs, NiceArgs, AffinityArgs, IoniceArgs, RlimitArgs
    <3>2. PlaceOK'
      BY <2>1, <2>2, <3>1 DEF ProcInv, PlaceOK
    <3> QED BY <2>1, <2>2, <3>2, Zenon DEF ProcInv, FoundOK, ThreadsOK, FilesOK, InodesOK, SocketsOK
  <2>4. AnswersTrue'
    BY <2>1, <2>2, Zenon DEF ProcInv, AnswersTrue, ReturnsTrue, RaisesTrue
  <2> QED BY <2>1, <2>2, <2>3, <2>4 DEF ProcInv
<1> QED BY <1>1, HappensProc, FileProc, LinkProc, CallProc, ListProc, ThreadProc, OpenFilesProc,
           StatProc, InodesProc, AllProc, NetProc, PidExistsProc DEF ProcFsNext, ProcFunction

\* Whatever tasks begin and end and descriptors are opened and closed between a function's
\* system calls: what it returns was there, all that stayed is in it, and what it raises is
\* true of the process.
THEOREM AnswersHold == ProcFsSpec => []AnswersTrue
<1>1. ProcInv => AnswersTrue
  BY DEF ProcInv
<1> QED BY <1>1, InitProc, NextProc, PTL DEF ProcFsSpec

-----------------------------------------------------------------------------
(* LruCache: rings.                                                         *)

Stored == Keys \union {NoKey}
LinkRecords == [prev : Links, next : Links, key : Stored, result : Stored]

\* The links in the order of the ring, from the root to the root.
Nodes(rt, c, s) == [i \in 0..Len(s) + 1 |-> IF i \in 1..Len(s) THEN c[s[i]] ELSE rt]
Ringed(N, n, ls) == \A i \in 0..n : ls[N[i]].next = N[i + 1] /\ ls[N[i + 1]].prev = N[i]
Apart(N, n) == /\ N \in [0..n + 1 -> Links] /\ N[n + 1] = N[0]
               /\ \A i, j \in 0..n : N[i] = N[j] => i = j

\* One field of one link is set.
NextSet(ls, l, v) == [ls EXCEPT ![l].next = v]
PrevSet(ls, l, v) == [ls EXCEPT ![l].prev = v]

\* The key and the result of one link are set.
EntrySet(ls, l, k, v) == [ls EXCEPT ![l].key = k, ![l].result = v]

LEMMA EntrySetView ==
  ASSUME NEW ls \in [Links -> LinkRecords], NEW l \in Links, NEW k \in Stored, NEW v \in Stored
  PROVE  /\ EntrySet(ls, l, k, v) \in [Links -> LinkRecords]
         /\ \A x \in Links :
              /\ EntrySet(ls, l, k, v)[x].key = (IF x = l THEN k ELSE ls[x].key)
              /\ EntrySet(ls, l, k, v)[x].result = (IF x = l THEN v ELSE ls[x].result)
              /\ EntrySet(ls, l, k, v)[x].next = ls[x].next
              /\ EntrySet(ls, l, k, v)[x].prev = ls[x].prev
<1> DEFINE r == [ls[l] EXCEPT !.key = k, !.result = v]
<1>1. EntrySet(ls, l, k, v) = [x \in Links |-> IF x = l THEN r ELSE ls[x]]
  BY DEF EntrySet
<1>2. r \in LinkRecords /\ r.key = k /\ r.result = v /\ r.next = ls[l].next /\ r.prev = ls[l].prev
  BY Zenon DEF LinkRecords
<1> HIDE DEF r
<1> QED BY <1>1, <1>2

LEMMA NextSetView ==
  ASSUME NEW ls \in [Links -> LinkRecords], NEW l \in Links, NEW v \in Links
  PROVE  /\ NextSet(ls, l, v) \in [Links -> LinkRecords]
         /\ \A x \in Links :
              /\ NextSet(ls, l, v)[x].key = ls[x].key /\ NextSet(ls, l, v)[x].result = ls[x].result
              /\ NextSet(ls, l, v)[x].next = (IF x = l THEN v ELSE ls[x].next)
              /\ NextSet(ls, l, v)[x].prev = ls[x].prev
BY DEF LinkRecords, NextSet

LEMMA PrevSetView ==
  ASSUME NEW ls \in [Links -> LinkRecords], NEW l \in Links, NEW v \in Links
  PROVE  /\ PrevSet(ls, l, v) \in [Links -> LinkRecords]
         /\ \A x \in Links :
              /\ PrevSet(ls, l, v)[x].key = ls[x].key /\ PrevSet(ls, l, v)[x].result = ls[x].result
              /\ PrevSet(ls, l, v)[x].next = ls[x].next
              /\ PrevSet(ls, l, v)[x].prev = (IF x = l THEN v ELSE ls[x].prev)
BY DEF LinkRecords, PrevSet

\* A link put in before the root.
LEMMA LastLinked ==
  ASSUME NEW ls \in [Links -> LinkRecords], root \in Links, NEW l \in Links, l # root, l # ls[root].prev
  PROVE  LET L == LinkedLast(ls, l) IN
         /\ L \in [Links -> LinkRecords]
         /\ \A x \in Links :
              /\ L[x].key = ls[x].key /\ L[x].result = ls[x].result
              /\ L[x].next = IF x = l THEN root ELSE IF x = ls[root].prev THEN l ELSE ls[x].next
              /\ L[x].prev = IF x = l THEN ls[root].prev ELSE IF x = root THEN l ELSE ls[x].prev
<1> DEFINE last == ls[root].prev
           A == NextSet(ls, last, l)
           B == PrevSet(A, root, l)
           C == PrevSet(B, l, last)
           L == NextSet(C, l, root)
<1>1. last \in Links
  BY DEF LinkRecords
<1>2. LinkedLast(ls, l) = L
  BY DEF LinkedLast, NextSet, PrevSet
<1> HIDE DEF last, L
<1>3. A \in [Links -> LinkRecords]
      /\ \A x \in Links : /\ A[x].key = ls[x].key /\ A[x].result = ls[x].result
                         /\ A[x].next = (IF x = last THEN l ELSE ls[x].next) /\ A[x].prev = ls[x].prev
  BY <1>1, NextSetView
<1> HIDE DEF A
<1>4. B \in [Links -> LinkRecords]
      /\ \A x \in Links : /\ B[x].key = A[x].key /\ B[x].result = A[x].result
                         /\ B[x].next = A[x].next /\ B[x].prev = (IF x = root THEN l ELSE A[x].prev)
  <2>1. A \in [Links -> LinkRecords]
    BY <1>3
  <2> QED BY <2>1, PrevSetView
<1> HIDE DEF B
<1>5. C \in [Links -> LinkRecords]
      /\ \A x \in Links : /\ C[x].key = B[x].key /\ C[x].result = B[x].result
                         /\ C[x].next = B[x].next /\ C[x].prev = (IF x = l THEN last ELSE B[x].prev)
  <2>1. B \in [Links -> LinkRecords]
    BY <1>4
  <2> QED BY <1>1, <2>1, PrevSetView
<1> HIDE DEF C
<1>6. L \in [Links -> LinkRecords]
      /\ \A x \in Links : /\ L[x].key = C[x].key /\ L[x].result = C[x].result
                         /\ L[x].next = (IF x = l THEN root ELSE C[x].next) /\ L[x].prev = C[x].prev
  <2>1. C \in [Links -> LinkRecords]
    BY <1>5
  <2> QED BY <2>1, NextSetView DEF L
<1>7. \A x \in Links :
        /\ L[x].key = ls[x].key /\ L[x].result = ls[x].result
        /\ L[x].next = IF x = l THEN root ELSE IF x = last THEN l ELSE ls[x].next
        /\ L[x].prev = IF x = l THEN last ELSE IF x = root THEN l ELSE ls[x].prev
  BY <1>3, <1>4, <1>5, <1>6
<1> QED BY <1>2, <1>6, <1>7 DEF last

\* A link taken out.
LEMMA TakenOut ==
  ASSUME NEW ls \in [Links -> LinkRecords], NEW l \in Links
  PROVE  LET U == Unlinked(ls, l) IN
         /\ U \in [Links -> LinkRecords]
         /\ \A x \in Links :
              /\ U[x].key = ls[x].key /\ U[x].result = ls[x].result
              /\ U[x].next = IF x = ls[l].prev THEN ls[l].next ELSE ls[x].next
              /\ U[x].prev = IF x = ls[l].next THEN ls[l].prev ELSE ls[x].prev
<1> DEFINE p == ls[l].prev
           n == ls[l].next
           A == NextSet(ls, p, n)
           U == PrevSet(A, n, p)
<1>1. p \in Links /\ n \in Links
  BY DEF LinkRecords
<1>2. Unlinked(ls, l) = U
  BY DEF Unlinked, NextSet, PrevSet
<1> HIDE DEF p, n, U
<1>3. A \in [Links -> LinkRecords]
      /\ \A x \in Links : /\ A[x].key = ls[x].key /\ A[x].result = ls[x].result
                         /\ A[x].next = (IF x = p THEN n ELSE ls[x].next) /\ A[x].prev = ls[x].prev
  BY <1>1, NextSetView
<1> HIDE DEF A
<1>4. U \in [Links -> LinkRecords]
      /\ \A x \in Links : /\ U[x].key = A[x].key /\ U[x].result = A[x].result
                         /\ U[x].next = A[x].next /\ U[x].prev = (IF x = n THEN p ELSE A[x].prev)
  <2>1. A \in [Links -> LinkRecords]
    BY <1>3
  <2> QED BY <1>1, <2>1, PrevSetView DEF U
<1>5. \A x \in Links :
        /\ U[x].key = ls[x].key /\ U[x].result = ls[x].result
        /\ U[x].next = IF x = p THEN n ELSE ls[x].next
        /\ U[x].prev = IF x = n THEN p ELSE ls[x].prev
  BY <1>3, <1>4
<1> QED BY <1>2, <1>4, <1>5 DEF p, n

\* The link at i moved to the end of the ring.
MovedLinks(L, ls, N, i) ==
  LET last == IF N[i + 1] = N[0] THEN N[i - 1] ELSE ls[N[0]].prev IN
  \A x \in Links :
    /\ L[x].next = IF x = N[i] THEN N[0] ELSE IF x = last THEN N[i]
                   ELSE IF x = N[i - 1] THEN N[i + 1] ELSE ls[x].next
    /\ L[x].prev = IF x = N[i] THEN last ELSE IF x = N[0] THEN N[i]
                   ELSE IF x = N[i + 1] THEN N[i - 1] ELSE ls[x].prev
MovedNodes(M, N, n, i) ==
  \A m \in 0..n + 1 :
    M[m] = IF m < i \/ m = n + 1 THEN N[m] ELSE IF m < n THEN N[m + 1] ELSE N[i]

LEMMA RingMoved ==
  ASSUME NEW n \in Nat, NEW i \in 1..n, NEW N, Apart(N, n), NEW ls, NEW L, Ringed(N, n, ls),
         MovedLinks(L, ls, N, i), NEW M, MovedNodes(M, N, n, i)
  PROVE  Ringed(M, n, L)
<1> USE DEF MovedLinks, MovedNodes
<1> DEFINE last == IF i = n THEN N[n - 1] ELSE N[n]
<1>1. /\ N[i + 1] = N[0] <=> i = n
      /\ ls[N[0]].prev = N[n]
      /\ i + 1 \in 1..n + 1 /\ i - 1 \in 0..n - 1
      /\ \A j \in 0..n + 1 : N[j] \in Links
  <2>1. i \in Nat /\ i + 1 \in 1..n + 1 /\ i - 1 \in 0..n - 1
    OBVIOUS
  <2>2. N[i + 1] = N[0] <=> i = n
    <3>1. CASE i = n
      BY <3>1 DEF Apart
    <3>2. CASE i < n
      BY <2>1, <3>2 DEF Apart
    <3> QED BY <3>1, <3>2
  <2>3. ls[N[n + 1]].prev = N[n] /\ N[n + 1] = N[0]
    BY DEF Ringed, Apart
  <2> QED BY <2>1, <2>2, <2>3 DEF Apart
<1>2. \A x \in Links :
           /\ L[x].next = IF x = N[i] THEN N[0] ELSE IF x = last THEN N[i]
                          ELSE IF x = N[i - 1] THEN N[i + 1] ELSE ls[x].next
           /\ L[x].prev = IF x = N[i] THEN last ELSE IF x = N[0] THEN N[i]
                          ELSE IF x = N[i + 1] THEN N[i - 1] ELSE ls[x].prev
  BY <1>1
<1>3. \A j, k \in 0..n : N[j] = N[k] => j = k
  BY DEF Apart
<1> DEFINE z == IF i = n THEN n - 1 ELSE n
<1>4. z \in 0..n /\ last = N[z]
  OBVIOUS
<1> HIDE DEF last, z
<1>5. ASSUME NEW j \in 0..n
      PROVE  L[N[j]].next = IF j = i THEN N[0] ELSE IF j = z THEN N[i]
                            ELSE IF j = i - 1 THEN N[i + 1] ELSE N[j + 1]
  <2>1. /\ N[j] = N[i] <=> j = i
        /\ N[j] = last <=> j = z
        /\ N[j] = N[i - 1] <=> j = i - 1
    BY <1>1, <1>3, <1>4
  <2>2. ls[N[j]].next = N[j + 1] /\ N[j] \in Links
    BY <1>1 DEF Ringed
  <2> QED BY <1>2, <2>1, <2>2
<1>6. ASSUME NEW j \in 1..n
      PROVE  L[N[j]].prev = IF j = i THEN N[z] ELSE IF j = i + 1 THEN N[i - 1] ELSE N[j - 1]
  <2>1. /\ N[j] = N[i] <=> j = i
        /\ N[j] # N[0]
        /\ N[j] = N[i + 1] <=> j = i + 1
    <3>1. i + 1 = n + 1 => N[i + 1] = N[0]
      BY DEF Apart
    <3>2. N[j] # N[0] /\ (N[j] = N[i] <=> j = i)
      BY <1>3
    <3>3. i + 1 \in 0..n \/ i + 1 = n + 1
      OBVIOUS
    <3> QED BY <1>3, <3>1, <3>2, <3>3
  <2>2. j - 1 \in 0..n /\ (j - 1) + 1 = j
    OBVIOUS
  <2>3. ls[N[j]].prev = N[j - 1] /\ N[j] \in Links
    BY <1>1, <2>2 DEF Ringed
  <2> QED BY <1>2, <1>4, <2>1, <2>3
<1>7. L[N[0]].prev = N[i] /\ N[n + 1] = N[0]
  <2>1. N[0] # N[i] /\ N[0] \in Links /\ N[n + 1] = N[0]
    BY <1>1, <1>3 DEF Apart
  <2> QED BY <1>2, <2>1
<1> SUFFICES ASSUME NEW m \in 0..n PROVE L[M[m]].next = M[m + 1] /\ L[M[m + 1]].prev = M[m]
  BY DEF Ringed
<1>8. CASE m + 1 < i
  <2>1. M[m] = N[m] /\ M[m + 1] = N[m + 1] /\ m + 1 \in 1..n
    BY <1>8
  <2> QED BY <1>5, <1>6, <1>8, <2>1 DEF z
<1>9. CASE m + 1 = i /\ i < n
  <2>1. M[m] = N[m] /\ M[m + 1] = N[i + 1] /\ i + 1 \in 1..n
    BY <1>9
  <2> QED BY <1>5, <1>6, <1>9, <2>1 DEF z
<1>10. CASE m + 1 = i /\ i = n
  <2>1. M[m] = N[m] /\ M[m + 1] = N[i]
    BY <1>10
  <2> QED BY <1>5, <1>6, <1>10, <2>1 DEF z
<1>11. CASE i <= m /\ m + 1 < n
  <2>1. M[m] = N[m + 1] /\ M[m + 1] = N[m + 2] /\ m + 1 \in 1..n /\ m + 2 \in 1..n
    BY <1>11
  <2> QED BY <1>5, <1>6, <1>11, <2>1 DEF z
<1>12. CASE i <= m /\ m + 1 = n
  <2>1. M[m] = N[n] /\ M[m + 1] = N[i] /\ n \in 1..n
    BY <1>12
  <2> QED BY <1>5, <1>6, <1>12, <2>1 DEF z
<1>13. CASE m = n
  <2>1. M[m] = N[i] /\ M[m + 1] = N[0]
    BY <1>7, <1>13
  <2> QED BY <1>5, <1>7, <2>1
<1> QED BY <1>8, <1>9, <1>10, <1>11, <1>12, <1>13

\* A new link at the end of the ring.
LongerLinks(L, ls, N, f) ==
  \A x \in Links :
    /\ L[x].next = IF x = f THEN N[0] ELSE IF x = ls[N[0]].prev THEN f ELSE ls[x].next
    /\ L[x].prev = IF x = f THEN ls[N[0]].prev ELSE IF x = N[0] THEN f ELSE ls[x].prev
LongerNodes(M, N, n, f) ==
  \A m \in 0..n + 2 : M[m] = IF m <= n THEN N[m] ELSE IF m = n + 1 THEN f ELSE N[0]

LEMMA RingLonger ==
  ASSUME NEW n \in Nat, NEW N, Apart(N, n), NEW ls, NEW L, Ringed(N, n, ls),
         NEW f \in Links, \A j \in 0..n : N[j] # f,
         LongerLinks(L, ls, N, f), NEW M, LongerNodes(M, N, n, f)
  PROVE  Ringed(M, n + 1, L)
<1> USE DEF LongerLinks, LongerNodes
<1>1. ls[N[0]].prev = N[n] /\ N[n + 1] = N[0] /\ \A j \in 0..n : N[j] \in Links
  <2>1. ls[N[n + 1]].prev = N[n] /\ N[n + 1] = N[0]
    BY DEF Ringed, Apart
  <2> QED BY <2>1 DEF Apart
<1>2. ASSUME NEW j \in 0..n PROVE L[N[j]].next = IF j = n THEN f ELSE N[j + 1]
  <2>1. N[j] \in Links /\ N[j] # f /\ (N[j] = N[n] <=> j = n) /\ ls[N[j]].next = N[j + 1]
    BY <1>1 DEF Apart, Ringed
  <2> QED BY <1>1, <2>1
<1>3. ASSUME NEW j \in 1..n PROVE L[N[j]].prev = N[j - 1]
  <2>1. j \in 0..n /\ 0 \in 0..n /\ j # 0 /\ j - 1 \in 0..n /\ (j - 1) + 1 = j
    OBVIOUS
  <2>2. N[j] \in Links /\ N[j] # f /\ N[j] # N[0]
    BY <1>1, <2>1 DEF Apart
  <2>3. ls[N[j]].prev = N[j - 1]
    BY <2>1 DEF Ringed
  <2> QED BY <2>2, <2>3
<1>4. L[f].next = N[0] /\ L[f].prev = N[n] /\ L[N[0]].prev = f
  <2>1. 0 \in 0..n
    OBVIOUS
  <2> QED BY <1>1, <2>1
<1> SUFFICES ASSUME NEW m \in 0..n + 1 PROVE L[M[m]].next = M[m + 1] /\ L[M[m + 1]].prev = M[m]
  BY DEF Ringed
<1>5. CASE m < n
  <2>1. M[m] = N[m] /\ M[m + 1] = N[m + 1] /\ m \in 0..n /\ m + 1 \in 1..n /\ (m + 1) - 1 = m /\ m # n
    BY <1>5
  <2> QED BY <1>2, <1>3, <2>1
<1>6. CASE m = n
  <2>1. M[m] = N[n] /\ M[m + 1] = f /\ n \in 0..n
    BY <1>6
  <2> QED BY <1>2, <1>4, <2>1
<1>7. CASE m = n + 1
  <2>1. M[m] = f /\ M[m + 1] = N[0]
    BY <1>7
  <2> QED BY <1>4, <2>1
<1> QED BY <1>5, <1>6, <1>7

\* The ring from its next link on.
SameLinks(L, ls) == \A x \in Links : L[x].next = ls[x].next /\ L[x].prev = ls[x].prev
TurnedNodes(M, N, n) == \A m \in 0..n + 1 : M[m] = IF m <= n THEN N[m + 1] ELSE N[1]

LEMMA RingTurned ==
  ASSUME NEW n \in Nat \ {0}, NEW N, Apart(N, n), NEW ls, Ringed(N, n, ls), NEW L,
         SameLinks(L, ls), NEW M, TurnedNodes(M, N, n)
  PROVE  Ringed(M, n, L)
<1> USE DEF SameLinks, TurnedNodes
<1> SUFFICES ASSUME NEW m \in 0..n PROVE L[M[m]].next = M[m + 1] /\ L[M[m + 1]].prev = M[m]
  BY DEF Ringed
<1>1. N[n + 1] = N[0] /\ \A j \in 0..n + 1 : N[j] \in Links
  BY DEF Apart
<1>2. CASE m < n
  <2>1. M[m] = N[m + 1] /\ M[m + 1] = N[(m + 1) + 1] /\ m + 1 \in 0..n /\ (m + 1) + 1 \in 0..n + 1
    BY <1>2
  <2>2. ls[N[m + 1]].next = N[(m + 1) + 1] /\ ls[N[(m + 1) + 1]].prev = N[m + 1]
    BY <2>1 DEF Ringed
  <2>3. N[m + 1] \in Links /\ N[(m + 1) + 1] \in Links
    BY <1>1, <2>1
  <2> QED BY <2>1, <2>2, <2>3
<1>3. CASE m = n
  <2>1. M[m] = N[0] /\ M[m + 1] = N[1] /\ 0 \in 0..n /\ 0 + 1 = 1 /\ 1 \in 0..n + 1
    BY <1>1, <1>3
  <2>2. ls[N[0]].next = N[1] /\ ls[N[1]].prev = N[0]
    BY <2>1 DEF Ringed
  <2>3. N[0] \in Links /\ N[1] \in Links
    BY <1>1, <2>1
  <2> QED BY <2>1, <2>2, <2>3
<1> QED BY <1>2, <1>3

-----------------------------------------------------------------------------
(* LruCache: the invariant.                                                 *)

LruTypes ==
  /\ links \in [Links -> LinkRecords] /\ root \in Links
  /\ wrapPc \in [LruThreads -> {"idle", "get", "call", "insert"}]
  /\ wanted \in [LruThreads -> Stored] /\ computed \in [LruThreads -> Stored]

\* The keys in order of use are the keys of the cache, each once.
RecentOK ==
  /\ recent \in Seq(Keys) /\ Len(recent) <= maxsize
  /\ \A i, j \in 1..Len(recent) : recent[i] = recent[j] => i = j
  /\ DOMAIN cache = {recent[i] : i \in 1..Len(recent)}
  /\ IsFiniteSet(DOMAIN cache) /\ Cardinality(DOMAIN cache) = Len(recent)

\* Every key has a link of its own, with its result.
CacheOK ==
  /\ \A k \in DOMAIN cache : /\ cache[k] \in Links /\ cache[k] # root
                            /\ links[cache[k]].key = k /\ links[cache[k]].result = k
  /\ \A k, m \in DOMAIN cache : cache[k] = cache[m] => k = m

\* A value that is inserted is the key's.
ValuesOK ==
  \A t \in LruThreads :
    /\ computed[t] \in {wanted[t], NoKey}
    /\ wrapPc[t] # "idle" => wanted[t] \in Keys
    /\ wrapPc[t] = "insert" => computed[t] = wanted[t]

Ring == Nodes(root, cache, recent)
RingInv ==
  /\ LruTypes /\ RecentOK /\ CacheOK /\ ValuesOK
  /\ Ringed(Ring, Len(recent), links)

LEMMA RingApart ==
  ASSUME LruTypes, RecentOK, CacheOK
  PROVE  /\ Apart(Ring, Len(recent)) /\ Ring[0] = root
         /\ \A i \in 1..Len(recent) : Ring[i] = cache[recent[i]] /\ recent[i] \in DOMAIN cache
         /\ Len(recent) \in Nat
<1> DEFINE n == Len(recent)
<1>1. n \in Nat
  <2>1. recent \in Seq(Keys)
    BY Zenon DEF RecentOK
  <2> QED BY <2>1
<1>2. \A i \in 1..n : recent[i] \in DOMAIN cache
  BY Zenon DEF RecentOK
<1>3. /\ Ring[0] = root /\ Ring[n + 1] = root
      /\ \A i \in 1..n : Ring[i] = cache[recent[i]]
  BY <1>1 DEF Ring, Nodes
<1>4. \A i \in 0..n + 1 : Ring[i] \in Links
  <2> SUFFICES ASSUME NEW i \in 0..n + 1 PROVE Ring[i] \in Links
    OBVIOUS
  <2>1. i = 0 \/ i = n + 1 \/ i \in 1..n
    BY <1>1
  <2> QED BY <1>2, <1>3, <2>1 DEF LruTypes, CacheOK
<1>5. Ring \in [0..n + 1 -> Links]
  BY <1>4 DEF Ring, Nodes
<1>6. ASSUME NEW i \in 0..n, NEW j \in 0..n, Ring[i] = Ring[j] PROVE i = j
  <2>1. (i = 0 \/ i \in 1..n) /\ (j = 0 \/ j \in 1..n)
    BY <1>1
  <2>2. \A k \in 1..n : Ring[k] # root
    BY <1>2, <1>3 DEF CacheOK
  <2>3. CASE i \in 1..n /\ j \in 1..n
    <3>1. cache[recent[i]] = cache[recent[j]]
      BY <1>3, <1>6, <2>3
    <3>2. recent[i] = recent[j]
      BY <1>2, <2>3, <3>1 DEF CacheOK
    <3> QED BY <2>3, <3>2, Zenon DEF RecentOK
  <2> QED BY <1>3, <1>6, <2>1, <2>2, <2>3
<1> QED BY <1>1, <1>2, <1>3, <1>5, <1>6 DEF Apart

LEMMA LruInitial == LruInit => RingInv
<1> SUFFICES ASSUME LruInit PROVE RingInv
  OBVIOUS
<1>1. Links # {}
  BY LruAssumption, FS_EmptySet
<1>2. root \in Links /\ recent = <<>> /\ cache = <<>> /\ links = [l \in Links |-> EmptyRoot]
  BY <1>1 DEF LruInit
<1>3. LruTypes
  BY <1>2 DEF LruInit, LruTypes, Stored, LinkRecords, EmptyRoot
<1>4. RecentOK
  BY <1>2, FS_EmptySet, LruAssumption DEF RecentOK
<1>5. CacheOK
  BY <1>2 DEF CacheOK
<1>6. ValuesOK
  BY DEF LruInit, ValuesOK
<1>7. Ringed(Ring, Len(recent), links)
  BY <1>2 DEF Ringed, Ring, Nodes, EmptyRoot
<1> QED BY <1>3, <1>4, <1>5, <1>6, <1>7 DEF RingInv

\* Nothing happens to the cache.
LEMMA CacheSame ==
  ASSUME RingInv, UNCHANGED <<cache, links, root, recent>>,
         wrapPc' \in [LruThreads -> {"idle", "get", "call", "insert"}],
         wanted' \in [LruThreads -> Stored], computed' \in [LruThreads -> Stored], ValuesOK'
  PROVE  RingInv'
<1>1. LruTypes' /\ CacheOK'
  BY DEF RingInv, LruTypes, CacheOK
<1>2. RecentOK'
  BY Zenon DEF RingInv, RecentOK
<1>3. Ringed(Ring, Len(recent), links)'
  BY DEF RingInv, Ringed, Ring, Nodes
<1> QED BY <1>1, <1>2, <1>3 DEF RingInv

LEMMA CallSteps ==
  ASSUME RingInv, NEW t \in LruThreads,
         Missed(t) \/ Compute(t) \/ (\E k \in Keys : CallWrapper(t, k)) \/ UNCHANGED lruVars
  PROVE  RingInv'
<1> USE DEF RingInv
<1>1. UNCHANGED <<cache, links, root, recent>>
  BY DEF Missed, Compute, CallWrapper, lruVars
<1>2. CASE Missed(t) \/ UNCHANGED lruVars
  BY <1>1, <1>2, CacheSame DEF Missed, lruVars, LruTypes, ValuesOK
<1>3. CASE Compute(t)
  <2>1. wanted' = wanted /\ wrapPc[t] = "call" /\ wanted[t] \in Keys
    BY <1>3 DEF Compute, ValuesOK
  <2>2. \/ wrapPc' = [wrapPc EXCEPT ![t] = "insert"] /\ computed' = [computed EXCEPT ![t] = wanted[t]]
        \/ wrapPc' = [wrapPc EXCEPT ![t] = "idle"] /\ computed' = computed
    BY <1>3 DEF Compute
  <2>3. /\ wrapPc' \in [LruThreads -> {"idle", "get", "call", "insert"}]
        /\ computed' \in [LruThreads -> Stored] /\ ValuesOK'
    BY <2>1, <2>2 DEF LruTypes, ValuesOK, Stored
  <2> QED BY <1>1, <2>1, <2>3, CacheSame DEF LruTypes
<1>4. ASSUME NEW k \in Keys, CallWrapper(t, k) PROVE RingInv'
  <2>1. /\ wrapPc' \in [LruThreads -> {"idle", "get", "call", "insert"}]
        /\ wanted' \in [LruThreads -> Stored] /\ computed' \in [LruThreads -> Stored] /\ ValuesOK'
    BY <1>4 DEF CallWrapper, LruTypes, ValuesOK, Stored
  <2> QED BY <1>1, <2>1, CacheSame
<1> QED BY <1>2, <1>3, <1>4

\* The key at i of the order used last.
LEMMA UsedLastView ==
  ASSUME RecentOK, NEW i \in 1..Len(recent), NEW s, s = UsedLast(recent, recent[i])
  PROVE  /\ s \in Seq(Keys) /\ Len(s) = Len(recent)
         /\ \A m \in 1..Len(recent) :
              s[m] = recent[IF m < i THEN m ELSE IF m < Len(recent) THEN m + 1 ELSE i]
<1> DEFINE n == Len(recent)
           k == recent[i]
<1>1. recent \in Seq(Keys) /\ n \in Nat /\ \A m \in 1..n : recent[m] \in Keys
  <2>1. recent \in Seq(Keys)
    BY Zenon DEF RecentOK
  <2> QED BY <2>1
<1>2. (CHOOSE m \in 1..n : recent[m] = k) = i
  BY Zenon DEF RecentOK
<1>3. s = [m \in 1..n |-> IF m < i THEN recent[m] ELSE IF m < n THEN recent[m + 1] ELSE k]
  BY <1>2 DEF UsedLast
<1>4. \A m \in 1..n : s[m] \in Keys
  BY <1>1, <1>3
<1>5. s \in [1..n -> Keys]
  BY <1>3, <1>4
<1> QED BY <1>1, <1>3, <1>5

LEMMA HitInv == ASSUME RingInv, NEW t \in LruThreads, Hit(t) PROVE RingInv'
<1> USE DEF RingInv
<1> DEFINE n == Len(recent)
           l == cache[wanted[t]]
           U == Unlinked(links, l)
<1>1. /\ wrapPc[t] = "get" /\ wanted[t] \in DOMAIN cache /\ links' = LinkedLast(U, l)
      /\ computed' = [computed EXCEPT ![t] = links[l].result]
      /\ recent' = UsedLast(recent, wanted[t]) /\ wrapPc' = [wrapPc EXCEPT ![t] = "idle"]
      /\ UNCHANGED <<cache, root, wanted>>
  BY DEF Hit
<1>2. PICK i \in 1..n : recent[i] = wanted[t]
  BY <1>1, Zenon DEF RecentOK
<1>3. /\ Apart(Ring, n) /\ Ring[0] = root /\ n \in Nat
      /\ \A j \in 1..n : Ring[j] = cache[recent[j]] /\ recent[j] \in DOMAIN cache
  BY RingApart
<1>4. l = Ring[i] /\ l \in Links /\ l # root /\ root \in Links /\ links \in [Links -> LinkRecords]
  BY <1>1, <1>2, <1>3 DEF CacheOK, LruTypes
<1>5. links[l].next = Ring[i + 1] /\ links[l].prev = Ring[i - 1] /\ i + 1 \in 1..n + 1 /\ i - 1 \in 0..n - 1
  <2>1. i \in 0..n /\ i - 1 \in 0..n /\ (i - 1) + 1 = i /\ i + 1 \in 1..n + 1 /\ i - 1 \in 0..n - 1
    BY <1>3
  <2>2. /\ links[Ring[i]].next = Ring[i + 1]
        /\ links[Ring[(i - 1) + 1]].prev = Ring[i - 1]
    BY <2>1 DEF Ringed
  <2> QED BY <1>4, <2>1, <2>2
<1> HIDE DEF l, U
<1>6. /\ U \in [Links -> LinkRecords]
      /\ \A x \in Links :
           /\ U[x].key = links[x].key /\ U[x].result = links[x].result
           /\ U[x].next = IF x = Ring[i - 1] THEN Ring[i + 1] ELSE links[x].next
           /\ U[x].prev = IF x = Ring[i + 1] THEN Ring[i - 1] ELSE links[x].prev
  BY <1>4, <1>5, TakenOut DEF U
<1> DEFINE last == IF Ring[i + 1] = Ring[0] THEN Ring[i - 1] ELSE links[Ring[0]].prev
<1>7. U[root].prev = last /\ last # l
  <2>1. U[root].prev = last
    BY <1>3, <1>4, <1>6
  <2>2. Ring[i - 1] # Ring[i] /\ Ring[n + 1] = Ring[0] /\ links[Ring[n + 1]].prev = Ring[n]
    <3>1. i - 1 \in 0..n /\ i \in 0..n /\ i - 1 # i /\ n \in 0..n
      BY <1>3
    <3> QED BY <1>3, <3>1 DEF Apart, Ringed
  <2>3. Ring[i + 1] # Ring[0] => i # n
    BY <2>2
  <2>4. i # n => Ring[n] # Ring[i]
    <3>1. i \in 0..n /\ n \in 0..n
      BY <1>3
    <3> QED BY <1>3, <3>1 DEF Apart
  <2> QED BY <1>4, <2>1, <2>2, <2>3, <2>4
<1> HIDE DEF last
<1>8. /\ links' \in [Links -> LinkRecords]
      /\ \A x \in Links :
           /\ links'[x].key = links[x].key /\ links'[x].result = links[x].result
           /\ links'[x].next = IF x = l THEN root ELSE IF x = last THEN l ELSE U[x].next
           /\ links'[x].prev = IF x = l THEN last ELSE IF x = root THEN l ELSE U[x].prev
  BY <1>1, <1>4, <1>6, <1>7, LastLinked
<1>9. /\ recent' \in Seq(Keys) /\ Len(recent') = n
      /\ \A m \in 1..n : recent'[m] = recent[IF m < i THEN m ELSE IF m < n THEN m + 1 ELSE i]
  BY <1>1, <1>2, UsedLastView
<1>10. Ringed(Ring', n, links')
  <2>1. Ring' = [m \in 0..n + 1 |-> IF m \in 1..n THEN cache[recent'[m]] ELSE root]
    BY <1>1, <1>9 DEF Ring, Nodes
  <2>2. Ring[n + 1] = root /\ Ring[0] = root
    BY <1>3 DEF Apart
  <2>3. ASSUME NEW m \in 0..n + 1
        PROVE  Ring'[m] = IF m < i \/ m = n + 1 THEN Ring[m] ELSE IF m < n THEN Ring[m + 1] ELSE Ring[i]
    <3>1. CASE m \in 1..n
      <4>1. recent'[m] = recent[IF m < i THEN m ELSE IF m < n THEN m + 1 ELSE i]
        BY <1>9, <3>1
      <4>2. (IF m < i THEN m ELSE IF m < n THEN m + 1 ELSE i) \in 1..n
        BY <1>3, <3>1
      <4> QED BY <1>3, <2>1, <3>1, <4>1, <4>2
    <3>2. CASE m = 0 \/ m = n + 1
      BY <1>3, <2>1, <2>2, <3>2
    <3> QED BY <1>3, <3>1, <3>2
  <2>4. \A x \in Links :
           LET z == IF Ring[i + 1] = Ring[0] THEN Ring[i - 1] ELSE links[Ring[0]].prev IN
           /\ links'[x].next = IF x = Ring[i] THEN Ring[0] ELSE IF x = z THEN Ring[i]
                          ELSE IF x = Ring[i - 1] THEN Ring[i + 1] ELSE links[x].next
           /\ links'[x].prev = IF x = Ring[i] THEN z ELSE IF x = Ring[0] THEN Ring[i]
                          ELSE IF x = Ring[i + 1] THEN Ring[i - 1] ELSE links[x].prev
    BY <1>3, <1>4, <1>6, <1>8 DEF last
  <2>5. Ringed(Ring, n, links)
    OBVIOUS
  <2>6. n \in Nat /\ i \in 1..n /\ Apart(Ring, n)
    BY <1>3
  <2>7. MovedNodes(Ring', Ring, n, i)
    BY <2>3 DEF MovedNodes
  <2>8. MovedLinks(links', links, Ring, i)
    BY <2>4 DEF MovedLinks
  <2> HIDE DEF n, RingInv
  <2> QED BY <2>5, <2>6, <2>7, <2>8, RingMoved
<1>11. LruTypes'
  <2>1. links[l].result \in Stored
    BY <1>4 DEF LinkRecords
  <2> QED BY <1>1, <1>8, <2>1 DEF LruTypes
<1>12. RecentOK'
  <2> DEFINE from(m) == IF m < i THEN m ELSE IF m < n THEN m + 1 ELSE i
  <2>3. /\ \A m \in 1..n : from(m) \in 1..n
        /\ \A a, b \in 1..n : from(a) = from(b) => a = b
        /\ \A a \in 1..n : \E m \in 1..n : from(m) = a
    <3>1. i \in 1..n /\ n \in Nat
      BY <1>3
    <3> HIDE DEF n, RingInv
    <3>2. \A m \in 1..n : from(m) \in 1..n
      BY <3>1
    <3>3. \A a, b \in 1..n : from(a) = from(b) => a = b
      BY <3>1
    <3>4. ASSUME NEW a \in 1..n PROVE \E m \in 1..n : from(m) = a
      <4>1. CASE a < i
        BY <4>1
      <4>2. CASE a = i
        <5>1. n \in 1..n /\ from(n) = i
          BY <3>1
        <5> QED BY <4>2, <5>1
      <4>3. CASE a > i
        <5>1. a - 1 \in 1..n /\ from(a - 1) = a
          BY <3>1, <4>3
        <5> QED BY <5>1
      <4> QED BY <3>1, <4>1, <4>2, <4>3
    <3> QED BY <3>2, <3>3, <3>4
  <2>4. \A m \in 1..n : recent'[m] = recent[from(m)]
    BY <1>9
  <2> HIDE DEF from
  <2>1. \A a, b \in 1..n : recent'[a] = recent'[b] => a = b
    BY <2>3, <2>4, Zenon DEF RecentOK
  <2>2. {recent'[m] : m \in 1..n} = {recent[m] : m \in 1..n}
    <3>1. ASSUME NEW m \in 1..n PROVE recent'[m] \in {recent[a] : a \in 1..n}
      BY <2>3, <2>4
    <3>2. ASSUME NEW a \in 1..n PROVE recent[a] \in {recent'[m] : m \in 1..n}
      <4>1. PICK m \in 1..n : from(m) = a
        BY <2>3
      <4>2. recent'[m] = recent[a]
        BY <2>4, <4>1
      <4> QED BY <4>2
    <3> HIDE DEF n
    <3> QED BY <3>1, <3>2
  <2> QED BY <1>1, <1>9, <2>1, <2>2, Zenon DEF RecentOK
<1>13. CacheOK'
  BY <1>1, <1>8 DEF CacheOK
<1>14. ValuesOK'
  BY <1>1 DEF ValuesOK, CacheOK, LruTypes, l
<1> QED BY <1>9, <1>10, <1>11, <1>12, <1>13, <1>14

\* A key that was not there at the end of the order, with a link of its own.
LEMMA InsertInv ==
  ASSUME RingInv, NEW t \in LruThreads, wrapPc[t] = "insert", wanted[t] \notin DOMAIN cache,
         wrapPc' = [wrapPc EXCEPT ![t] = "idle"], UNCHANGED <<wanted, computed>>, InsertNew(t)
  PROVE  RingInv'
<1> USE DEF RingInv
<1> DEFINE n == Len(recent)
           w == wanted[t]
           v == computed[t]
           f == Fresh
           A == [links EXCEPT ![f].key = w, ![f].result = v]
<1>1. /\ n < maxsize /\ links' = LinkedLast(A, f)
      /\ cache' = [k \in DOMAIN cache \union {w} |-> IF k = w THEN f ELSE cache[k]]
      /\ recent' = Append(recent, w) /\ root' = root
  BY Zenon DEF InsertNew, RecentOK
<1>2. w \in Keys /\ v = w /\ w \in Stored
  BY DEF ValuesOK, Stored
<1>3. /\ Apart(Ring, n) /\ Ring[0] = root /\ n \in Nat
      /\ \A j \in 1..n : Ring[j] = cache[recent[j]] /\ recent[j] \in DOMAIN cache
  BY RingApart
<1>4. f \in Links /\ f # root /\ \A k \in DOMAIN cache : cache[k] # f
  <2> DEFINE used == {cache[k] : k \in DOMAIN cache} \union {root}
  <2>1. IsFiniteSet(used) /\ Cardinality(used) <= n + 1
    <3>1. /\ IsFiniteSet({cache[k] : k \in DOMAIN cache})
          /\ Cardinality({cache[k] : k \in DOMAIN cache}) <= Cardinality(DOMAIN cache)
      <4> DEFINE D == DOMAIN cache
                 T == {cache[k] : k \in D}
                 g == [k \in D |-> cache[k]]
      <4>1. IsFiniteSet(D)
        BY Zenon DEF RecentOK
      <4>2. g \in Surjection(D, T)
        BY DEF Surjection
      <4> HIDE DEF D, T, g
      <4>3. IsFiniteSet(T) /\ Cardinality(T) <= Cardinality(D)
        BY <4>1, <4>2, FS_Surjection
      <4> QED BY <4>3 DEF D, T
    <3>2. /\ IsFiniteSet(used)
          /\ Cardinality(used) \in {Cardinality({cache[k] : k \in DOMAIN cache}),
                                    Cardinality({cache[k] : k \in DOMAIN cache}) + 1}
      BY <3>1, FS_AddElement
    <3>3. Cardinality({cache[k] : k \in DOMAIN cache}) \in Nat /\ Cardinality(DOMAIN cache) = n
      BY <3>1, FS_CardinalityType, Zenon DEF RecentOK
    <3> QED BY <1>3, <3>1, <3>2, <3>3
  <2>2. ~(Links \subseteq used)
    <3>1. SUFFICES ASSUME Links \subseteq used PROVE FALSE
      OBVIOUS
    <3>2. Cardinality(Links) <= Cardinality(used) /\ Cardinality(used) \in Nat /\ Cardinality(Links) \in Nat
      BY <2>1, <3>1, FS_Subset, FS_CardinalityType, LruAssumption
    <3> QED BY <1>1, <1>3, <2>1, <3>2, LruAssumption
  <2>3. \E l \in Links : l # root /\ \A k \in DOMAIN cache : cache[k] # l
    BY <2>2
  <2> QED BY <2>3 DEF Fresh
<1> HIDE DEF f
<1>5. links \in [Links -> LinkRecords] /\ root \in Links
  BY DEF LruTypes
<1>6. /\ A \in [Links -> LinkRecords]
      /\ \A x \in Links : /\ A[x].next = links[x].next /\ A[x].prev = links[x].prev
                         /\ A[x].key = (IF x = f THEN w ELSE links[x].key)
                         /\ A[x].result = (IF x = f THEN v ELSE links[x].result)
  <2>1. A = EntrySet(links, f, w, v)
    BY DEF EntrySet
  <2> QED BY <1>2, <1>4, <1>5, <2>1, EntrySetView
<1> HIDE DEF A
<1>7. /\ links[root].prev = Ring[n] /\ Ring[n] # f /\ Ring[n + 1] = root
      /\ \A j \in 0..n : Ring[j] # f
  <2>1. n \in 0..n /\ Ring[n + 1] = root
    BY <1>3 DEF Apart
  <2>2. \A j \in 0..n : j = 0 \/ j \in 1..n
    BY <1>3
  <2>3. \A j \in 0..n : Ring[j] # f
    BY <1>3, <1>4, <2>2
  <2>4. links[Ring[n + 1]].prev = Ring[n]
    BY <2>1 DEF Ringed
  <2> QED BY <2>1, <2>3, <2>4
<1>8. /\ links' \in [Links -> LinkRecords]
      /\ \A x \in Links :
           /\ links'[x].key = A[x].key /\ links'[x].result = A[x].result
           /\ links'[x].next = IF x = f THEN root ELSE IF x = A[root].prev THEN f ELSE A[x].next
           /\ links'[x].prev = IF x = f THEN A[root].prev ELSE IF x = root THEN f ELSE A[x].prev
  BY <1>1, <1>4, <1>5, <1>6, <1>7, LastLinked
<1>9. /\ recent' \in Seq(Keys) /\ Len(recent') = n + 1 /\ recent'[n + 1] = w
      /\ \A m \in 1..n : recent'[m] = recent[m]
  <2>1. recent \in Seq(Keys)
    BY Zenon DEF RecentOK
  <2> QED BY <1>1, <1>2, <2>1
<1>10. Ringed(Ring', n + 1, links')
  <2>1. Ring' = [m \in 0..n + 2 |-> IF m \in 1..n + 1 THEN cache'[recent'[m]] ELSE root]
    BY <1>1, <1>3, <1>9 DEF Ring, Nodes
  <2>2. ASSUME NEW m \in 0..n + 2
        PROVE  Ring'[m] = IF m <= n THEN Ring[m] ELSE IF m = n + 1 THEN f ELSE Ring[0]
    <3>1. CASE m \in 1..n
      <4>1. m \in 1..n + 1 /\ recent'[m] = recent[m] /\ recent[m] \in DOMAIN cache /\ recent[m] # w
        BY <1>3, <1>9, <3>1
      <4> QED BY <1>1, <1>3, <2>1, <3>1, <4>1
    <3>2. CASE m = n + 1
      <4>1. m \in 1..n + 1 /\ ~(m <= n)
        BY <1>3, <3>2
      <4> QED BY <1>1, <1>9, <2>1, <3>2, <4>1
    <3>3. CASE m = 0 \/ m = n + 2
      BY <1>3, <2>1, <3>3
    <3> QED BY <1>3, <3>1, <3>2, <3>3
  <2>3. \A x \in Links :
           /\ links'[x].next = IF x = f THEN Ring[0] ELSE IF x = links[Ring[0]].prev THEN f ELSE links[x].next
           /\ links'[x].prev = IF x = f THEN links[Ring[0]].prev ELSE IF x = Ring[0] THEN f ELSE links[x].prev
    BY <1>3, <1>5, <1>6, <1>8
  <2>4. Ringed(Ring, n, links)
    OBVIOUS
  <2>5. LongerNodes(Ring', Ring, n, f)
    BY <2>2 DEF LongerNodes
  <2>6. LongerLinks(links', links, Ring, f)
    BY <2>3 DEF LongerLinks
  <2> HIDE DEF n, RingInv
  <2> QED BY <1>3, <1>4, <1>7, <2>4, <2>5, <2>6, RingLonger
<1>11. LruTypes'
  BY <1>1, <1>8 DEF LruTypes
<1>12. DOMAIN cache' = DOMAIN cache \union {w}
  BY <1>1
<1>13. RecentOK'
  <2>1. \A a, b \in 1..n + 1 : recent'[a] = recent'[b] => a = b
    <3>1. \A a \in 1..n : recent[a] # w
      BY <1>3
    <3>2. \A a \in 1..n + 1 : a \in 1..n \/ a = n + 1
      BY <1>3
    <3> QED BY <1>9, <3>1, <3>2, Zenon DEF RecentOK
  <2>2. DOMAIN cache' = {recent'[m] : m \in 1..n + 1}
    <3>1. DOMAIN cache = {recent[m] : m \in 1..n}
      BY Zenon DEF RecentOK
    <3>2. /\ \A a \in 1..n + 1 : a \in 1..n \/ a = n + 1
          /\ \A a \in 1..n : a \in 1..n + 1
          /\ n + 1 \in 1..n + 1
      BY <1>3
    <3>3. ASSUME NEW m \in 1..n + 1 PROVE recent'[m] \in DOMAIN cache'
      BY <1>9, <1>12, <3>1, <3>2
    <3>4. ASSUME NEW k \in DOMAIN cache' PROVE \E m \in 1..n + 1 : recent'[m] = k
      <4>1. CASE k = w
        BY <1>9, <3>2, <4>1
      <4>2. CASE k # w
        <5>1. PICK m \in 1..n : recent[m] = k
          BY <1>12, <3>1, <4>2
        <5> QED BY <1>9, <3>2, <5>1
      <4> QED BY <4>1, <4>2
    <3> HIDE DEF n, RingInv
    <3> QED BY <3>3, <3>4
  <2>3. IsFiniteSet(DOMAIN cache') /\ Cardinality(DOMAIN cache') = n + 1
    <3> DEFINE D == DOMAIN cache
    <3>1. IsFiniteSet(D) /\ Cardinality(D) = n
      BY Zenon DEF RecentOK
    <3>2. w \notin D
      OBVIOUS
    <3> HIDE DEF D
    <3>3. IsFiniteSet(D \union {w}) /\ Cardinality(D \union {w}) = Cardinality(D) + 1
      BY <3>1, <3>2, FS_AddElement
    <3> QED BY <1>12, <3>1, <3>3 DEF D
  <2>4. n + 1 <= maxsize
    BY <1>1, <1>3, LruAssumption
  <2> QED BY <1>9, <2>1, <2>2, <2>3, <2>4, Zenon DEF RecentOK
<1>14. CacheOK'
  <2>1. cache'[w] = f /\ \A k \in DOMAIN cache : cache'[k] = cache[k] /\ k # w
    BY <1>1
  <2>2. \A x \in Links : /\ links'[x].key = (IF x = f THEN w ELSE links[x].key)
                         /\ links'[x].result = (IF x = f THEN v ELSE links[x].result)
    BY <1>6, <1>8
  <2>3. \A k \in DOMAIN cache' : /\ cache'[k] \in Links /\ cache'[k] # root'
                                 /\ links'[cache'[k]].key = k /\ links'[cache'[k]].result = k
    BY <1>1, <1>2, <1>4, <1>12, <2>1, <2>2 DEF CacheOK
  <2>4. \A k, m \in DOMAIN cache' : cache'[k] = cache'[m] => k = m
    BY <1>4, <1>12, <2>1 DEF CacheOK
  <2> QED BY <2>3, <2>4 DEF CacheOK
<1>15. ValuesOK'
  BY DEF ValuesOK, LruTypes
<1> QED BY <1>9, <1>10, <1>11, <1>13, <1>14, <1>15

\* The oldest key goes; its link becomes the root, and the root the new key's link.
LEMMA EvictInv ==
  ASSUME RingInv, NEW t \in LruThreads, wrapPc[t] = "insert", wanted[t] \notin DOMAIN cache,
         wrapPc' = [wrapPc EXCEPT ![t] = "idle"], UNCHANGED <<wanted, computed>>, Evict(t)
  PROVE  RingInv'
<1> USE DEF RingInv
<1> DEFINE n == Len(recent)
           w == wanted[t]
           v == computed[t]
           oldest == links[root].next
           oldkey == links[oldest].key
<1>1. /\ n >= maxsize
      /\ links' = [links EXCEPT ![root].key = w, ![root].result = v,
                               ![oldest].key = NoKey, ![oldest].result = NoKey]
      /\ root' = oldest
      /\ cache' = [k \in (DOMAIN cache \ {oldkey}) \union {w} |-> IF k = w THEN root ELSE cache[k]]
      /\ recent' = Append(Tail(recent), w)
  BY Zenon DEF Evict, RecentOK
<1>2. w \in Keys /\ v = w /\ w \in Stored /\ NoKey \in Stored
  BY DEF ValuesOK, Stored
<1>3. /\ Apart(Ring, n) /\ Ring[0] = root /\ n \in Nat
      /\ \A j \in 1..n : Ring[j] = cache[recent[j]] /\ recent[j] \in DOMAIN cache
  BY RingApart
<1>4. n \in Nat \ {0} /\ 1 \in 1..n
  BY <1>1, <1>3, LruAssumption
<1>5. /\ oldest = Ring[1] /\ oldest = cache[recent[1]] /\ oldkey = recent[1] /\ oldest \in Links /\ oldest # root
      /\ oldkey \in DOMAIN cache
  <2>1. 0 \in 0..n /\ 0 + 1 = 1
    BY <1>3
  <2>2. links[Ring[0]].next = Ring[0 + 1]
    BY <2>1 DEF Ringed
  <2>3. oldest = cache[recent[1]] /\ recent[1] \in DOMAIN cache
    BY <1>3, <1>4, <2>1, <2>2
  <2> QED BY <1>3, <2>1, <2>2, <2>3 DEF CacheOK
<1> HIDE DEF oldest, oldkey
<1>6. links \in [Links -> LinkRecords] /\ root \in Links
  BY DEF LruTypes
<1>7. /\ links' \in [Links -> LinkRecords]
      /\ \A x \in Links :
           /\ links'[x].next = links[x].next /\ links'[x].prev = links[x].prev
           /\ links'[x].key = IF x = root THEN w ELSE IF x = oldest THEN NoKey ELSE links[x].key
           /\ links'[x].result = IF x = root THEN v ELSE IF x = oldest THEN NoKey ELSE links[x].result
  <2> DEFINE A == EntrySet(links, root, w, v)
  <2>1. links' = EntrySet(A, oldest, NoKey, NoKey)
    BY <1>1, <1>6 DEF EntrySet
  <2>2. /\ A \in [Links -> LinkRecords]
        /\ \A x \in Links : /\ A[x].next = links[x].next /\ A[x].prev = links[x].prev
                           /\ A[x].key = (IF x = root THEN w ELSE links[x].key)
                           /\ A[x].result = (IF x = root THEN v ELSE links[x].result)
    BY <1>2, <1>6, EntrySetView
  <2> HIDE DEF A
  <2>3. /\ links' \in [Links -> LinkRecords]
        /\ \A x \in Links :
             /\ links'[x].next = A[x].next /\ links'[x].prev = A[x].prev
             /\ links'[x].key = (IF x = oldest THEN NoKey ELSE A[x].key)
             /\ links'[x].result = (IF x = oldest THEN NoKey ELSE A[x].result)
    <3>1. A \in [Links -> LinkRecords]
      BY <2>2
    <3> QED BY <1>2, <1>5, <2>1, <3>1, EntrySetView
  <2> QED BY <1>5, <2>2, <2>3
<1>8. /\ recent' \in Seq(Keys) /\ Len(recent') = n /\ recent'[n] = w
      /\ \A m \in 1..n - 1 : recent'[m] = recent[m + 1]
  <2>1. recent \in Seq(Keys) /\ recent # <<>>
    <3>1. recent \in Seq(Keys)
      BY DEF RecentOK
    <3>2. n # 0
      BY <1>4
    <3> QED BY <3>1, <3>2
  <2>2. Tail(recent) \in Seq(Keys) /\ Len(Tail(recent)) = n - 1 /\ \A m \in 1..n - 1 : Tail(recent)[m] = recent[m + 1]
    BY <2>1
  <2> QED BY <1>1, <1>2, <1>3, <2>2
<1>9. Ringed(Ring', n, links')
  <2>1. Ring' = [m \in 0..n + 1 |-> IF m \in 1..n THEN cache'[recent'[m]] ELSE oldest]
    BY <1>1, <1>8 DEF Ring, Nodes
  <2>2. ASSUME NEW m \in 0..n + 1
        PROVE  Ring'[m] = IF m <= n THEN Ring[m + 1] ELSE Ring[1]
    <3>1. CASE m \in 1..n - 1
      <4>1. m \in 1..n /\ m + 1 \in 1..n /\ m <= n /\ m + 1 # 1
        BY <1>3, <3>1
      <4>2. recent'[m] = recent[m + 1] /\ recent[m + 1] \in DOMAIN cache /\ recent[m + 1] # w
        BY <1>3, <1>8, <3>1, <4>1
      <4>3. recent[m + 1] # oldkey
        BY <1>4, <1>5, <4>1, Zenon DEF RecentOK
      <4> QED BY <1>1, <1>3, <2>1, <4>1, <4>2, <4>3
    <3>2. CASE m = n
      <4>1. m \in 1..n /\ m <= n /\ Ring[n + 1] = root
        BY <1>3, <1>4, <3>2 DEF Apart
      <4> QED BY <1>1, <1>8, <2>1, <3>2, <4>1
    <3>3. CASE m = 0
      <4>1. m \notin 1..n /\ m <= n /\ m + 1 = 1
        BY <1>3, <3>3
      <4> QED BY <1>5, <2>1, <4>1
    <3>4. CASE m = n + 1
      <4>1. m \notin 1..n /\ ~(m <= n)
        BY <1>3, <3>4
      <4> QED BY <1>5, <2>1, <4>1
    <3> QED BY <1>3, <3>1, <3>2, <3>3, <3>4
  <2>3. Ringed(Ring, n, links)
    OBVIOUS
  <2>4. \A x \in Links : links'[x].next = links[x].next /\ links'[x].prev = links[x].prev
    BY <1>7
  <2>5. TurnedNodes(Ring', Ring, n)
    BY <2>2 DEF TurnedNodes
  <2>6. SameLinks(links', links)
    BY <2>4 DEF SameLinks
  <2> HIDE DEF n, RingInv
  <2> QED BY <1>3, <1>4, <2>3, <2>5, <2>6, RingTurned
<1>10. LruTypes'
  BY <1>1, <1>5, <1>7 DEF LruTypes
<1>11. DOMAIN cache' = (DOMAIN cache \ {oldkey}) \union {w}
  BY <1>1
<1>12. RecentOK'
  <2>1. \A a, b \in 1..n : recent'[a] = recent'[b] => a = b
    <3>1. \A a \in 1..n : recent[a] # w
      BY <1>3
    <3>2. \A a \in 1..n : (a \in 1..n - 1 /\ a + 1 \in 1..n) \/ a = n
      BY <1>3
    <3>3. \A a, b \in 1..n - 1 : recent[a + 1] = recent[b + 1] => a = b
      <4> SUFFICES ASSUME NEW a \in 1..n - 1, NEW b \in 1..n - 1, recent[a + 1] = recent[b + 1]
                   PROVE  a = b
        OBVIOUS
      <4>1. a + 1 \in 1..n /\ b + 1 \in 1..n
        BY <1>3
      <4>2. a + 1 = b + 1
        BY <4>1, Zenon DEF RecentOK
      <4> QED BY <4>2
    <3> QED BY <1>8, <3>1, <3>2, <3>3, Zenon
  <2>2. DOMAIN cache' = {recent'[m] : m \in 1..n}
    <3>1. DOMAIN cache = {recent[m] : m \in 1..n}
      BY DEF RecentOK
    <3>2. ASSUME NEW m \in 1..n PROVE recent'[m] \in DOMAIN cache'
      <4>1. CASE m = n
        BY <1>8, <1>11, <4>1
      <4>2. CASE m \in 1..n - 1
        <5>1. m + 1 \in 1..n /\ m + 1 # 1
          BY <1>3, <4>2
        <5>2. recent[m + 1] \in DOMAIN cache /\ recent[m + 1] # oldkey
          BY <1>3, <1>4, <1>5, <5>1, Zenon DEF RecentOK
        <5> QED BY <1>8, <1>11, <4>2, <5>2
      <4> QED BY <1>3, <4>1, <4>2
    <3>3. ASSUME NEW k \in DOMAIN cache' PROVE \E m \in 1..n : recent'[m] = k
      <4>1. CASE k = w
        <5>1. n \in 1..n
          BY <1>4
        <5> QED BY <1>8, <4>1, <5>1
      <4>2. CASE k # w
        <5>1. PICK m \in 1..n : recent[m] = k
          BY <1>11, <3>1, <4>2
        <5>2. m # 1
          BY <1>5, <1>11, <4>2, <5>1
        <5>3. m - 1 \in 1..n - 1 /\ m - 1 \in 1..n /\ (m - 1) + 1 = m
          BY <1>3, <5>2
        <5> QED BY <1>8, <5>1, <5>3
      <4> QED BY <4>1, <4>2
    <3> HIDE DEF n, RingInv
    <3> QED BY <3>2, <3>3
  <2>3. IsFiniteSet(DOMAIN cache') /\ Cardinality(DOMAIN cache') = n
    <3> DEFINE D == DOMAIN cache
    <3>1. IsFiniteSet(D) /\ Cardinality(D) = n
      BY DEF RecentOK
    <3>2. IsFiniteSet(D \ {oldkey}) /\ Cardinality(D \ {oldkey}) = n - 1
      BY <1>5, <3>1, FS_RemoveElement
    <3>3. w \notin D \ {oldkey}
      OBVIOUS
    <3>4. /\ IsFiniteSet((D \ {oldkey}) \union {w})
          /\ Cardinality((D \ {oldkey}) \union {w}) = (n - 1) + 1
      BY <3>2, <3>3, FS_AddElement
    <3>5. (n - 1) + 1 = n
      BY <1>3
    <3>6. DOMAIN cache' = (D \ {oldkey}) \union {w}
      BY <1>11
    <3> HIDE DEF D
    <3> QED BY <3>4, <3>5, <3>6, Zenon
  <2>4. n <= maxsize
    BY Zenon DEF RecentOK
  <2> QED BY <1>8, <2>1, <2>2, <2>3, <2>4, Zenon DEF RecentOK
<1>13. CacheOK'
  <2>1. \A k \in DOMAIN cache \ {oldkey} : cache[k] \in Links /\ cache[k] # root /\ cache[k] # oldest
    BY <1>5 DEF CacheOK
  <2>2. cache'[w] = root /\ \A k \in DOMAIN cache \ {oldkey} : cache'[k] = cache[k]
    BY <1>1
  <2> QED BY <1>1, <1>2, <1>5, <1>6, <1>7, <1>11, <2>1, <2>2 DEF CacheOK
<1>14. ValuesOK'
  BY DEF ValuesOK, LruTypes
<1> QED BY <1>8, <1>9, <1>10, <1>12, <1>13, <1>14

LEMMA ClearInv == ASSUME RingInv, CacheClear PROVE RingInv'
<1> USE DEF RingInv
<1>1. /\ cache' = <<>> /\ links' = [links EXCEPT ![root] = EmptyRoot] /\ recent' = <<>>
      /\ UNCHANGED <<root, wrapPc, wanted, computed>>
  BY DEF CacheClear
<1>2. EmptyRoot \in LinkRecords /\ EmptyRoot.next = root /\ EmptyRoot.prev = root
  BY DEF LruTypes, EmptyRoot, LinkRecords, Stored
<1>3. LruTypes'
  BY <1>1, <1>2 DEF LruTypes
<1>4. RecentOK' /\ CacheOK'
  <2>1. recent' \in Seq(Keys) /\ Len(recent') = 0
    BY <1>1
  <2>2. DOMAIN cache' = {}
    BY <1>1
  <2>3. IsFiniteSet({}) /\ Cardinality({}) = 0
    BY FS_EmptySet
  <2>4. 1..Len(recent') = {} /\ Len(recent') <= maxsize
    BY <2>1, LruAssumption
  <2>5. {recent'[m] : m \in 1..Len(recent')} = {}
    BY <2>4
  <2> QED BY <2>1, <2>2, <2>3, <2>4, <2>5, Zenon DEF RecentOK, CacheOK
<1>5. ValuesOK'
  BY <1>1 DEF ValuesOK
<1>6. links'[root] = EmptyRoot
  BY <1>1 DEF LruTypes
<1>7. Ringed(Ring', Len(recent'), links')
  BY <1>1, <1>2, <1>6 DEF Ringed, Ring, Nodes
<1> QED BY <1>3, <1>4, <1>5, <1>7

LEMMA LruStep == RingInv /\ [LruNext]_lruVars => RingInv'
<1> SUFFICES ASSUME RingInv, [LruNext]_lruVars PROVE RingInv'
  OBVIOUS
<1>1. ASSUME UNCHANGED lruVars PROVE RingInv'
  <2>1. LruTypes' /\ CacheOK'
    BY <1>1 DEF lruVars, RingInv, LruTypes, CacheOK
  <2>2. RecentOK'
    BY <1>1, Zenon DEF lruVars, RingInv, RecentOK
  <2>3. ValuesOK'
    BY <1>1 DEF lruVars, RingInv, ValuesOK
  <2>4. Ringed(Ring', Len(recent'), links')
    <3>1. Ring' = Ring /\ recent' = recent /\ links' = links
      BY <1>1 DEF lruVars, Ring
    <3> QED BY <3>1 DEF RingInv
  <2> QED BY <2>1, <2>2, <2>3, <2>4 DEF RingInv
<1>2. ASSUME NEW t \in LruThreads, Insert(t) PROVE RingInv'
  <2>1. /\ wrapPc[t] = "insert" /\ wrapPc' = [wrapPc EXCEPT ![t] = "idle"]
        /\ UNCHANGED <<wanted, computed>>
        /\ PutThere(t) \/ (wanted[t] \notin DOMAIN cache /\ (Evict(t) \/ InsertNew(t)))
    BY <1>2 DEF Insert
  <2>2. CASE PutThere(t)
    <3>1. /\ UNCHANGED <<cache, links, root, recent>> /\ ValuesOK'
          /\ wrapPc' \in [LruThreads -> {"idle", "get", "call", "insert"}]
          /\ wanted' \in [LruThreads -> Stored] /\ computed' \in [LruThreads -> Stored]
      BY <2>1, <2>2 DEF PutThere, RingInv, LruTypes, ValuesOK
    <3> QED BY <2>1, <3>1, CacheSame
  <2> QED BY <2>1, <2>2, EvictInv, InsertInv
<1> QED BY <1>1, <1>2, CallSteps, HitInv, ClearInv DEF LruNext

LEMMA LruAlways == LruSpec => []RingInv
BY LruInitial, LruStep, PTL DEF LruSpec

-----------------------------------------------------------------------------
(* LruCache: what a walk along the ring meets.                              *)

\* A walk from the root meets the links in the order of the ring.
WalksAlong(at, n, rt, ls) == at = [i \in 0..n + 1 |-> IF i = 0 THEN rt ELSE ls[at[i - 1]].next]
WalksBack(at, n, rt, ls) == at = [i \in 0..n + 1 |-> IF i = 0 THEN rt ELSE ls[at[i - 1]].prev]

LEMMA ForwardWalk ==
  ASSUME NEW n \in Nat, NEW N, NEW ls, NEW at, Ringed(N, n, ls),
         WalksAlong(at, n, N[0], ls)
  PROVE  \A i \in 0..n + 1 : at[i] = N[i]
<1> USE DEF WalksAlong
<1> DEFINE T == {i \in 0..n + 1 : at[i] # N[i]}
<1> SUFFICES ASSUME T # {} PROVE FALSE
  OBVIOUS
<1>1. PICK i \in T : \A j \in T : i <= j
  <2>1. T \subseteq Nat /\ T # {}
    BY 0..n + 1 \subseteq Nat
  <2> HIDE DEF T
  <2> QED BY <2>1, Least
<1>2. i \in 0..n + 1 /\ at[i] # N[i]
  BY <1>1
<1>3. i # 0
  BY <1>2
<1>4. i - 1 \in 0..n /\ (i - 1) + 1 = i /\ i - 1 \in 0..n + 1 /\ ~(i <= i - 1)
  BY <1>2, <1>3
<1>5. at[i - 1] = N[i - 1]
  BY <1>1, <1>4
<1>6. at[i] = ls[N[i - 1]].next
  BY <1>2, <1>3, <1>5
<1> QED BY <1>2, <1>4, <1>6 DEF Ringed

LEMMA BackwardWalk ==
  ASSUME NEW n \in Nat, NEW N, NEW ls, NEW at, Ringed(N, n, ls), N[n + 1] = N[0],
         WalksBack(at, n, N[0], ls)
  PROVE  \A i \in 0..n + 1 : at[i] = N[n + 1 - i]
<1> USE DEF WalksBack
<1> DEFINE T == {i \in 0..n + 1 : at[i] # N[n + 1 - i]}
<1> SUFFICES ASSUME T # {} PROVE FALSE
  OBVIOUS
<1>1. PICK i \in T : \A j \in T : i <= j
  <2>1. T \subseteq Nat /\ T # {}
    BY 0..n + 1 \subseteq Nat
  <2> HIDE DEF T
  <2> QED BY <2>1, Least
<1>2. i \in 0..n + 1 /\ at[i] # N[n + 1 - i]
  BY <1>1
<1>3. i # 0
  BY <1>2
<1>4. /\ n + 1 - i \in 0..n /\ n + 1 - (i - 1) = (n + 1 - i) + 1
      /\ i - 1 \in 0..n + 1 /\ ~(i <= i - 1)
  BY <1>2, <1>3
<1>5. at[i - 1] = N[n + 1 - (i - 1)]
  BY <1>1, <1>4
<1>6. at[i] = ls[N[(n + 1 - i) + 1]].prev
  BY <1>2, <1>3, <1>4, <1>5
<1> QED BY <1>2, <1>4, <1>6 DEF Ringed

\* The two walks of RingTrue.
LEMMA ForwardIsRing ==
  ASSUME RingInv
  PROVE  Forward = [i \in 1..Len(recent) + 1 |-> Ring[i]]
<1> DEFINE n == Len(recent)
           Walk(g) == g = [i \in 0..n + 1 |-> IF i = 0 THEN root ELSE links[g[i - 1]].next]
           at == CHOOSE g : Walk(g)
<1>1. n \in Nat /\ Ring[0] = root /\ Ringed(Ring, n, links)
  BY RingApart DEF RingInv
<1>2. Forward = [i \in 1..n + 1 |-> at[i]]
  BY DEF Forward
<1>3. \E g : Walk(g)
  <2> DEFINE g == [i \in 0..n + 1 |-> Ring[i]]
  <2>1. ASSUME NEW i \in 0..n + 1 PROVE g[i] = IF i = 0 THEN root ELSE links[g[i - 1]].next
    <3>1. CASE i = 0
      BY <1>1, <3>1
    <3>2. CASE i # 0
      <4>1. i - 1 \in 0..n /\ (i - 1) + 1 = i /\ i - 1 \in 0..n + 1
        BY <1>1, <3>2
      <4>2. links[Ring[i - 1]].next = Ring[i]
        BY <1>1, <4>1 DEF Ringed
      <4> QED BY <3>2, <4>1, <4>2
    <3> QED BY <3>1, <3>2
  <2>2. Walk(g)
    BY <2>1
  <2> QED BY <2>2
<1>4. Walk(at)
  BY <1>3, Zenon
<1> HIDE DEF at
<1>5. \A i \in 0..n + 1 : at[i] = Ring[i]
  <2>1. WalksAlong(at, n, Ring[0], links)
    BY <1>1, <1>4 DEF WalksAlong
  <2> HIDE DEF n
  <2> QED BY <1>1, <2>1, ForwardWalk
<1> QED BY <1>1, <1>2, <1>5

LEMMA BackwardIsRing ==
  ASSUME RingInv
  PROVE  Backward = [i \in 1..Len(recent) + 1 |-> Ring[Len(recent) + 1 - i]]
<1> DEFINE n == Len(recent)
           Walk(g) == g = [i \in 0..n + 1 |-> IF i = 0 THEN root ELSE links[g[i - 1]].prev]
           at == CHOOSE g : Walk(g)
<1>1. n \in Nat /\ Ring[0] = root /\ Ring[n + 1] = root /\ Ringed(Ring, n, links)
  BY RingApart DEF RingInv, Apart
<1>2. Backward = [i \in 1..n + 1 |-> at[i]]
  BY DEF Backward
<1>3. \E g : Walk(g)
  <2> DEFINE g == [i \in 0..n + 1 |-> Ring[n + 1 - i]]
  <2>1. ASSUME NEW i \in 0..n + 1 PROVE g[i] = IF i = 0 THEN root ELSE links[g[i - 1]].prev
    <3>1. CASE i = 0
      BY <1>1, <3>1
    <3>2. CASE i # 0
      <4>1. /\ n + 1 - i \in 0..n /\ n + 1 - (i - 1) = (n + 1 - i) + 1 /\ i - 1 \in 0..n + 1
        BY <1>1, <3>2
      <4>2. links[Ring[(n + 1 - i) + 1]].prev = Ring[n + 1 - i]
        BY <1>1, <4>1 DEF Ringed
      <4> QED BY <3>2, <4>1, <4>2
    <3> QED BY <3>1, <3>2
  <2>2. Walk(g)
    BY <2>1
  <2> QED BY <2>2
<1>4. Walk(at)
  BY <1>3, Zenon
<1> HIDE DEF at
<1>5. \A i \in 0..n + 1 : at[i] = Ring[n + 1 - i]
  <2>1. WalksBack(at, n, Ring[0], links)
    BY <1>1, <1>4 DEF WalksBack
  <2>2. Ring[n + 1] = Ring[0]
    BY <1>1
  <2> HIDE DEF n
  <2> QED BY <1>1, <2>1, <2>2, BackwardWalk
<1> QED BY <1>1, <1>2, <1>5

LEMMA RingIsTrue == RingInv => RingTrue
<1> SUFFICES ASSUME RingInv PROVE RingTrue
  OBVIOUS
<1> DEFINE n == Len(recent)
           along == [i \in 1..n |-> cache[recent[i]]]
           against == [i \in 1..n |-> cache[Reverse(recent)[i]]]
<1>1. /\ n \in Nat /\ Ring[n + 1] = root /\ Ring[0] = root
      /\ \A j \in 1..n : Ring[j] = cache[recent[j]]
  BY RingApart DEF RingInv, Apart
<1>2. /\ n = Cardinality(DOMAIN cache) /\ n <= maxsize
      /\ \A k \in DOMAIN cache : links[cache[k]].key = k /\ links[cache[k]].result = k
      /\ \A t \in LruThreads : computed[t] \in {wanted[t], NoKey}
  BY Zenon DEF RingInv, RecentOK, CacheOK, ValuesOK
<1>3. Append(along, root) = [i \in 1..n + 1 |-> IF i = n + 1 THEN root ELSE along[i]]
  BY <1>1
<1>4. Append(against, root) = [i \in 1..n + 1 |-> IF i = n + 1 THEN root ELSE against[i]]
  BY <1>1
<1>5. Forward = Append(along, root)
  BY <1>1, <1>3, ForwardIsRing
<1>6. Backward = Append(against, root)
  <2>1. ASSUME NEW i \in 1..n + 1
        PROVE  Ring[n + 1 - i] = IF i = n + 1 THEN root ELSE against[i]
    <3>1. CASE i = n + 1
      BY <1>1, <3>1
    <3>2. CASE i # n + 1
      <4>1. i \in 1..n /\ n + 1 - i \in 1..n /\ (n - i) + 1 = n + 1 - i
        BY <1>1, <3>2
      <4>2. Reverse(recent)[i] = recent[n + 1 - i]
        BY <4>1 DEF Reverse
      <4> QED BY <1>1, <3>2, <4>1, <4>2
    <3> QED BY <3>1, <3>2
  <2> QED BY <1>4, <2>1, BackwardIsRing
<1> QED BY <1>2, <1>5, <1>6 DEF RingTrue

\* The ring of links is the cache in the order of last use, both ways round, whatever
\* threads missed a key at once or cleared the cache while another computed.
THEOREM RingHolds == LruSpec => []RingTrue
BY LruAlways, RingIsTrue, PTL
=============================================================================
