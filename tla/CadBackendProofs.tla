-------------------------- MODULE CadBackendProofs --------------------------
(***************************************************************************)
(* Proofs about CadBackend for every set of threads and every bound: the   *)
(* cached variables agree, one provider is handed out, it is executed      *)
(* once, and an outcome is final.                                          *)
(***************************************************************************)
EXTENDS CadBackend, FiniteSetTheorems, TLAPS

USE DEF Return, Unavailable, Failed, States

Working == {"loading", "checking"}

(* Exactly the thread in the provider's code holds the lock, and while one  *)
(* is there nothing is decided.                                             *)
LockInv ==
    /\ \A t \in Threads : pc[t] \in Working <=> lock = t
    /\ lock # NoThread => state = "discovered" /\ runs # 0

(* Whatever was handed out is the cached provider. *)
HandedInv == \A h \in handed : h = backend /\ backend # 0

(* While nothing is decided and nobody executes the provider, it has not    *)
(* been executed.                                                           *)
RunsInv ==
    ~escaped /\ ~interrupted =>
        /\ runs <= 1
        /\ lock = NoThread /\ state \in {"None", "discovered"} => runs = 0

IndInv == TypeOK /\ CacheCoherent /\ LockInv /\ HandedInv /\ RunsInv

LEMMA InductiveInit == Init => IndInv
<1> SUFFICES ASSUME Init PROVE IndInv
  OBVIOUS
<1>1. enumerated \in BOOLEAN /\ escaped \in BOOLEAN /\ interrupted \in BOOLEAN
  BY Zenon DEF Init
<1>2. TypeOK
  BY <1>1 DEF Init, TypeOK
<1>3. CacheCoherent
  BY DEF Init, CacheCoherent
<1>4. LockInv /\ HandedInv /\ RunsInv
  BY BackendAssumption DEF Init, LockInv, HandedInv, RunsInv, Working
<1>5. QED
  BY <1>2, <1>3, <1>4 DEF IndInv

----------------------------------------------------------------------------
(* The helpers. *)

(* Discovery answers from the cache or fills an empty one. *)
LEMMA DiscoverFills ==
    ASSUME TypeOK, CacheCoherent, NEW found \in Found, Discover(found)
    PROVE  /\ enumerated' = TRUE
           /\ entry_point' \in {"None", "expected", "foreign"}
           /\ state' \in States
           /\ state' \in Failed \union {"ready"} => state' = state
           /\ state \notin {"None", "discovered"} => state' = state
           /\ state # "None" => state' = state
           /\ state' = IF enumerated THEN state ELSE StateOf(found)
  BY DEF TypeOK, CacheCoherent, Found, Discover, StateOf, EntryOf

----------------------------------------------------------------------------
(* One lemma per action. *)

LEMMA CallStep ==
    ASSUME IndInv, NEW t \in Threads, Call(t)
    PROVE  IndInv'
  BY DEF IndInv, TypeOK, CacheCoherent, LockInv, HandedInv, RunsInv, Working, Call,
         cacheVars, historyVars

LEMMA BackendStatusStep ==
    ASSUME IndInv, NEW t \in Threads, BackendStatus(t)
    PROVE  IndInv'
<1>1. PICK found \in Found : Discover(found)
  BY DEF BackendStatus
<1>2. TypeOK'
  BY <1>1, DiscoverFills DEF IndInv, TypeOK, BackendStatus, historyVars
<1>3. CacheCoherent'
  BY <1>1, DiscoverFills DEF IndInv, TypeOK, CacheCoherent, BackendStatus
<1>4. LockInv' /\ HandedInv' /\ RunsInv'
  BY <1>1, DiscoverFills
     DEF IndInv, TypeOK, LockInv, HandedInv, RunsInv, Working, BackendStatus, historyVars
<1>5. QED
  BY <1>2, <1>3, <1>4 DEF IndInv

LEMMA QueryRaisesStep ==
    ASSUME IndInv, NEW t \in Threads, QueryRaises(t)
    PROVE  IndInv'
  BY DEF IndInv, TypeOK, CacheCoherent, LockInv, HandedInv, RunsInv, Working, QueryRaises,
         cacheVars, historyVars

LEMMA LoadBackendStep ==
    ASSUME IndInv, NEW t \in Threads, LoadBackend(t)
    PROVE  IndInv'
<1> USE DEF IndInv
<1>0. PICK found \in Found :
        LET entry == IF enumerated THEN entry_point ELSE EntryOf(found)
            now   == IF enumerated THEN state ELSE StateOf(found)
        IN  \/ /\ backend # 0
               /\ Discover(found)
               /\ handed' = handed \union {backend}
               /\ Return(t)
               /\ UNCHANGED <<lock, failure, runs>>
            \/ /\ backend = 0
               /\ now \in Unavailable \union Failed
               /\ Discover(found)
               /\ Return(t)
               /\ UNCHANGED <<lock, failure, runs, handed>>
            \/ /\ backend = 0
               /\ now = "discovered"
               /\ entry = "foreign"
               /\ enumerated' = TRUE
               /\ entry_point' = entry
               /\ SetFailure("broken")
               /\ Return(t)
               /\ UNCHANGED <<lock, runs, handed>>
            \/ /\ backend = 0
               /\ now = "discovered"
               /\ entry = "expected"
               /\ Discover(found)
               /\ runs' = runs + 1
               /\ lock' = t
               /\ pc' = [pc EXCEPT ![t] = "loading"]
               /\ UNCHANGED <<failure, handed>>
  BY Zenon DEF LoadBackend
<1> DEFINE entry == IF enumerated THEN entry_point ELSE EntryOf(found)
           now   == IF enumerated THEN state ELSE StateOf(found)
<1>1. /\ pc[t] = "load"
      /\ lock = NoThread
      /\ UNCHANGED <<backend, escaped, interrupted, resets>>
  BY DEF LoadBackend
<1>2. CASE /\ backend # 0
           /\ Discover(found)
           /\ handed' = handed \union {backend}
           /\ Return(t)
           /\ UNCHANGED <<lock, failure, runs>>
  <2>1. TypeOK' /\ CacheCoherent'
    BY <1>1, <1>2, DiscoverFills DEF TypeOK, CacheCoherent
  <2>2. LockInv' /\ HandedInv' /\ RunsInv'
    BY <1>1, <1>2, DiscoverFills
       DEF TypeOK, CacheCoherent, LockInv, HandedInv, RunsInv, Working
  <2>3. QED
    BY <2>1, <2>2
<1>3. CASE /\ backend = 0
           /\ now \in Unavailable \union Failed
           /\ Discover(found)
           /\ Return(t)
           /\ UNCHANGED <<lock, failure, runs, handed>>
  <2>1. TypeOK' /\ CacheCoherent'
    BY <1>1, <1>3, DiscoverFills DEF TypeOK, CacheCoherent
  <2>2. LockInv' /\ HandedInv' /\ RunsInv'
    BY <1>1, <1>3, DiscoverFills
       DEF TypeOK, CacheCoherent, LockInv, HandedInv, RunsInv, Working
  <2>3. QED
    BY <2>1, <2>2
<1>4. CASE /\ backend = 0
           /\ now = "discovered"
           /\ entry = "foreign"
           /\ enumerated' = TRUE
           /\ entry_point' = entry
           /\ SetFailure("broken")
           /\ Return(t)
           /\ UNCHANGED <<lock, runs, handed>>
  <2>1. TypeOK' /\ CacheCoherent'
    BY <1>1, <1>4 DEF TypeOK, CacheCoherent, SetFailure
  <2>2. LockInv' /\ HandedInv' /\ RunsInv'
    BY <1>1, <1>4
       DEF TypeOK, CacheCoherent, LockInv, HandedInv, RunsInv, Working, SetFailure
  <2>3. QED
    BY <2>1, <2>2
<1>5. CASE /\ backend = 0
           /\ now = "discovered"
           /\ entry = "expected"
           /\ Discover(found)
           /\ runs' = runs + 1
           /\ lock' = t
           /\ pc' = [pc EXCEPT ![t] = "loading"]
           /\ UNCHANGED <<failure, handed>>
  <2>0. state \in {"None", "discovered"} /\ state' = "discovered"
    BY <1>5, DiscoverFills DEF TypeOK, CacheCoherent
  <2>1. enumerated' = TRUE /\ entry_point' \in {"None", "expected", "foreign"}
    BY <1>5, DiscoverFills
  <2>2. TypeOK'
    BY <1>1, <1>5, <2>0, <2>1 DEF TypeOK
  <2>3. CacheCoherent'
    BY <1>1, <1>5, <2>0, <2>1 DEF TypeOK, CacheCoherent
  <2>4. LockInv'
    BY <1>1, <1>5, <2>0, BackendAssumption DEF TypeOK, LockInv, Working
  <2>5. HandedInv' /\ RunsInv'
    BY <1>1, <1>5, <2>0, BackendAssumption DEF TypeOK, HandedInv, RunsInv
  <2>6. QED
    BY <2>2, <2>3, <2>4, <2>5
<1>6. QED
  BY <1>0, <1>2, <1>3, <1>4, <1>5

(* In the provider's code nothing has been handed out or decided. *)
LEMMA Undecided ==
    ASSUME IndInv, NEW t \in Threads, pc[t] \in Working
    PROVE  /\ lock = t
           /\ lock # NoThread
           /\ state = "discovered"
           /\ backend = 0
           /\ failure = "None"
           /\ handed = {}
           /\ enumerated
           /\ runs \in Nat \ {0}
  BY BackendAssumption DEF IndInv, TypeOK, CacheCoherent, LockInv, HandedInv, Working

LEMMA LeaveStep ==
    ASSUME IndInv, NEW t \in Threads, pc[t] \in Working, Leave(t)
    PROVE  /\ lock' = NoThread
           /\ pc' \in [Threads -> {"idle", "status", "load", "loading", "checking"}]
           /\ \A u \in Threads : pc'[u] \in Working <=> lock' = u
  BY BackendAssumption DEF IndInv, TypeOK, LockInv, Working, Leave

LEMMA FailStep ==
    ASSUME IndInv, NEW t \in Threads, pc[t] \in Working, Leave(t),
           NEW s \in Failed, SetFailure(s),
           UNCHANGED <<enumerated, entry_point, backend, historyVars>>
    PROVE  IndInv'
<1>1. TypeOK'
  BY LeaveStep DEF IndInv, TypeOK, SetFailure, historyVars
<1>2. CacheCoherent'
  BY Undecided DEF CacheCoherent, SetFailure
<1>3. LockInv' /\ HandedInv' /\ RunsInv'
  BY LeaveStep, Undecided DEF IndInv, LockInv, HandedInv, RunsInv, SetFailure, historyVars
<1>4. QED
  BY <1>1, <1>2, <1>3 DEF IndInv

LEMMA FinishStep ==
    ASSUME IndInv, NEW t \in Threads, Finish(t)
    PROVE  IndInv'
<1>1. CASE FactoryRaises(t)
  BY <1>1, FailStep DEF FactoryRaises, Working
<1>2. CASE ProviderRejected(t)
  <2>1. PICK s \in Failed : SetFailure(s)
    BY <1>2 DEF ProviderRejected
  <2>2. QED
    BY <1>2, <2>1, FailStep DEF ProviderRejected, Working
<1>3. CASE FactoryReturns(t)
  BY <1>3 DEF IndInv, TypeOK, CacheCoherent, LockInv, HandedInv, RunsInv, Working,
              FactoryReturns, cacheVars, historyVars
<1>4. CASE ProviderAccepted(t)
  <2>0. pc[t] \in Working /\ Leave(t)
    BY <1>4 DEF ProviderAccepted, Working
  <2>1. TypeOK'
    BY <1>4, <2>0, LeaveStep DEF IndInv, TypeOK, ProviderAccepted
  <2>2. CacheCoherent'
    BY <1>4, <2>0, Undecided DEF CacheCoherent, ProviderAccepted
  <2>3. LockInv' /\ HandedInv' /\ RunsInv'
    BY <1>4, <2>0, LeaveStep, Undecided
       DEF IndInv, LockInv, HandedInv, RunsInv, ProviderAccepted
  <2>4. QED
    BY <2>1, <2>2, <2>3 DEF IndInv
<1>5. QED
  BY <1>1, <1>2, <1>3, <1>4 DEF Finish

LEMMA EscapeStep ==
    ASSUME IndInv, NEW t \in Threads, LoadInterrupted(t) \/ AttributeRaises(t)
    PROVE  IndInv'
<1>1. pc[t] \in Working /\ Leave(t) /\ UNCHANGED <<cacheVars, runs, handed, resets>>
  BY DEF LoadInterrupted, AttributeRaises, Working
<1>2. escaped' \in BOOLEAN /\ interrupted' \in BOOLEAN /\ (escaped' \/ interrupted')
  BY DEF IndInv, TypeOK, LoadInterrupted, AttributeRaises
<1>3. TypeOK'
  BY <1>1, <1>2, LeaveStep DEF IndInv, TypeOK, cacheVars
<1>4. CacheCoherent' /\ LockInv' /\ HandedInv' /\ RunsInv'
  BY <1>1, <1>2, LeaveStep DEF IndInv, CacheCoherent, LockInv, HandedInv, RunsInv, cacheVars
<1>5. QED
  BY <1>3, <1>4 DEF IndInv

LEMMA ResetStep ==
    ASSUME IndInv, ResetForTests
    PROVE  IndInv'
<1>1. enumerated' \in BOOLEAN /\ escaped' \in BOOLEAN /\ interrupted' \in BOOLEAN
  BY Zenon DEF ResetForTests
<1>2. TypeOK'
  BY <1>1 DEF IndInv, TypeOK, ResetForTests
<1>3. CacheCoherent'
  BY DEF CacheCoherent, ResetForTests
<1>4. LockInv' /\ HandedInv' /\ RunsInv'
  BY DEF IndInv, LockInv, HandedInv, RunsInv, Working, ResetForTests
<1>5. QED
  BY <1>2, <1>3, <1>4 DEF IndInv

----------------------------------------------------------------------------
(* The theorems. *)

LEMMA InductiveStep == IndInv /\ [Next]_vars => IndInv'
<1> SUFFICES ASSUME IndInv, [Next]_vars PROVE IndInv'
  OBVIOUS
<1>1. ASSUME NEW t \in Threads,
             \/ Call(t) \/ BackendStatus(t) \/ QueryRaises(t) \/ LoadBackend(t)
             \/ Finish(t) \/ LoadInterrupted(t) \/ AttributeRaises(t)
      PROVE  IndInv'
  BY <1>1, CallStep, BackendStatusStep, QueryRaisesStep, LoadBackendStep, FinishStep, EscapeStep
<1>2. CASE UNCHANGED vars
  BY <1>2 DEF IndInv, TypeOK, CacheCoherent, LockInv, HandedInv, RunsInv, vars, cacheVars,
              historyVars
<1>3. QED
  BY <1>1, <1>2, ResetStep DEF Next

LEMMA InductiveInvariant == Spec => []IndInv
  BY InductiveInit, InductiveStep, PTL DEF Spec

(* The module's globals and every thread's place keep their types. *)
THEOREM TypeCorrect == Spec => []TypeOK
  BY InductiveInvariant, PTL DEF IndInv

(* _ENUMERATED, _STATUS, _BACKEND and _FAILURE tell one story. *)
THEOREM Coherence == Spec => []CacheCoherent
  BY InductiveInvariant, PTL DEF IndInv

(* All callers of _load_backend() get the same object. *)
THEOREM SingleProvider == Spec => []OneProvider
<1>1. IndInv => OneProvider
  <2> SUFFICES ASSUME IndInv PROVE Cardinality(handed) <= 1
    BY DEF OneProvider
  <2>1. handed = {} \/ handed = {backend}
    BY DEF IndInv, HandedInv
  <2>2. Cardinality({}) = 0 /\ Cardinality({backend}) = 1
    BY FS_EmptySet, FS_Singleton, Zenon
  <2>3. QED
    BY <2>1, <2>2
<1>2. QED
  BY <1>1, InductiveInvariant, PTL

(* The factory runs once, unless an interrupt or a raising attribute left   *)
(* nothing cached.                                                          *)
THEOREM SingleRun == Spec => []FactoryRunsOnce
<1>1. IndInv => FactoryRunsOnce
  BY DEF IndInv, RunsInv, FactoryRunsOnce
<1>2. QED
  BY <1>1, InductiveInvariant, PTL

(* The outcome of discovery or loading stays, until the test hook. *)
THEOREM FinalOutcome == Spec => OutcomeIsFinal
<1>1. ASSUME IndInv, [Next]_vars
      PROVE  [state \notin {"None", "discovered"} => state' = state \/ ResetForTests]_vars
  <2> SUFFICES ASSUME state \notin {"None", "discovered"}, ~ResetForTests, Next
               PROVE  state' = state
    BY <1>1
  <2>1. PICK t \in Threads :
            \/ Call(t) \/ BackendStatus(t) \/ QueryRaises(t) \/ LoadBackend(t)
            \/ Finish(t) \/ LoadInterrupted(t) \/ AttributeRaises(t)
    BY DEF Next
  <2>2. pc[t] \notin Working
    BY <1>1, Undecided
  <2>3. enumerated /\ state # "None"
    BY <1>1 DEF IndInv, CacheCoherent
  <2>4. CASE BackendStatus(t) \/ LoadBackend(t)
    BY <2>3, <2>4 DEF BackendStatus, LoadBackend, Discover
  <2>5. CASE Call(t) \/ QueryRaises(t)
    BY <2>5 DEF Call, QueryRaises, cacheVars
  <2>6. ~(Finish(t) \/ LoadInterrupted(t) \/ AttributeRaises(t))
    BY <2>2 DEF Finish, FactoryRaises, FactoryReturns, ProviderAccepted, ProviderRejected,
                LoadInterrupted, AttributeRaises, Working
  <2>7. QED
    BY <2>1, <2>4, <2>5, <2>6
<1>2. QED
  BY <1>1, InductiveInvariant, PTL DEF Spec, OutcomeIsFinal
=============================================================================
