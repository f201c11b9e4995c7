----------------------------- MODULE CadBackend -----------------------------
(***************************************************************************)
(* Discovery and loading of the optional CAD provider, cached for the life *)
(* of the process (src/src/anyfileio/cad_backend.py).  Every entry takes   *)
(* the module's _LOCK; _load_backend() keeps it while the provider's entry *)
(* point, factory and attributes run, so that is where it is split into    *)
(* steps.  The provider itself is the environment: each import, factory    *)
(* call and attribute may raise, be interrupted, or give an object of any  *)
(* Verdict.  It is assumed not to call back into the loader.               *)
(***************************************************************************)
EXTENDS Naturals, FiniteSets

CONSTANTS
    Threads,   \* the callers of backend_status() and _load_backend()
    NoThread,  \* the holder of a free _LOCK
    MaxRuns,   \* bound: this execution of the provider ends in an outcome
    MaxResets  \* bound: uses of the test hook

ASSUME BackendAssumption ==
    /\ NoThread \notin Threads
    /\ MaxRuns \in Nat \ {0}
    /\ MaxResets \in Nat

VARIABLES
    lock,         \* the holder of _LOCK
    enumerated,   \* _ENUMERATED
    entry_point,  \* _ENTRY_POINT: "None", or is its target the "expected" one?
    state,        \* _STATUS.state, "None" while _STATUS is None
    backend,      \* _BACKEND: 0 for None, or the factory run that made it
    failure,      \* _FAILURE: "None" or the state it reports
    pc,           \* where each thread stands in _load_backend()
    (* history *)
    runs,         \* executions of entry point and factory
    handed,       \* the objects _load_backend() has returned
    escaped,      \* did a provider attribute's exception escape uncached?
    interrupted,  \* did an interrupt end an execution?
    resets        \* uses of the test hook

cacheVars == <<enumerated, entry_point, state, backend, failure>>
historyVars == <<runs, handed, escaped, interrupted, resets>>
vars == <<lock, cacheVars, pc, historyVars>>

Unavailable == {"missing", "duplicate"}
Failed == {"broken", "incompatible"}
States == {"discovered", "ready"} \union Unavailable \union Failed

TypeOK ==
    /\ lock \in Threads \union {NoThread}
    /\ enumerated \in BOOLEAN
    /\ entry_point \in {"None", "expected", "foreign"}
    /\ state \in States \union {"None"}
    /\ backend \in Nat
    /\ failure \in Failed \union {"None"}
    /\ pc \in [Threads -> {"idle", "status", "load", "loading", "checking"}]
    /\ runs \in Nat
    /\ handed \subseteq Nat
    /\ escaped \in BOOLEAN
    /\ interrupted \in BOOLEAN
    /\ resets \in Nat

Init ==
    /\ lock = NoThread
    /\ enumerated = FALSE
    /\ entry_point = "None"
    /\ state = "None"
    /\ backend = 0
    /\ failure = "None"
    /\ pc = [t \in Threads |-> "idle"]
    /\ runs = 0
    /\ handed = {}
    /\ escaped = FALSE
    /\ interrupted = FALSE
    /\ resets = 0

----------------------------------------------------------------------------
(* What one metadata query can find: no entry point, several, or one whose  *)
(* target and distribution are the expected ones or are foreign.  A query   *)
(* that raises leaves _ENUMERATED unset, so the next call queries again.    *)
Found == {"none", "several", "expected", "foreign"}

(* Mutant: the state is what was counted. *)
StateAsCounted(found) == IF found = "none" THEN "missing" ELSE found

StateOf(found) ==
    CASE found = "none"    -> "missing"
      [] found = "several" -> "duplicate"
      [] OTHER             -> "discovered"

EntryOf(found) == IF found \in {"expected", "foreign"} THEN found ELSE "None"

(* Mutant: no `if _ENUMERATED`. *)
DiscoverEveryTime(found) ==
    /\ enumerated' = TRUE
    /\ entry_point' = EntryOf(found)
    /\ state' = StateOf(found)

(* _discover_locked(): query once, then answer from the cache. *)
Discover(found) ==
    \/ /\ enumerated
       /\ UNCHANGED <<enumerated, entry_point, state>>
    \/ /\ ~enumerated
       /\ enumerated' = TRUE
       /\ entry_point' = EntryOf(found)
       /\ state' = StateOf(found)

(* A thread calls backend_status() or _load_backend(), and blocks on _LOCK. *)
Call(t) ==
    /\ pc[t] = "idle"
    /\ \E entry \in {"status", "load"} : pc' = [pc EXCEPT ![t] = entry]
    /\ UNCHANGED <<lock, cacheVars, historyVars>>

Return(t) == pc' = [pc EXCEPT ![t] = "idle"]

BackendStatus(t) ==
    /\ pc[t] = "status"
    /\ lock = NoThread
    /\ \E found \in Found : Discover(found)
    /\ Return(t)
    /\ UNCHANGED <<lock, backend, failure, historyVars>>

(* metadata.entry_points() raises: out of either entry, nothing changed. *)
QueryRaises(t) ==
    /\ pc[t] \in {"status", "load"}
    /\ lock = NoThread
    /\ ~enumerated
    /\ Return(t)
    /\ UNCHANGED <<lock, cacheVars, historyVars>>

(* Mutants: a failure that is not cached, or only half of it. *)
ForgetFailure(s) == UNCHANGED <<state, failure>>

FailureWithoutStatus(s) ==
    /\ failure' = s
    /\ UNCHANGED state

(* _set_broken_status() and its twin for an incompatible provider. *)
SetFailure(s) ==
    /\ state' = s
    /\ failure' = s

(* _load_backend() up to the provider's own code.  A cached provider is     *)
(* returned, a cached failure raised; a foreign entry point is broken       *)
(* without being loaded; else the thread runs the entry point, lock held.   *)
LoadBackend(t) ==
    /\ pc[t] = "load"
    /\ lock = NoThread
    /\ \E found \in Found :
          LET entry == IF enumerated THEN entry_point ELSE EntryOf(found)
              now   == IF enumerated THEN state ELSE StateOf(found)
          IN  \/ /\ backend # 0
                 /\ Discover(found)
                 /\ handed' = handed \union {backend}
                 /\ Return(t)
                 /\ UNCHANGED <<lock, failure, runs>>
              \/ /\ backend = 0
                 /\ now \in Unavailable \union Failed
                 /\ Discover(found)
                 /\ Return(t)
                 /\ UNCHANGED <<lock, failure, runs, handed>>
              \/ /\ backend = 0
                 /\ now = "discovered"
                 /\ entry = "foreign"
                 /\ enumerated' = TRUE
                 /\ entry_point' = entry
                 /\ SetFailure("broken")
                 /\ Return(t)
                 /\ UNCHANGED <<lock, runs, handed>>
              \/ /\ backend = 0
                 /\ now = "discovered"
                 /\ entry = "expected"
                 /\ Discover(found)
                 /\ runs' = runs + 1
                 /\ lock' = t
                 /\ pc' = [pc EXCEPT ![t] = "loading"]
                 /\ UNCHANGED <<failure, handed>>
    /\ UNCHANGED <<backend, escaped, interrupted, resets>>

(* Mutant: the lock stays taken. *)
LeaveLocked(t) ==
    /\ UNCHANGED lock
    /\ Return(t)

(* Leaving _load_backend() gives the lock up. *)
Leave(t) ==
    /\ lock' = NoThread
    /\ Return(t)

(* entry_point.load() or factory() raises, or the target is not callable. *)
FactoryRaises(t) ==
    /\ pc[t] = "loading"
    /\ SetFailure("broken")
    /\ Leave(t)
    /\ UNCHANGED <<enumerated, entry_point, backend, historyVars>>

FactoryReturns(t) ==
    /\ pc[t] = "loading"
    /\ pc' = [pc EXCEPT ![t] = "checking"]
    /\ UNCHANGED <<lock, cacheVars, historyVars>>

(* A KeyboardInterrupt in the provider's import or factory is no Exception: *)
(* it passes through and nothing is cached.                                 *)
LoadInterrupted(t) ==
    /\ pc[t] = "loading"
    /\ runs < MaxRuns
    /\ interrupted' = TRUE
    /\ Leave(t)
    /\ UNCHANGED <<cacheVars, runs, handed, escaped, resets>>

(* Mutant: the accepted provider is returned and not kept. *)
ProviderAcceptedUncached(t) ==
    /\ pc[t] = "checking"
    /\ handed' = handed \union {runs}
    /\ Leave(t)
    /\ UNCHANGED <<cacheVars, runs, escaped, interrupted, resets>>

(* The identity, version, capability and call-shape checks of the new       *)
(* object; run `runs` made it.  A property of the provider that raises      *)
(* anything but AttributeError escapes between the two try blocks.          *)
ProviderAccepted(t) ==
    /\ pc[t] = "checking"
    /\ backend' = runs
    /\ state' = "ready"
    /\ handed' = handed \union {runs}
    /\ Leave(t)
    /\ UNCHANGED <<enumerated, entry_point, failure, runs, escaped, interrupted, resets>>

ProviderRejected(t) ==
    /\ pc[t] = "checking"
    /\ \E s \in Failed : SetFailure(s)
    /\ Leave(t)
    /\ UNCHANGED <<enumerated, entry_point, backend, historyVars>>

AttributeRaises(t) ==
    /\ pc[t] = "checking"
    /\ runs < MaxRuns
    /\ escaped' = TRUE
    /\ Leave(t)
    /\ UNCHANGED <<cacheVars, runs, handed, interrupted, resets>>

(* _reset_backend_cache_for_tests() starts the process's history anew. *)
ResetForTests ==
    /\ lock = NoThread
    /\ resets < MaxResets
    /\ resets' = resets + 1
    /\ enumerated' = FALSE
    /\ entry_point' = "None"
    /\ state' = "None"
    /\ backend' = 0
    /\ failure' = "None"
    /\ runs' = 0
    /\ handed' = {}
    /\ escaped' = FALSE
    /\ interrupted' = FALSE
    /\ UNCHANGED <<lock, pc>>

Finish(t) ==
    FactoryRaises(t) \/ FactoryReturns(t) \/ ProviderAccepted(t) \/ ProviderRejected(t)

Next ==
    \/ \E t \in Threads :
          \/ Call(t) \/ BackendStatus(t) \/ QueryRaises(t) \/ LoadBackend(t)
          \/ Finish(t) \/ LoadInterrupted(t) \/ AttributeRaises(t)
    \/ ResetForTests

Spec == Init /\ [][Next]_vars

(* The provider's code comes to an end and a blocked thread gets a free     *)
(* lock.  Nothing makes a thread call.                                      *)
FairSpec ==
    /\ Spec
    /\ \A t \in Threads :
          /\ WF_vars(BackendStatus(t))
          /\ WF_vars(LoadBackend(t))
          /\ WF_vars(Finish(t))

----------------------------------------------------------------------------
(* Properties. *)

(* The five process-global variables tell one story: a status exists once   *)
(* discovery ran, "ready" means a provider is cached and nothing else does, *)
(* and a cached failure is the one the status reports, whatever sequence of *)
(* status queries, loads, provider failures and interrupts came before.     *)
CacheCoherent ==
    /\ enumerated <=> state # "None"
    /\ state = "ready" <=> backend # 0
    /\ failure = IF state \in Failed THEN state ELSE "None"

(* Every caller of _load_backend() that gets a provider gets the same one.  *)
OneProvider == Cardinality(handed) <= 1

(* The provider's entry point and factory are executed once in a process,   *)
(* whether they succeed or fail, unless an interrupt or a raising attribute *)
(* of the provider ended the execution with nothing cached.                 *)
FactoryRunsOnce == ~escaped /\ ~interrupted => runs <= 1

(* Once discovery or loading has an outcome no later call changes it, even  *)
(* when the installed distributions change underneath; only the test hook   *)
(* starts over.                                                             *)
OutcomeIsFinal ==
    [][state \notin {"None", "discovered"} => state' = state \/ ResetForTests]_vars

(* Every call returns or raises, also the one that finds the lock taken by  *)
(* a thread in the provider's code, provided that the provider is not       *)
(* interrupted for ever.                                                    *)
CallsReturn == \A t \in Threads : pc[t] # "idle" ~> pc[t] = "idle"

(* docs/CAD_BACKEND_CONTRACT.md:64-66: the loaded provider or its terminal  *)
(* failure is cached so that repeated calls do not execute broken import    *)
(* code again.                                                              *)
BrokenCodeRunsOnce == ~interrupted => runs <= 1
============================================================================
