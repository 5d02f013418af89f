----------------------------- MODULE Singletons -----------------------------
(***************************************************************************)
(* Objects that are created on first use: muduo's Singleton, one for the   *)
(* process, and ThreadLocal and ThreadLocalSingleton, one for each thread  *)
(* (base/Singleton.h, ThreadLocal.h, ThreadLocalSingleton.h).              *)
(*                                                                         *)
(* pthread_once(), atexit() and the keys of thread-specific data are the   *)
(* system's: when a thread exits, a key with a value has it set to NULL    *)
(* and its destructor called; while destructors create new values this is  *)
(* repeated for all keys, ITERATIONS times at most.                        *)
(***************************************************************************)
EXTENDS Integers

CONSTANTS Worker, ITERATIONS   \* PTHREAD_DESTRUCTOR_ITERATIONS

ASSUME SingletonsAssumption == ITERATIONS \in Nat

Class == {"ThreadLocal", "ThreadLocalSingleton"}

VARIABLES phase,      \* of every thread: "running", "exiting", "gone"
          ponce_,     \* "init", "done", or the thread that runs init()
          value_,     \* Singleton::value_ is an object, not NULL
          made,       \* history: Singleton objects constructed
          inside,     \* threads in Singleton::instance()
          holds,      \* threads to which instance() returned a reference
          t_value_,   \* of every thread: ThreadLocalSingleton::t_value_ is set
          specific,   \* the value of each class's key in every thread is set
          live,       \* the objects of each class that every thread owns
          rounds,     \* the passes over the keys every exiting thread has begun
          due,        \* the keys it has not visited in this pass
          deleted     \* the ThreadLocal, and its key, are destroyed

sglVars == <<phase, ponce_, value_, made, inside, holds, t_value_, specific,
             live, rounds, due, deleted>>

onceVars == <<ponce_, value_, made, inside, holds>>
tlsVars == <<t_value_, specific, live, rounds, due, deleted>>

SglInit ==
  /\ phase = [t \in Worker |-> "running"]
  /\ ponce_ = "init" /\ value_ = FALSE /\ made = 0
  /\ inside = {} /\ holds = {}
  /\ t_value_ = [t \in Worker |-> FALSE]
  /\ specific = [k \in Class |-> [t \in Worker |-> FALSE]]
  /\ live = [k \in Class |-> [t \in Worker |-> 0]]
  /\ rounds = [t \in Worker |-> 0] /\ due = [t \in Worker |-> {}]
  /\ deleted = FALSE

-----------------------------------------------------------------------------
(* Singleton                                                               *)

CallInstance(t) ==
  /\ phase[t] = "running" /\ t \notin inside
  /\ inside' = inside \cup {t}
  /\ UNCHANGED <<phase, ponce_, value_, made, holds, tlsVars>>

\* pthread_once() lets one thread run init() ...
BeginInit(t) ==
  /\ t \in inside /\ ponce_ = "init"
  /\ ponce_' = t
  /\ UNCHANGED <<phase, value_, made, inside, holds, tlsVars>>

init(t) ==
  /\ ponce_ = t
  /\ value_' = TRUE /\ made' = made + 1
  /\ ponce_' = "done"
  /\ UNCHANGED <<phase, inside, holds, tlsVars>>

\* ... and holds the others up until it is done.
ReturnInstance(t) ==
  /\ t \in inside /\ ponce_ = "done" /\ value_
  /\ inside' = inside \ {t} /\ holds' = holds \cup {t}
  /\ UNCHANGED <<phase, ponce_, value_, made, tlsVars>>

\* exit() runs destroy(); the assert of instance() fails from then on.
destroy ==
  /\ ponce_ = "done" /\ value_
  /\ value_' = FALSE
  /\ UNCHANGED <<phase, ponce_, made, inside, holds, tlsVars>>

-----------------------------------------------------------------------------
(* ThreadLocal and ThreadLocalSingleton                                    *)

Active(t) == phase[t] \in {"running", "exiting"}

\* A thread that runs, or that is in the destructor of another key, asks for
\* its ThreadLocal ...
value(t) ==
  /\ Active(t) /\ ~deleted /\ ~specific["ThreadLocal"][t]
  /\ specific' = [specific EXCEPT !["ThreadLocal"][t] = TRUE]
  /\ live' = [live EXCEPT !["ThreadLocal"][t] = @ + 1]
  /\ UNCHANGED <<phase, onceVars, t_value_, rounds, due, deleted>>

\* ... or for its ThreadLocalSingleton.
instance(t) ==
  /\ Active(t) /\ ~t_value_[t]
  /\ t_value_' = [t_value_ EXCEPT ![t] = TRUE]
  /\ specific' = [specific EXCEPT !["ThreadLocalSingleton"][t] = TRUE]
  /\ live' = [live EXCEPT !["ThreadLocalSingleton"][t] = @ + 1]
  /\ UNCHANGED <<phase, onceVars, rounds, due, deleted>>

\* The system calls the destructor of key k in thread t, which deletes the
\* object.
VisitKey(k, t) ==
  /\ phase[t] = "exiting" /\ k \in due[t] /\ specific[k][t]
  /\ specific' = [specific EXCEPT ![k][t] = FALSE]
  /\ live' = [live EXCEPT ![k][t] = @ - 1]
  /\ due' = [due EXCEPT ![t] = @ \ {k}]
  /\ UNCHANGED <<phase, onceVars, rounds, deleted>>

\* ThreadLocal::destructor
destroyValue(t) == VisitKey("ThreadLocal", t) /\ UNCHANGED t_value_

\* t_value_ keeps pointing to the deleted object.
MutDestructor(t) == VisitKey("ThreadLocalSingleton", t) /\ UNCHANGED t_value_

\* ThreadLocalSingleton::destructor
destructor(t) ==
  /\ VisitKey("ThreadLocalSingleton", t)
  /\ t_value_' = [t_value_ EXCEPT ![t] = FALSE]

ThreadExit(t) ==
  /\ phase[t] = "running" /\ t \notin inside
  /\ phase' = [phase EXCEPT ![t] = "exiting"]
  /\ UNCHANGED <<onceVars, tlsVars>>

\* The pass is over: no key that is due has a value.
PassOver(t) == phase[t] = "exiting" /\ \A k \in due[t] : ~specific[k][t]

NextPass(t) ==
  /\ PassOver(t) /\ rounds[t] < ITERATIONS /\ \E k \in Class : specific[k][t]
  /\ due' = [due EXCEPT ![t] = Class]
  /\ rounds' = [rounds EXCEPT ![t] = @ + 1]
  /\ UNCHANGED <<phase, onceVars, t_value_, specific, live, deleted>>

ThreadGone(t) ==
  /\ PassOver(t) /\ (rounds[t] = ITERATIONS \/ \A k \in Class : ~specific[k][t])
  /\ phase' = [phase EXCEPT ![t] = "gone"]
  /\ UNCHANGED <<onceVars, tlsVars>>

\* ~ThreadLocal deletes the key, and no destructor is called for it any more.
DestroyThreadLocal ==
  /\ ~deleted
  /\ deleted' = TRUE
  /\ specific' = [specific EXCEPT !["ThreadLocal"] = [t \in Worker |-> FALSE]]
  /\ UNCHANGED <<phase, onceVars, t_value_, live, rounds, due>>

SglNext ==
  \/ \E t \in Worker : \/ CallInstance(t) \/ BeginInit(t) \/ init(t)
                       \/ ReturnInstance(t)
                       \/ value(t) \/ instance(t)
                       \/ destroyValue(t) \/ destructor(t)
                       \/ ThreadExit(t) \/ NextPass(t) \/ ThreadGone(t)
  \/ destroy \/ DestroyThreadLocal

SglSpec == SglInit /\ [][SglNext]_sglVars

-----------------------------------------------------------------------------
(* Properties                                                              *)

(* A Singleton is constructed once in the life of the process, also when   *)
(* it is asked for after destroy() has run, and instance() returns to no   *)
(* thread before the construction is over.                                 *)
ConstructedOnce == made <= 1 /\ (holds # {} => made = 1)

(* The key of a ThreadLocalSingleton and t_value_ say the same in every    *)
(* thread, which is what the asserts of Deleter::set and destructor rest   *)
(* on, also when destructors of other keys ask for the object again.       *)
KeyMatchesValue ==
  \A t \in Worker : specific["ThreadLocalSingleton"][t] = t_value_[t]

(* A thread owns at most one object of each class, and one that is gone    *)
(* has left none behind, unless destructors kept creating objects until    *)
(* the system gave up, or the ThreadLocal was destroyed before the thread  *)
(* was gone.                                                               *)
NoneLeftBehind ==
  \A t \in Worker, k \in Class :
    /\ live[k][t] \in 0..1
    /\ phase[t] = "gone" /\ rounds[t] < ITERATIONS /\ (k = "ThreadLocal" => ~deleted)
         => live[k][t] = 0

(* Objects made on first use are made once per process or thread, found    *)
(* again while they live, and destroyed when their thread ends.            *)
SingletonsSound == ConstructedOnce /\ KeyMatchesValue /\ NoneLeftBehind

=============================================================================
