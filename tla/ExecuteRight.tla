---------------------------- MODULE ExecuteRight ----------------------------
(***************************************************************************)
(* How user threads join and leave the checkpointing thread's array of     *)
(* contexts (cpmaster_t::init_userthreadctx, finalize_userthreadctx and    *)
(* the loop of checkpointing()).  One atomic flag, the execute right,      *)
(* serialises them with checkpoints, and a count of waiting threads makes  *)
(* the checkpointing thread stand back.                                    *)
(*                                                                         *)
(* Module Checkpointing takes registration to be one step between two      *)
(* checkpoints; this module shows the protocol that makes it so.           *)
(***************************************************************************)
EXTENDS Integers, Sequences, FiniteSets, SequencesExt

CONSTANT Threads   \* user threads

ASSUME ThreadsAssumption == IsFiniteSet(Threads)

VARIABLES
  execute_right,      \* _has_execute_right
  num_wait_threads,
  ctx_array,          \* a std::vector: the registered contexts in order
  ctx_delete_array,   \* contexts that have been finalized
  user_num,           \* the count of registered threads kept in NVM
  isPersisting,
  pc,                 \* what each user thread is doing
  reg,                \* user_num as add_user_num has loaded it
  cpc,                \* what the checkpointing thread is doing
  visit,              \* how many contexts its current loop has visited
  passed              \* history: checkpoints begun since the thread announced
                      \* itself, counted up to 2

vars == <<execute_right, num_wait_threads, ctx_array, ctx_delete_array,
          user_num, isPersisting, pc, reg, cpc, visit, passed>>

Registering == {"spin", "push", "load", "store", "sub"}
Leaving     == {"fspin", "fpush", "fsub"}
Waiting     == Registering \cup Leaving
Holding     == (Waiting \ {"spin", "fspin"}) \cup {"release", "frelease"}
Iterating   == {"checkpoint", "finalize"}

Init ==
  /\ execute_right = FALSE /\ num_wait_threads = 0
  /\ ctx_array = <<>> /\ ctx_delete_array = {}
  /\ user_num = 0 /\ isPersisting = TRUE
  /\ pc = [t \in Threads |-> "new"] /\ reg = [t \in Threads |-> 0]
  /\ cpc = "top" /\ visit = 0 /\ passed = [t \in Threads |-> 0]

Goto(t, l) == pc' = [pc EXCEPT ![t] = l]

\* has_execute_right: the compare-exchange succeeds.  A failure, also one for no
\* reason, as compare_exchange_weak allows, changes nothing.
\* Mutant: the flag is stored without a test.
has_execute_right_store == execute_right' = TRUE
has_execute_right == ~execute_right /\ execute_right' = TRUE
\* Mutant: the right is never given back.
release_execute_right_never == UNCHANGED execute_right
release_execute_right == execute_right' = FALSE

-----------------------------------------------------------------------------
(***************************************************************************)
(* init_userthreadctx and finalize_userthreadctx.                          *)
(***************************************************************************)
\* Mutant: the thread does not count itself in.
Announce_silent(t) ==
  /\ \/ pc[t] = "new" /\ isPersisting /\ Goto(t, "spin")
     \/ pc[t] = "run" /\ isPersisting /\ Goto(t, "fspin")
  /\ passed' = [passed EXCEPT ![t] = 0]
  /\ UNCHANGED <<execute_right, num_wait_threads, ctx_array, ctx_delete_array,
                 user_num, isPersisting, reg, cpc, visit>>

Announce(t) ==
  /\ \/ pc[t] = "new" /\ isPersisting /\ Goto(t, "spin")
     \/ pc[t] = "run" /\ isPersisting /\ Goto(t, "fspin")
  /\ num_wait_threads' = num_wait_threads + 1
  /\ passed' = [passed EXCEPT ![t] = 0]
  /\ UNCHANGED <<execute_right, ctx_array, ctx_delete_array, user_num,
                 isPersisting, reg, cpc, visit>>

Acquire(t) ==
  /\ \/ pc[t] = "spin"  /\ Goto(t, "push")
     \/ pc[t] = "fspin" /\ Goto(t, "fpush")
  /\ has_execute_right
  /\ UNCHANGED <<num_wait_threads, ctx_array, ctx_delete_array, user_num,
                 isPersisting, reg, cpc, visit, passed>>

PushBack(t) ==
  /\ pc[t] = "push" /\ Goto(t, "load")
  /\ ctx_array' = Append(ctx_array, t)
  /\ UNCHANGED <<execute_right, num_wait_threads, ctx_delete_array,
                 user_num, isPersisting, reg, cpc, visit, passed>>

\* nvmconfig_t::add_user_num, the load
AddUserNumLoad(t) ==
  /\ pc[t] = "load" /\ Goto(t, "store")
  /\ reg' = [reg EXCEPT ![t] = user_num]
  /\ UNCHANGED <<execute_right, num_wait_threads, ctx_array,
                 ctx_delete_array, user_num, isPersisting, cpc, visit, passed>>

\* nvmconfig_t::add_user_num, the store
AddUserNumStore(t) ==
  /\ pc[t] = "store" /\ Goto(t, "sub")
  /\ user_num' = reg[t] + 1
  /\ UNCHANGED <<execute_right, num_wait_threads, ctx_array,
                 ctx_delete_array, isPersisting, reg, cpc, visit, passed>>

\* finalize_userthreadctx: the context is noted as deleted and stays in ctx_array
PushDeleted(t) ==
  /\ pc[t] = "fpush" /\ Goto(t, "fsub")
  /\ ctx_delete_array' = ctx_delete_array \cup {t}
  /\ UNCHANGED <<execute_right, num_wait_threads, ctx_array, user_num,
                 isPersisting, reg, cpc, visit, passed>>

Withdraw(t) ==
  /\ \/ pc[t] = "sub"  /\ Goto(t, "release")
     \/ pc[t] = "fsub" /\ Goto(t, "frelease")
  /\ num_wait_threads' = num_wait_threads - 1
  /\ UNCHANGED <<execute_right, ctx_array, ctx_delete_array, user_num,
                 isPersisting, reg, cpc, visit, passed>>

Release(t) ==
  /\ \/ pc[t] = "release"  /\ Goto(t, "run")
     \/ pc[t] = "frelease" /\ Goto(t, "done")
  /\ release_execute_right
  /\ UNCHANGED <<num_wait_threads, ctx_array, ctx_delete_array, user_num,
                 isPersisting, reg, cpc, visit, passed>>

\* escort_finalize, called when no user thread is inside the library
Stop ==
  /\ isPersisting /\ \A t \in Threads : pc[t] \in {"new", "run", "done"}
  /\ isPersisting' = FALSE
  /\ UNCHANGED <<execute_right, num_wait_threads, ctx_array,
                 ctx_delete_array, user_num, pc, reg, cpc, visit, passed>>

-----------------------------------------------------------------------------
(***************************************************************************)
(* checkpointing().  The loops over ctx_array (waiting, logging,          *)
(* replaying, clearing) are one loop here.                                 *)
(***************************************************************************)
CpVars == <<num_wait_threads, ctx_array, ctx_delete_array, user_num,
            isPersisting, pc, reg>>

\* while(gv::isPersisting)
Top ==
  /\ cpc = "top"
  /\ cpc' = IF isPersisting THEN "spin" ELSE "finalize"
  /\ visit' = 0
  /\ UNCHANGED <<CpVars, execute_right, passed>>

CpAcquire ==
  /\ cpc = "spin" /\ has_execute_right
  /\ cpc' = "checkpoint"
  /\ visit' = 0
  /\ passed' = [t \in Threads |->
                  IF pc[t] \in Waiting /\ passed[t] < 2 THEN passed[t] + 1
                                                        ELSE passed[t]]
  /\ UNCHANGED CpVars

\* for(auto ctx: ctx_array), one context
Visit ==
  /\ cpc \in Iterating /\ visit < Len(ctx_array)
  /\ visit' = visit + 1
  /\ UNCHANGED <<CpVars, execute_right, cpc, passed>>

CpRelease ==
  /\ cpc = "checkpoint" /\ visit = Len(ctx_array)
  /\ release_execute_right
  /\ cpc' = "wait"
  /\ UNCHANGED <<CpVars, visit, passed>>

\* while(num_wait_threads > 0), after the sleep until the epoch is over
\* Mutant: the checkpointing thread does not stand back.
NoWaiters_ignored == TRUE
NoWaiters == num_wait_threads = 0
StandBack ==
  /\ cpc = "wait" /\ NoWaiters
  /\ cpc' = "top"
  /\ UNCHANGED <<CpVars, execute_right, visit, passed>>

\* finalize() takes no execute right
FinalizeDone ==
  /\ cpc = "finalize" /\ visit = Len(ctx_array)
  /\ cpc' = "ended"
  /\ UNCHANGED <<CpVars, execute_right, visit, passed>>

Ended == cpc = "ended" /\ UNCHANGED vars

User(t) == \/ Acquire(t) \/ PushBack(t) \/ AddUserNumLoad(t)
           \/ AddUserNumStore(t) \/ PushDeleted(t) \/ Withdraw(t) \/ Release(t)
Cp == Top \/ CpAcquire \/ Visit \/ CpRelease \/ StandBack \/ FinalizeDone

Next == \/ \E t \in Threads : Announce(t) \/ User(t)
        \/ Stop \/ Cp \/ Ended

Spec == Init /\ [][Next]_vars

(***************************************************************************)
(* Fairness: a running thread takes its next step.  A spin on the execute  *)
(* right gets only weak fairness: it may fail every time the right is      *)
(* taken and given back between two of its attempts.                       *)
(***************************************************************************)
FairSpec == /\ Spec
            /\ \A t \in Threads : WF_vars(User(t))
            /\ WF_vars(Cp)

-----------------------------------------------------------------------------
\* The type of every variable.
TypeOK ==
  /\ execute_right \in BOOLEAN /\ isPersisting \in BOOLEAN
  /\ num_wait_threads \in 0 .. Cardinality(Threads)
  /\ ctx_array \in Seq(Threads) /\ Len(ctx_array) <= Cardinality(Threads)
  /\ ctx_delete_array \subseteq Threads
  /\ user_num \in 0 .. Cardinality(Threads)
  /\ pc \in [Threads -> Waiting \cup Holding \cup {"new", "run", "done"}]
  /\ reg \in [Threads -> 0 .. Cardinality(Threads)]
  /\ cpc \in Iterating \cup {"top", "spin", "wait", "ended"}
  /\ visit \in 0 .. Cardinality(Threads)
  /\ passed \in [Threads -> 0 .. 2]

(***************************************************************************)
(* The array is never resized under the iterators of the checkpointing     *)
(* thread's loops, those of finalize() included, which runs without the    *)
(* execute right.                                                          *)
(***************************************************************************)
NoResizeWhileIterating ==
  [][(cpc \in Iterating) => UNCHANGED ctx_array]_vars

(***************************************************************************)
(* Whenever the execute right is free, user_num counts the registered      *)
(* threads, and each is registered once: add_user_num is a load and a      *)
(* store, and only the right keeps two of them apart.                      *)
(***************************************************************************)
UserNumCounts ==
  ~execute_right => /\ user_num = Len(ctx_array)
                         /\ Cardinality(ToSet(ctx_array)) = Len(ctx_array)
                         /\ ctx_delete_array \subseteq ToSet(ctx_array)

(***************************************************************************)
(* A thread that waits for the execute right sees at most one checkpoint   *)
(* begin ahead of it: the one whose stand-back was already over when the   *)
(* thread counted itself in.                                               *)
(***************************************************************************)
AtMostOneCheckpointPasses ==
  \A t \in Threads : pc[t] \in Waiting => passed[t] <= 1

(***************************************************************************)
(* escort_thread_init and escort_thread_finalize return: the checkpointing *)
(* thread cannot take the right again and again ahead of a waiting thread. *)
(***************************************************************************)
RegistrationReturns ==
  \A t \in Threads : /\ pc[t] = "spin" ~> pc[t] = "run"
                     /\ pc[t] = "fspin" ~> pc[t] = "done"

\* escort_finalize returns: the checkpointing thread it joins ends.
FinalizeReturns == ~isPersisting ~> cpc = "ended"
=============================================================================
