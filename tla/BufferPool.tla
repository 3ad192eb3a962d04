----------------------------- MODULE BufferPool -----------------------------
(***************************************************************************)
(* Dynamic buffer pools (src/src/execution/buffer.c) that grow on demand   *)
(* against a two-level memory budget (src/src/memory_budget.h): one child  *)
(* budget per pool, all under one root.                                    *)
(*                                                                         *)
(* A pool operation is one section of pool->lock; growing a buffer happens *)
(* outside the lock, and every budget counter is changed by a CAS loop of  *)
(* its own, so a reservation is two steps (root, then child) and so is a   *)
(* release (child, then root).  Threads interleave between all of them.    *)
(***************************************************************************)
EXTENDS Naturals, Sequences, FiniteSets, FiniteSetsExt

CONSTANTS Threads, Pools, Root,
          BufferCount,      \* buffers (descriptors) of a pool
          MaxSize,          \* max_buffer_size
          RootLimit, ChildLimit,
          MaxAcquires       \* bound: acquire calls

Buffers == 1 .. BufferCount
Budgets == Pools \cup {Root}
Limit(b) == IF b = Root THEN RootLimit ELSE ChildLimit

ASSUME PoolAssumption ==
  /\ IsFiniteSet(Threads) /\ IsFiniteSet(Pools) /\ Root \notin Pools
  /\ BufferCount \in Nat \ {0} /\ MaxSize \in Nat \ {0}
  /\ RootLimit \in Nat /\ ChildLimit \in Nat /\ MaxAcquires \in Nat
  \* init_dynamic_budgeted has reserved the descriptors of every pool
  /\ BufferCount <= ChildLimit /\ BufferCount * Cardinality(Pools) <= RootLimit

VARIABLES
  current,    \* current_bytes of each budget
  checked_out, capacity,   \* per pool and buffer
  free_list,  \* per pool: free buffers, a stack
  closed, destroyed,       \* per pool
  thread,     \* per thread: control state, pool, buffer, bytes in transit
  owed,       \* per pool: bytes destroy() still has to give back, piecewise
  acquires    \* acquire calls so far

poolVars == <<checked_out, capacity, free_list, closed, destroyed, owed>>
bufferVars == <<current, poolVars, thread, acquires>>

Idle == [pc |-> "idle", pool |-> Root, buffer |-> 0, bytes |-> 0, want |-> 0]

\* A descriptor is accounted as one byte.
DescriptorBytes == BufferCount

PoolInit ==
  /\ current = [b \in Budgets |-> IF b = Root
                  THEN DescriptorBytes * Cardinality(Pools) ELSE DescriptorBytes]
  /\ checked_out = [p \in Pools |-> [i \in Buffers |-> FALSE]]
  /\ capacity = [p \in Pools |-> [i \in Buffers |-> 0]]
  /\ free_list = [p \in Pools |-> [i \in 1 .. BufferCount |-> BufferCount + 1 - i]]
  /\ closed = [p \in Pools |-> FALSE] /\ destroyed = [p \in Pools |-> FALSE]
  /\ thread = [t \in Threads |-> Idle]
  /\ owed = [p \in Pools |-> <<>>] /\ acquires = 0

Goto(t, pc) == thread' = [thread EXCEPT ![t].pc = pc]

-----------------------------------------------------------------------------
(* memory_budget.h                                                         *)

Admits(b, bytes) == current[b] + bytes <= Limit(b)

tr_memory_budget_reserve_local(b, bytes) ==
  current' = [current EXCEPT ![b] = @ + bytes]

tr_memory_budget_release_local(b, bytes) ==
  current' = [current EXCEPT ![b] = IF @ < bytes THEN @ ELSE @ - bytes]

\* tr_memory_budget_reserve(pool's budget): the root first, then the child,
\* and the root again when the child refuses.
ReserveRoot(t) ==
  /\ thread[t].pc = "reserve"
  /\ IF Admits(Root, thread[t].bytes)
       THEN tr_memory_budget_reserve_local(Root, thread[t].bytes)
            /\ Goto(t, "reserve_child")
       ELSE Goto(t, "unwind") /\ UNCHANGED current
  /\ UNCHANGED <<poolVars, acquires>>

ReserveChildKeepsRoot(t) ==
  /\ thread[t].pc = "reserve_child"
  /\ IF Admits(thread[t].pool, thread[t].bytes)
       THEN tr_memory_budget_reserve_local(thread[t].pool, thread[t].bytes)
            /\ Goto(t, "realloc")
       ELSE Goto(t, "unwind") /\ UNCHANGED current
  /\ UNCHANGED <<poolVars, acquires>>

ReserveChild(t) ==
  /\ thread[t].pc = "reserve_child"
  /\ IF Admits(thread[t].pool, thread[t].bytes)
       THEN tr_memory_budget_reserve_local(thread[t].pool, thread[t].bytes)
            /\ Goto(t, "realloc")
       ELSE Goto(t, "release_root") /\ UNCHANGED current
  /\ UNCHANGED <<poolVars, acquires>>

\* tr_memory_budget_release, for a failed realloc: child, then root.
ReleaseChild(t) ==
  /\ thread[t].pc = "release_child"
  /\ tr_memory_budget_release_local(thread[t].pool, thread[t].bytes)
  /\ Goto(t, "release_root")
  /\ UNCHANGED <<poolVars, acquires>>

ReleaseRoot(t) ==
  /\ thread[t].pc = "release_root"
  /\ tr_memory_budget_release_local(Root, thread[t].bytes)
  /\ Goto(t, "unwind")
  /\ UNCHANGED <<poolVars, acquires>>

-----------------------------------------------------------------------------
(* buffer.c                                                                *)

\* acquire: take a descriptor under the lock; grow it afterwards when its
\* retained storage is too small.
tr_buffer_acquire(t, p, min_capacity) ==
  /\ thread[t].pc = "idle" /\ acquires < MaxAcquires
  /\ ~destroyed[p]
  /\ acquires' = acquires + 1
  /\ IF closed[p] \/ free_list[p] = <<>>
       THEN UNCHANGED <<checked_out, free_list, thread>>
       ELSE LET i == Head(free_list[p])
                small == capacity[p][i] < min_capacity
            IN  /\ checked_out' = [checked_out EXCEPT ![p][i] = TRUE]
                /\ free_list' = [free_list EXCEPT ![p] = Tail(@)]
                /\ thread' = [thread EXCEPT ![t] =
                     [pc |-> IF small THEN "reserve" ELSE "hold", pool |-> p,
                      buffer |-> i, want |-> min_capacity,
                      bytes |-> IF small THEN min_capacity - capacity[p][i]
                                ELSE 0]]
  /\ UNCHANGED <<current, capacity, closed, destroyed, owed>>

Realloc(t) ==
  /\ thread[t].pc = "realloc"
  /\ \/ /\ capacity' = [capacity EXCEPT ![thread[t].pool][thread[t].buffer] =
                                          thread[t].want]
        /\ thread' = [thread EXCEPT ![t].pc = "hold", ![t].bytes = 0]
     \/ Goto(t, "release_child") /\ UNCHANGED capacity
  /\ UNCHANGED <<current, checked_out, free_list, closed, destroyed, owed,
                 acquires>>

\* By a holder, or by acquire itself when growing failed.
tr_buffer_release(t) ==
  LET p == thread[t].pool
      i == thread[t].buffer
  IN  /\ thread[t].pc \in {"hold", "unwind"}
      /\ checked_out' = [checked_out EXCEPT ![p][i] = FALSE]
      /\ free_list' = [free_list EXCEPT ![p] = <<i>> \o @]
      /\ thread' = [thread EXCEPT ![t] = Idle]
      /\ UNCHANGED <<current, capacity, closed, destroyed, owed, acquires>>

\* destroy: close the pool; while a descriptor is out answer ERR_STATE and
\* leave the pool closed, to be retried; otherwise detach the storage.
tr_buffer_pool_destroy(t, p) ==
  /\ thread[t].pc = "idle" /\ ~destroyed[p]
  /\ closed' = [closed EXCEPT ![p] = TRUE]
  /\ IF Len(free_list[p]) # BufferCount \/ \E i \in Buffers : checked_out[p][i]
       THEN UNCHANGED <<destroyed, owed, thread>>
       ELSE /\ destroyed' = [destroyed EXCEPT ![p] = TRUE]
            /\ owed' = [owed EXCEPT ![p] = [i \in Buffers |-> capacity[p][i]]
                                             \o <<DescriptorBytes>>]
            /\ thread' = [thread EXCEPT ![t].pc = "repay", ![t].pool = p]
  /\ UNCHANGED <<current, checked_out, capacity, free_list, acquires>>

\* Each buffer's storage, then the descriptors: child, then root.
RepayChild(t) ==
  LET p == thread[t].pool
  IN  /\ thread[t].pc = "repay"
      /\ IF owed[p] = <<>>
           THEN thread' = [thread EXCEPT ![t] = Idle] /\ UNCHANGED <<current, owed>>
           ELSE /\ tr_memory_budget_release_local(p, Head(owed[p]))
                /\ owed' = [owed EXCEPT ![p] = Tail(@)]
                /\ thread' = [thread EXCEPT ![t].pc = "repay_root",
                                            ![t].bytes = Head(owed[p])]
      /\ UNCHANGED <<checked_out, capacity, free_list, closed, destroyed, acquires>>

RepayRoot(t) ==
  /\ thread[t].pc = "repay_root"
  /\ tr_memory_budget_release_local(Root, thread[t].bytes)
  /\ thread' = [thread EXCEPT ![t].pc = "repay", ![t].bytes = 0]
  /\ UNCHANGED <<poolVars, acquires>>

-----------------------------------------------------------------------------
PoolNext ==
  \E t \in Threads :
    \/ \E p \in Pools, n \in 1 .. MaxSize : tr_buffer_acquire(t, p, n)
    \/ ReserveRoot(t)
    \/ ReserveChild(t)
    \/ ReleaseChild(t)
    \/ ReleaseRoot(t)
    \/ Realloc(t)
    \/ tr_buffer_release(t)
    \/ \E p \in Pools : tr_buffer_pool_destroy(t, p)
    \/ RepayChild(t)
    \/ RepayRoot(t)

PoolsDestroyed ==
  /\ \A p \in Pools : destroyed[p]
  /\ \A t \in Threads : thread[t] = Idle
  /\ UNCHANGED bufferVars

PoolSpec == PoolInit /\ [][PoolNext \/ PoolsDestroyed]_bufferVars

-----------------------------------------------------------------------------
(* Properties                                                              *)

InTransit(S) == MapThenSumSet(LAMBDA t : thread[t].bytes, S)
At(pcs, p) == {t \in Threads : thread[t].pc \in pcs /\ thread[t].pool = p}
Sum(seq) == MapThenSumSet(LAMBDA i : seq[i], DOMAIN seq)

\* What the buffers of a pool occupy, or what destroy has not yet given back.
Occupied(p) ==
  IF destroyed[p] THEN Sum(owed[p]) ELSE DescriptorBytes + Sum(capacity[p])

\* A descriptor is checked out by one thread at a time and is then not on the
\* free list; a destroyed pool has none checked out.
SingleHolder ==
  \A p \in Pools :
    LET using == At({"reserve", "reserve_child", "release_child", "release_root",
                     "realloc", "hold", "unwind"}, p)
    IN  /\ \A t, u \in using : thread[t].buffer = thread[u].buffer => t = u
        /\ {thread[t].buffer : t \in using} = {i \in Buffers : checked_out[p][i]}
        /\ {free_list[p][k] : k \in DOMAIN free_list[p]}
             = {i \in Buffers : ~checked_out[p][i]}
        /\ destroyed[p] => using = {}

\* Every budget counter equals what is really allocated below it, plus what
\* threads have reserved and not used yet or still have to give back: refused
\* growth, failed realloc and destroy neither leak budget nor return it twice;
\* and no descriptor has two holders.
BudgetExact ==
  LET child(p) == Occupied(p) + InTransit(At({"realloc", "release_child"}, p))
      above(p) == InTransit(At({"reserve_child", "release_root", "repay_root"}, p))
  IN  /\ SingleHolder
      /\ \A p \in Pools : current[p] = child(p)
      /\ current[Root] = MapThenSumSet(LAMBDA p : child(p) + above(p), Pools)
=============================================================================
