--------------------------- MODULE NetLookupTable ---------------------------
(***************************************************************************)
(* Handle-to-net indirection shared between threads:                       *)
(*   hwc-engine/src/netlist/handle.rs                                      *)
(*                                                                         *)
(* Two locks guard two fields: a RwLock the table, a mutex the counter.    *)
(* A call is the sequence of its lock acquisitions; what it does between   *)
(* two of them is invisible to the other threads and part of one step.     *)
(* rename_net, update_handle and resolve_handle hold one lock only and are *)
(* one step each.  A lookup changes nothing: it is the operator Resolve.   *)
(***************************************************************************)
EXTENDS Naturals, FiniteSets

CONSTANTS
    Thread,
    Net,         \* net ids other than 0
    MaxHandle    \* bound on the u32 counter, for model checking only

CONSTANTS Nobody, NoNet   \* no lock holder; NetId(0)

ASSUME ConstantsDiffer == Nobody \notin Thread /\ NoNet \notin Net
ASSUME CounterBounded == MaxHandle \in Nat

VARIABLES
    table,        \* handle_to_net: a function on the handles it holds
    next_handle,
    tableWriter,  \* who holds the RwLock for writing
    nextOwner,    \* who holds the mutex of the counter
    pc,           \* where each thread's call waits
    call,         \* the handle and the net of a thread's pending allocation
    issued        \* history: handles returned to callers since the last clear

vars == <<table, next_handle, tableWriter, nextOwner, pc, call, issued>>

Handle == 1 .. MaxHandle
Put(f, h, n) == [x \in DOMAIN f \cup {h} |-> IF x = h THEN n ELSE f[x]]

Init ==
    /\ table       = [h \in {} |-> NoNet]
    /\ next_handle = 1
    /\ tableWriter = Nobody
    /\ nextOwner   = Nobody
    /\ pc          = [t \in Thread |-> "idle"]
    /\ call        = [t \in Thread |-> [handle |-> 0, net |-> NoNet]]
    /\ issued      = {}

Resolve(h) == IF h \in DOMAIN table THEN table[h] ELSE NoNet

-----------------------------------------------------------------------------
(* Mutant: the mutex is not held, so that an allocation that starts before *)
(* another has ended reads a counter that is not advanced yet.             *)
AllocateTake_unlocked(t, n) ==
    /\ pc[t] = "idle"
    /\ nextOwner = Nobody
    /\ next_handle <= MaxHandle
    /\ call'        = [call EXCEPT ![t] = [handle |-> next_handle, net |-> n]]
    /\ next_handle' = IF \E u \in Thread : pc[u] = "insert" THEN next_handle
                                                         ELSE next_handle + 1
    /\ pc'          = [pc EXCEPT ![t] = "insert"]
    /\ UNCHANGED <<table, tableWriter, nextOwner, issued>>

(* allocate_handle: take the counter's lock and a handle ... *)
AllocateTake(t, n) ==
    /\ pc[t] = "idle"
    /\ nextOwner = Nobody
    /\ next_handle <= MaxHandle
    /\ nextOwner'   = t
    /\ call'        = [call EXCEPT ![t] = [handle |-> next_handle, net |-> n]]
    /\ next_handle' = next_handle + 1
    /\ pc'          = [pc EXCEPT ![t] = "insert"]
    /\ UNCHANGED <<table, tableWriter, issued>>

(* Mutant: the counter's mutex, which is not reentrant, is taken again. *)
AllocateInsert_relock(t) ==
    /\ pc[t] = "insert"
    /\ tableWriter = Nobody
    /\ nextOwner = Nobody
    /\ table'     = Put(table, call[t].handle, call[t].net)
    /\ issued'    = issued \cup {call[t].handle}
    /\ pc'        = [pc EXCEPT ![t] = "idle"]
    /\ UNCHANGED <<next_handle, tableWriter, nextOwner, call>>

(* ... and, still holding it, the table's: insert and release both. *)
AllocateInsert(t) ==
    /\ pc[t] = "insert"
    /\ tableWriter = Nobody
    /\ table'     = Put(table, call[t].handle, call[t].net)
    /\ issued'    = issued \cup {call[t].handle}
    /\ nextOwner' = Nobody
    /\ pc'        = [pc EXCEPT ![t] = "idle"]
    /\ UNCHANGED <<next_handle, tableWriter, call>>

(* Mutant: the renamed net's handles are dropped. *)
RenameNet_drop(t, old, new) ==
    /\ pc[t] = "idle"
    /\ tableWriter = Nobody
    /\ table' = [h \in {x \in DOMAIN table : table[x] # old} |-> table[h]]
    /\ UNCHANGED <<next_handle, tableWriter, nextOwner, pc, call, issued>>

RenameNet(t, old, new) ==
    /\ pc[t] = "idle"
    /\ tableWriter = Nobody
    /\ table' = [h \in DOMAIN table |-> IF table[h] = old THEN new ELSE table[h]]
    /\ UNCHANGED <<next_handle, tableWriter, nextOwner, pc, call, issued>>

UpdateHandle(t, h, n) ==
    /\ pc[t] = "idle"
    /\ tableWriter = Nobody
    /\ table' = Put(table, h, n)
    /\ UNCHANGED <<next_handle, tableWriter, nextOwner, pc, call, issued>>

(* clear: the same two locks, the other way round. *)
ClearTable(t) ==
    /\ pc[t] = "idle"
    /\ tableWriter = Nobody
    /\ tableWriter' = t
    /\ table'       = [h \in {} |-> NoNet]
    /\ issued'      = {}
    /\ pc'          = [pc EXCEPT ![t] = "reset"]
    /\ UNCHANGED <<next_handle, nextOwner, call>>

ClearNext(t) ==
    /\ pc[t] = "reset"
    /\ nextOwner = Nobody
    /\ next_handle' = 1
    /\ tableWriter' = Nobody
    /\ pc'          = [pc EXCEPT ![t] = "idle"]
    /\ UNCHANGED <<table, nextOwner, call, issued>>

(* A call in progress goes on as soon as its lock is free. *)
Continue(t) == AllocateInsert(t) \/ ClearNext(t)

Begin(t) ==
    \/ \E n \in Net : AllocateTake(t, n)
    \/ \E old \in Net, new \in Net : RenameNet(t, old, new)
    \/ \E h \in issued, n \in Net : UpdateHandle(t, h, n)
    \/ ClearTable(t)

Next == \E t \in Thread : Begin(t) \/ Continue(t)

Spec == Init /\ [][Next]_vars

(* parking_lot's locks are fair enough that a thread waiting for a free    *)
(* lock gets it: strong fairness, since other threads may take it between. *)
FairSpec == Spec /\ \A t \in Thread : SF_vars(Continue(t))

-----------------------------------------------------------------------------
TypeOK ==
    /\ DOMAIN table \subseteq Handle
    /\ \A h \in DOMAIN table : table[h] \in Net
    /\ next_handle \in 1 .. (MaxHandle + 1)
    /\ tableWriter \in Thread \cup {Nobody}
    /\ nextOwner \in Thread \cup {Nobody}
    /\ pc \in [Thread -> {"idle", "insert", "reset"}]
    /\ call \in [Thread -> [handle : 0 .. MaxHandle, net : Net \cup {NoNet}]]

(* A handle is given to one caller only: no two pending allocations hold   *)
(* the same one, and none holds one that a caller already has.             *)
Pending == {t \in Thread : pc[t] = "insert"}
HandlesDistinct ==
    /\ \A t \in Pending : call[t].handle \notin issued
    /\ \A t, u \in Pending : call[t].handle = call[u].handle => t = u

(* A handle a caller holds resolves to a net, whatever is renamed, and the *)
(* counter is past it.                                                     *)
IssuedResolve ==
    \A h \in issued : Resolve(h) \in Net /\ h < next_handle

(* Renames and allocations compete for both locks without harm: only a     *)
(* clear that has started can keep an allocation from returning.  It does: *)
(* it takes the two locks in the other order, so that a clear and an       *)
(* allocation may each wait for the lock the other holds.                  *)
AllocationsReturn ==
    \A t \in Thread : pc[t] = "insert" ~>
        pc[t] = "idle" \/ \E u \in Thread : pc[u] = "reset"
=============================================================================
