----------------------- MODULE NetLookupTableProofs -----------------------
(* What is proved of the handle table, for any threads, nets and bound of the
   counter: handles are given to one caller each, and resolve until a clear. *)
EXTENDS NetLookupTable, TLAPS

(* What separates two calls that wait: who waits for the table's lock holds the
   counter's, and the other way round. *)
LocksHeld ==
    /\ \A t \in Thread : pc[t] = "insert" <=> nextOwner = t
    /\ \A t \in Thread : pc[t] = "reset" <=> tableWriter = t

(* A handle that is taken is one, below the counter, and its net is a net. *)
TakenBelow ==
    \A t \in Pending :
        call[t].handle \in Handle /\ call[t].handle < next_handle /\ call[t].net \in Net

(* Between its two steps, a clear has left nothing issued: so it may reset the
   counter. *)
ClearedFirst == tableWriter # Nobody => issued = {}

(* A handle that is given to a caller is in the table. *)
IssuedInTable == issued \subseteq DOMAIN table

Inv ==
    /\ TypeOK /\ LocksHeld /\ TakenBelow /\ ClearedFirst
    /\ IssuedInTable /\ HandlesDistinct /\ IssuedResolve

(* Of a thread that is idle, no lock is. *)
LEMMA IdleHoldsNone ==
    ASSUME TypeOK, LocksHeld, NEW t \in Thread, pc[t] = "idle"
    PROVE  nextOwner # t /\ tableWriter # t
  BY DEF TypeOK, LocksHeld

(* Only one allocation waits at a time. *)
LEMMA OnePending ==
    ASSUME LocksHeld, NEW t \in Pending, NEW u \in Pending
    PROVE  t = u /\ t \in Thread /\ nextOwner = t
  BY DEF LocksHeld, Pending

LEMMA InitInv == Init => Inv
<1> SUFFICES ASSUME Init PROVE Inv
  OBVIOUS
<1>1. DOMAIN table = {} /\ Pending = {} /\ issued = {}
  BY DEF Init, Pending
<1>2. TypeOK
  BY <1>1, CounterBounded DEF Init, TypeOK
<1>3. LocksHeld
  BY ConstantsDiffer DEF Init, LocksHeld
<1> QED
  BY <1>1, <1>2, <1>3
     DEF Init, Inv, TakenBelow, ClearedFirst, IssuedInTable, HandlesDistinct, IssuedResolve

LEMMA TakeKeeps ==
    ASSUME Inv, NEW t \in Thread, NEW n \in Net, AllocateTake(t, n)
    PROVE  Inv'
<1> USE DEF Inv, AllocateTake
<1>1. nextOwner = Nobody /\ Pending = {}
  BY ConstantsDiffer DEF LocksHeld, Pending
<1>2. Pending' = {t}
  BY <1>1 DEF Pending, TypeOK
<1>3. next_handle \in Handle /\ next_handle' = next_handle + 1 /\ next_handle < next_handle'
  BY CounterBounded DEF TypeOK, Handle
<1>4. call'[t] = [handle |-> next_handle, net |-> n]
  BY DEF TypeOK
<1>5. TypeOK'
  <2>1. [handle |-> next_handle, net |-> n] \in [handle : 0 .. MaxHandle, net : Net \cup {NoNet}]
    BY <1>3 DEF Handle
  <2>2. call' \in [Thread -> [handle : 0 .. MaxHandle, net : Net \cup {NoNet}]]
    BY <2>1 DEF TypeOK
  <2>3. next_handle' \in 1 .. (MaxHandle + 1)
    BY <1>3, CounterBounded DEF Handle
  <2>4. pc' \in [Thread -> {"idle", "insert", "reset"}]
    BY DEF TypeOK
  <2> QED  BY <2>2, <2>3, <2>4 DEF TypeOK
<1>6. LocksHeld'
  BY <1>1, ConstantsDiffer DEF LocksHeld, TypeOK
<1>7. TakenBelow'
  BY <1>2, <1>3, <1>4 DEF TakenBelow
<1>8. next_handle \notin issued
  BY DEF IssuedResolve, TypeOK
<1>9. HandlesDistinct'
  BY <1>2, <1>4, <1>8 DEF HandlesDistinct
<1>10. IssuedResolve'
  <2> SUFFICES ASSUME NEW h \in issued PROVE Resolve(h)' \in Net /\ h < next_handle'
    BY DEF IssuedResolve
  <2>1. h \in Handle /\ Resolve(h) \in Net /\ h < next_handle
    BY DEF IssuedResolve, IssuedInTable, TypeOK
  <2> QED  BY <2>1, <1>3 DEF Resolve, Handle
<1>11. ClearedFirst' /\ IssuedInTable'
  BY DEF ClearedFirst, IssuedInTable
<1> QED  BY <1>5, <1>6, <1>7, <1>9, <1>10, <1>11

(* What Put leaves in a table. *)
LEMMA PutResult ==
    ASSUME NEW h, NEW n, table' = Put(table, h, n)
    PROVE  /\ DOMAIN table' = DOMAIN table \cup {h}
           /\ table'[h] = n
           /\ \A x \in DOMAIN table \ {h} : table'[x] = table[x]
  BY DEF Put

LEMMA InsertKeeps ==
    ASSUME Inv, NEW t \in Thread, AllocateInsert(t)
    PROVE  Inv'
<1> USE DEF Inv, AllocateInsert
<1> DEFINE h == call[t].handle
<1>1. t \in Pending /\ nextOwner = t /\ \A u \in Pending : u = t
  BY OnePending DEF Pending, LocksHeld
<1>2. h \in Handle /\ h < next_handle /\ call[t].net \in Net
  BY <1>1 DEF TakenBelow
<1>3. Pending' = {}
  BY <1>1 DEF Pending, TypeOK
<1>4. /\ DOMAIN table' = DOMAIN table \cup {h}
      /\ table'[h] = call[t].net
      /\ \A x \in DOMAIN table \ {h} : table'[x] = table[x]
  BY PutResult
<1>5. TypeOK'
  <2>1. \A x \in DOMAIN table' : x \in Handle /\ table'[x] \in Net
    BY <1>2, <1>4 DEF TypeOK
  <2>2. pc' \in [Thread -> {"idle", "insert", "reset"}]
    BY DEF TypeOK
  <2> QED  BY <2>1, <2>2 DEF TypeOK
<1>6. LocksHeld'
  BY <1>1, ConstantsDiffer DEF LocksHeld, TypeOK
<1>7. TakenBelow' /\ HandlesDistinct'
  BY <1>3 DEF TakenBelow, HandlesDistinct
<1>8. ClearedFirst'
  BY DEF ClearedFirst
<1>9. IssuedInTable'
  BY <1>4 DEF IssuedInTable
<1>10. IssuedResolve'
  <2> SUFFICES ASSUME NEW x \in issued' PROVE Resolve(x)' \in Net /\ x < next_handle'
    BY DEF IssuedResolve
  <2>1. x \in DOMAIN table' /\ table'[x] \in Net
    BY <1>5, <1>9 DEF TypeOK, IssuedInTable
  <2>2. x < next_handle
    BY <1>2 DEF IssuedResolve
  <2> QED  BY <2>1, <2>2 DEF Resolve
<1> QED  BY <1>5, <1>6, <1>7, <1>8, <1>9, <1>10

(* A step of one thread that only writes nets into the table. *)
LEMMA WriteKeeps ==
    ASSUME Inv, UNCHANGED <<next_handle, tableWriter, nextOwner, pc, call, issued>>,
           DOMAIN table \subseteq DOMAIN table',
           \A x \in DOMAIN table' : x \in Handle /\ table'[x] \in Net
    PROVE  Inv'
<1> USE DEF Inv
<1>1. TypeOK'
  BY DEF TypeOK
<1>2. Pending' = Pending
  BY DEF Pending
<1>3. LocksHeld' /\ TakenBelow' /\ ClearedFirst' /\ HandlesDistinct' /\ IssuedInTable'
  BY <1>2 DEF LocksHeld, TakenBelow, ClearedFirst, HandlesDistinct, IssuedInTable
<1>4. IssuedResolve'
  BY <1>3 DEF IssuedResolve, IssuedInTable, Resolve
<1> QED  BY <1>1, <1>3, <1>4

LEMMA RenameKeeps ==
    ASSUME Inv, NEW t \in Thread, NEW old \in Net, NEW new \in Net, RenameNet(t, old, new)
    PROVE  Inv'
<1>1. /\ DOMAIN table' = DOMAIN table
      /\ \A x \in DOMAIN table' : x \in Handle /\ table'[x] \in Net
  BY DEF RenameNet, Inv, TypeOK
<1> QED  BY <1>1, WriteKeeps DEF RenameNet

LEMMA UpdateKeeps ==
    ASSUME Inv, NEW t \in Thread, NEW h \in issued, NEW n \in Net, UpdateHandle(t, h, n)
    PROVE  Inv'
<1>1. h \in DOMAIN table
  BY DEF Inv, IssuedInTable
<1>2. /\ DOMAIN table' = DOMAIN table \cup {h}
      /\ table'[h] = n
      /\ \A x \in DOMAIN table \ {h} : table'[x] = table[x]
  BY PutResult DEF UpdateHandle
<1>3. \A x \in DOMAIN table' : x \in Handle /\ table'[x] \in Net
  BY <1>1, <1>2 DEF Inv, TypeOK
<1> QED  BY <1>2, <1>3, WriteKeeps DEF UpdateHandle

LEMMA ClearTableKeeps ==
    ASSUME Inv, NEW t \in Thread, ClearTable(t)
    PROVE  Inv'
<1> USE DEF Inv, ClearTable
<1>1. Pending' = Pending
  BY DEF Pending, TypeOK
<1>2. DOMAIN table' = {} /\ issued' = {}
  OBVIOUS
<1>3. TypeOK'
  BY <1>2 DEF TypeOK
<1>4. LocksHeld'
  BY ConstantsDiffer DEF LocksHeld, TypeOK
<1>5. TakenBelow' /\ HandlesDistinct'
  BY <1>1, <1>2 DEF TakenBelow, HandlesDistinct
<1>6. ClearedFirst' /\ IssuedInTable' /\ IssuedResolve'
  BY <1>2 DEF ClearedFirst, IssuedInTable, IssuedResolve
<1> QED  BY <1>3, <1>4, <1>5, <1>6

LEMMA ClearNextKeeps ==
    ASSUME Inv, NEW t \in Thread, ClearNext(t)
    PROVE  Inv'
<1> USE DEF Inv, ClearNext
<1>1. tableWriter = t /\ issued = {}
  BY ConstantsDiffer DEF LocksHeld, ClearedFirst
<1>2. Pending' = {}
  BY ConstantsDiffer DEF Pending, LocksHeld, TypeOK
<1>3. TypeOK'
  BY CounterBounded DEF TypeOK
<1>4. LocksHeld'
  BY <1>1, ConstantsDiffer DEF LocksHeld, TypeOK
<1>5. TakenBelow' /\ HandlesDistinct'
  BY <1>2 DEF TakenBelow, HandlesDistinct
<1>6. ClearedFirst' /\ IssuedInTable' /\ IssuedResolve'
  BY <1>1 DEF ClearedFirst, IssuedInTable, IssuedResolve
<1> QED  BY <1>3, <1>4, <1>5, <1>6

LEMMA NextKeeps == Inv /\ [Next]_vars => Inv'
<1> SUFFICES ASSUME Inv, [Next]_vars PROVE Inv'
  OBVIOUS
<1>1. ASSUME NEW t \in Thread, NEW n \in Net, AllocateTake(t, n) PROVE Inv'
  BY <1>1, TakeKeeps
<1>2. ASSUME NEW t \in Thread, NEW old \in Net, NEW new \in Net, RenameNet(t, old, new) PROVE Inv'
  BY <1>2, RenameKeeps
<1>3. ASSUME NEW t \in Thread, NEW h \in issued, NEW n \in Net, UpdateHandle(t, h, n) PROVE Inv'
  BY <1>3, UpdateKeeps
<1>4. ASSUME NEW t \in Thread, ClearTable(t) PROVE Inv'
  BY <1>4, ClearTableKeeps
<1>5. ASSUME NEW t \in Thread, AllocateInsert(t) PROVE Inv'
  BY <1>5, InsertKeeps
<1>6. ASSUME NEW t \in Thread, ClearNext(t) PROVE Inv'
  BY <1>6, ClearNextKeeps
<1>7. CASE UNCHANGED vars
  BY <1>7 DEF vars, Inv, TypeOK, LocksHeld, TakenBelow, ClearedFirst, IssuedInTable,
              HandlesDistinct, IssuedResolve, Pending, Resolve
<1> QED  BY <1>1, <1>2, <1>3, <1>4, <1>5, <1>6, <1>7 DEF Next, Begin, Continue

(* The locks, the counter and the table keep their shapes, and stand to each
   other as Inv says, at any interleaving of allocate_handle, rename_net,
   update_handle and clear. *)
THEOREM TableInvariant == Spec => []Inv
<1>1. Init => Inv
  BY InitInv
<1>2. Inv /\ [Next]_vars => Inv'
  BY NextKeeps
<1> QED  BY <1>1, <1>2, PTL DEF Spec

(* allocate_handle gives no handle to two callers. *)
THEOREM HandlesAreDistinct == Spec => []HandlesDistinct
<1>1. Inv => HandlesDistinct
  BY DEF Inv
<1> QED  BY <1>1, TableInvariant, PTL

(* resolve_handle finds a net for every handle a caller holds. *)
THEOREM HandlesResolve == Spec => []IssuedResolve
<1>1. Inv => IssuedResolve
  BY DEF Inv
<1> QED  BY <1>1, TableInvariant, PTL
=============================================================================
