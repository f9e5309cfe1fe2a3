---------------------------- MODULE ApiKeysProofs ----------------------------
(***************************************************************************)
(* Theorems about ApiKeys, for every number of keys, processes, calls and  *)
(* administrators.                                                         *)
(***************************************************************************)
EXTENDS ApiKeys, TLAPS

LEMMA NextCases ==
  ASSUME KeysNext
  PROVE  \/ \E c \in Calls : Acquire(c)
         \/ \E c \in Calls : Reread(c)
         \/ \E c \in Calls : Store(c)
         \/ \E c \in Calls : SeedCheck(c)
         \/ \E c \in Calls : SeedInsert(c)
         \/ \E c \in Calls : RefreshFails(c)
         \/ \E c \in Calls : Cancel(c)
         \/ \E c \in Calls : Choose(c)
         \/ \E c \in Calls : Answered(c)
         \/ \E c \in Calls : TooMany(c)
         \/ \E c \in Calls : LimitRow(c)
         \/ \E c \in Calls : Rejected(c)
         \/ \E c \in Calls : DisableRow(c)
         \/ \E p \in Processes : WakeUp(p)
         \/ \E p \in Processes : WalkWrite(p)
         \/ \E p \in Processes : Scan(p)
         \/ \E p \in Processes : ScanFails(p)
         \/ \E p \in Processes : RowWrite(p)
         \/ \E p \in Processes : RowApply(p)
         \/ \E p \in Processes : GrowOld(p)
         \/ \E k \in Keys : CoolRow(k)
         \/ \E a \in Admins : Create(a)
         \/ \E a \in Admins, k \in Keys, op \in Present \cup {"delete"} : ReadRow(a, k, op)
         \/ \E a \in Admins : WriteRow(a)
         \/ \E a \in Admins : Invalidate(a)
  BY Zenon DEF KeysNext, Continue, LoopStep, AdminStep

-----------------------------------------------------------------------------
(* Types *)

LEMMA InitTyped == KeysInit => KeysTypeOK
  BY KeysAssumption
  DEF KeysInit, KeysTypeOK, Row, Unused, ActiveRow, Entry, NoList, Present, Request,
      NoRequest, CallSteps, Refreshing, LoopSteps

\* The parts of the type invariant.
RowsTyped ==
    /\ row \in [Keys -> Row]
    /\ \A k \in Keys : row[k].status \notin Present => row[k].until = "none"
ListsTyped ==
    /\ cache \in [Processes -> [Keys -> Entry]]
    /\ fresh \in [Processes -> BOOLEAN]
    /\ read \in [Processes -> [Keys -> Entry]]
    /\ seeded \in [Processes -> BOOLEAN]
CallsTyped ==
    /\ lock \in [Processes -> Calls \cup {None}]
    /\ pc \in [Calls -> CallSteps]
    /\ key \in [Calls -> Keys \cup {None}]
    /\ \A c \in Calls :
          /\ pc[c] \in Refreshing <=> lock[ProcessOf[c]] = c
          /\ pc[c] \in {"limit", "disable"} => key[c] \in Keys
LoopsTyped ==
    /\ loop \in [Processes -> LoopSteps]
    /\ todo \in [Processes -> SUBSET Keys]
    /\ hand \in [Processes -> Keys \cup {None}]
    /\ attached \in [Processes -> BOOLEAN]
    /\ \A p \in Processes :
          /\ loop[p] \in {"write", "apply"} <=> hand[p] \in Keys
          /\ ~attached[p] => loop[p] = "write"
RequestsTyped ==
    /\ admin \in [Admins -> Request]
    /\ changes \in Nat /\ faults \in Nat

LEMMA TypeParts ==
  KeysTypeOK <=> RowsTyped /\ ListsTyped /\ CallsTyped /\ LoopsTyped /\ RequestsTyped
  BY DEF KeysTypeOK, RowsTyped, ListsTyped, CallsTyped, LoopsTyped, RequestsTyped

\* A step of the walk, whether it finds an entry or none.
LEMMA WalkTyped ==
  ASSUME ListsTyped, LoopsTyped, NEW p \in Processes, NEW some \in SUBSET Keys,
         WalkOn(p, some)
  PROVE  LoopsTyped' /\ cache' \in [Processes -> [Keys -> Entry]]
<1> USE KeysAssumption DEF LoopsTyped, LoopSteps, LoopTo
<1>1. CASE loop' = [loop EXCEPT ![p] = "scan"]
  <2>1. /\ todo' = [todo EXCEPT ![p] = {}]
        /\ hand' = [hand EXCEPT ![p] = None]
        /\ attached' = [attached EXCEPT ![p] = TRUE]
        /\ UNCHANGED cache
    BY <1>1 DEF WalkOn
  <2> QED
    BY <1>1, <2>1 DEF ListsTyped
<1>2. ASSUME NEW k \in some,
             cache' = IF attached[p] THEN [cache EXCEPT ![p][k] = "active"] ELSE cache,
             hand' = [hand EXCEPT ![p] = k],
             todo' = [todo EXCEPT ![p] = some \ {k}],
             loop' = [loop EXCEPT ![p] = "write"],
             UNCHANGED attached
      PROVE  LoopsTyped' /\ cache' \in [Processes -> [Keys -> Entry]]
  <2>1. LoopsTyped'
    BY <1>2
  <2>2. cache' \in [Processes -> [Keys -> Entry]]
    BY <1>2 DEF ListsTyped, Entry
  <2> QED
    BY <2>1, <2>2
<1> QED
  BY <1>1, <1>2 DEF WalkOn, Limited

LEMMA NextTyped == KeysTypeOK /\ [KeysNext]_vars => KeysTypeOK'
<1> SUFFICES ASSUME KeysTypeOK, [KeysNext]_vars PROVE KeysTypeOK'
  OBVIOUS
<1> USE KeysAssumption
<1>0. RowsTyped /\ ListsTyped /\ CallsTyped /\ LoopsTyped /\ RequestsTyped
  BY TypeParts
<1>1. ASSUME NEW c \in Calls, Acquire(c) PROVE KeysTypeOK'
  BY <1>1 DEF Acquire, ReadRows, Loaded, Goto, listVars, loopVars,
     KeysTypeOK, Row, Entry, NoList, Present, Request, CallSteps, Refreshing, LoopSteps
<1>2. ASSUME NEW c \in Calls, Reread(c) PROVE KeysTypeOK'
  BY <1>2 DEF Reread, ReadRows, Loaded, Goto, loopVars,
     KeysTypeOK, Row, Entry, NoList, Present, Request, CallSteps, Refreshing, LoopSteps
<1>3. ASSUME NEW c \in Calls, Store(c) PROVE KeysTypeOK'
  <2>1. RowsTyped'
    BY <1>0, <1>3 DEF Store, Limited, Refreshed, Goto, RowsTyped, Row, Present
  <2>2. ListsTyped'
    BY <1>0, <1>3 DEF Store, Limited, Refreshed, Goto, ListsTyped, Entry, NoList
  <2>3. CallsTyped'
    BY <1>0, <1>3 DEF Store, Limited, Refreshed, Goto, CallsTyped, CallSteps, Refreshing
  <2>4. LoopsTyped'
    <3> DEFINE p == ProcessOf[c]
    <3>1. p \in Processes /\ Limited(p, todo[p]) \in SUBSET Keys
      BY <1>0 DEF LoopsTyped, Limited
    <3>2. CASE attached[p] /\ loop[p] = "write"
      <4>1. /\ attached' = [attached EXCEPT ![p] = FALSE]
            /\ todo' = [todo EXCEPT ![p] = Limited(p, todo[p])]
            /\ UNCHANGED <<loop, hand>>
        BY <1>3, <3>2 DEF Store
      <4> QED
        BY <1>0, <3>1, <3>2, <4>1 DEF LoopsTyped, LoopSteps
    <3>3. CASE ~(attached[p] /\ loop[p] = "write")
      BY <1>0, <1>3, <3>3 DEF Store, LoopsTyped
    <3> QED
      BY <3>2, <3>3
  <2>5. RequestsTyped'
    BY <1>0, <1>3
       DEF Store, Limited, Refreshed, Goto, RequestsTyped, Request, Present, Row
  <2> QED
    BY <2>1, <2>2, <2>3, <2>4, <2>5
       DEF KeysTypeOK, RowsTyped, ListsTyped, CallsTyped, LoopsTyped, RequestsTyped
<1>4. ASSUME NEW c \in Calls, SeedCheck(c) PROVE KeysTypeOK'
  <2>1. RowsTyped'
    BY <1>0, <1>4 DEF SeedCheck, Goto, loopVars, RowsTyped, Row, Present
  <2>2. ListsTyped'
    BY <1>0, <1>4 DEF SeedCheck, Goto, loopVars, ListsTyped, Entry, NoList
  <2>3. CallsTyped'
    BY <1>0, <1>4 DEF SeedCheck, Goto, loopVars, CallsTyped, CallSteps, Refreshing
  <2>4. LoopsTyped'
    BY <1>0, <1>4 DEF SeedCheck, Goto, loopVars, LoopsTyped, LoopSteps
  <2>5. RequestsTyped'
    BY <1>0, <1>4 DEF SeedCheck, Goto, loopVars, RequestsTyped, Request, Present, Row
  <2> QED
    BY <2>1, <2>2, <2>3, <2>4, <2>5
       DEF KeysTypeOK, RowsTyped, ListsTyped, CallsTyped, LoopsTyped, RequestsTyped
<1>5. ASSUME NEW c \in Calls, SeedInsert(c) PROVE KeysTypeOK'
  <2>1. RowsTyped'
    BY <1>0, <1>5
       DEF SeedInsert, ActiveRow, Goto, listVars, loopVars, RowsTyped, Row, Present
  <2>2. ListsTyped'
    BY <1>0, <1>5
       DEF SeedInsert, ActiveRow, Goto, listVars, loopVars, ListsTyped, Entry, NoList
  <2>3. CallsTyped'
    BY <1>0, <1>5
       DEF SeedInsert, ActiveRow, Goto, listVars, loopVars, CallsTyped, CallSteps,
       Refreshing
  <2>4. LoopsTyped'
    BY <1>0, <1>5
       DEF SeedInsert, ActiveRow, Goto, listVars, loopVars, LoopsTyped, LoopSteps
  <2>5. RequestsTyped'
    BY <1>0, <1>5
       DEF SeedInsert, ActiveRow, Goto, listVars, loopVars, RequestsTyped, Request,
       Present, Row
  <2> QED
    BY <2>1, <2>2, <2>3, <2>4, <2>5
       DEF KeysTypeOK, RowsTyped, ListsTyped, CallsTyped, LoopsTyped, RequestsTyped
<1>6. ASSUME NEW c \in Calls, RefreshFails(c) PROVE KeysTypeOK'
  BY <1>6 DEF RefreshFails, Refreshed, Fault, Goto, loopVars,
     KeysTypeOK, Row, Entry, NoList, Present, Request, CallSteps, Refreshing, LoopSteps
<1>7. ASSUME NEW c \in Calls, Cancel(c) PROVE KeysTypeOK'
  <2>1. RowsTyped'
    BY <1>0, <1>7 DEF Cancel, Fault, Goto, loopVars, RowsTyped, Row, Present
  <2>2. ListsTyped'
    BY <1>0, <1>7 DEF Cancel, Fault, Goto, loopVars, ListsTyped, Entry, NoList
  <2>3. CallsTyped'
    BY <1>0, <1>7 DEF Cancel, Fault, Goto, loopVars, CallsTyped, CallSteps, Refreshing
  <2>4. LoopsTyped'
    BY <1>0, <1>7 DEF Cancel, Fault, Goto, loopVars, LoopsTyped, LoopSteps
  <2>5. RequestsTyped'
    BY <1>0, <1>7
       DEF Cancel, Fault, Goto, loopVars, RequestsTyped, Request, Present, Row
  <2> QED
    BY <2>1, <2>2, <2>3, <2>4, <2>5
       DEF KeysTypeOK, RowsTyped, ListsTyped, CallsTyped, LoopsTyped, RequestsTyped
<1>8. ASSUME NEW c \in Calls, Choose(c) PROVE KeysTypeOK'
  <2>1. RowsTyped'
    BY <1>0, <1>8 DEF Choose, Active, Goto, listVars, RowsTyped, Row, Present
  <2>2. ListsTyped'
    BY <1>0, <1>8 DEF Choose, Active, Goto, listVars, ListsTyped, Entry, NoList
  <2>3. CallsTyped'
    BY <1>0, <1>8 DEF Choose, Active, Goto, listVars, CallsTyped, CallSteps, Refreshing
  <2>4. LoopsTyped'
    BY <1>0, <1>8 DEF Choose, Active, Goto, listVars, LoopsTyped, LoopSteps
  <2>5. RequestsTyped'
    BY <1>0, <1>8
       DEF Choose, Active, Goto, listVars, RequestsTyped, Request, Present, Row
  <2> QED
    BY <2>1, <2>2, <2>3, <2>4, <2>5
       DEF KeysTypeOK, RowsTyped, ListsTyped, CallsTyped, LoopsTyped, RequestsTyped
<1>9. ASSUME NEW c \in Calls, Answered(c) PROVE KeysTypeOK'
  BY <1>9 DEF Answered, Done, Goto, listVars, loopVars,
     KeysTypeOK, Row, Entry, NoList, Present, Request, CallSteps, Refreshing, LoopSteps
<1>10. ASSUME NEW c \in Calls, TooMany(c) PROVE KeysTypeOK'
  BY <1>10 DEF TooMany, SetEntry, Goto, loopVars,
     KeysTypeOK, Row, Entry, NoList, Present, Request, CallSteps, Refreshing, LoopSteps
<1>11. ASSUME NEW c \in Calls, LimitRow(c) PROVE KeysTypeOK'
  <2>1. RowsTyped'
    BY <1>0, <1>11
       DEF LimitRow, LimitedRow, UpdateRow, Fault, Done, Goto, listVars, loopVars,
       RowsTyped, Row, Present
  <2>2. ListsTyped'
    BY <1>0, <1>11
       DEF LimitRow, LimitedRow, UpdateRow, Fault, Done, Goto, listVars, loopVars,
       ListsTyped, Entry, NoList
  <2>3. CallsTyped'
    BY <1>0, <1>11
       DEF LimitRow, LimitedRow, UpdateRow, Fault, Done, Goto, listVars, loopVars,
       CallsTyped, CallSteps, Refreshing
  <2>4. LoopsTyped'
    BY <1>0, <1>11
       DEF LimitRow, LimitedRow, UpdateRow, Fault, Done, Goto, listVars, loopVars,
       LoopsTyped, LoopSteps
  <2>5. RequestsTyped'
    BY <1>0, <1>11
       DEF LimitRow, LimitedRow, UpdateRow, Fault, Done, Goto, listVars, loopVars,
       RequestsTyped, Request, Present, Row
  <2> QED
    BY <2>1, <2>2, <2>3, <2>4, <2>5
       DEF KeysTypeOK, RowsTyped, ListsTyped, CallsTyped, LoopsTyped, RequestsTyped
<1>12. ASSUME NEW c \in Calls, Rejected(c) PROVE KeysTypeOK'
  BY <1>12 DEF Rejected, SetEntry, Goto, loopVars,
     KeysTypeOK, Row, Entry, NoList, Present, Request, CallSteps, Refreshing, LoopSteps
<1>13. ASSUME NEW c \in Calls, DisableRow(c) PROVE KeysTypeOK'
  <2>1. RowsTyped'
    BY <1>0, <1>13
       DEF DisableRow, UpdateRow, Fault, Done, Goto, listVars, loopVars, RowsTyped, Row,
       Present
  <2>2. ListsTyped'
    BY <1>0, <1>13
       DEF DisableRow, UpdateRow, Fault, Done, Goto, listVars, loopVars, ListsTyped,
       Entry, NoList
  <2>3. CallsTyped'
    BY <1>0, <1>13
       DEF DisableRow, UpdateRow, Fault, Done, Goto, listVars, loopVars, CallsTyped,
       CallSteps, Refreshing
  <2>4. LoopsTyped'
    BY <1>0, <1>13
       DEF DisableRow, UpdateRow, Fault, Done, Goto, listVars, loopVars, LoopsTyped,
       LoopSteps
  <2>5. RequestsTyped'
    BY <1>0, <1>13
       DEF DisableRow, UpdateRow, Fault, Done, Goto, listVars, loopVars, RequestsTyped,
       Request, Present, Row
  <2> QED
    BY <2>1, <2>2, <2>3, <2>4, <2>5
       DEF KeysTypeOK, RowsTyped, ListsTyped, CallsTyped, LoopsTyped, RequestsTyped
<1>14. ASSUME NEW p \in Processes, WakeUp(p) PROVE KeysTypeOK'
  <2>0. LoopsTyped' /\ cache' \in [Processes -> [Keys -> Entry]]
    <3>1. {k \in Keys : cache[p][k] # "absent"} \in SUBSET Keys
      BY <1>0 DEF LoopsTyped
    <3> QED
      BY <1>0, <1>14, <3>1, WalkTyped DEF WakeUp
  <2>1. RowsTyped'
    BY <1>0, <1>14
       DEF WakeUp, WalkOn, Limited, LoopTo, callVars, RowsTyped, Row, Present
  <2>2. ListsTyped'
    BY <1>0, <1>14, <2>0 DEF WakeUp, ListsTyped
  <2>3. CallsTyped'
    BY <1>0, <1>14
       DEF WakeUp, WalkOn, Limited, LoopTo, callVars, CallsTyped, CallSteps, Refreshing
  <2>4. LoopsTyped'
    BY <2>0
  <2>5. RequestsTyped'
    BY <1>0, <1>14
       DEF WakeUp, WalkOn, Limited, LoopTo, callVars, RequestsTyped, Request, Present,
       Row
  <2> QED
    BY <2>1, <2>2, <2>3, <2>4, <2>5
       DEF KeysTypeOK, RowsTyped, ListsTyped, CallsTyped, LoopsTyped, RequestsTyped
<1>15. ASSUME NEW p \in Processes, WalkWrite(p) PROVE KeysTypeOK'
  <2>0. LoopsTyped' /\ cache' \in [Processes -> [Keys -> Entry]]
    <3>1. todo[p] \in SUBSET Keys
      BY <1>0 DEF LoopsTyped
    <3> QED
      BY <1>0, <1>15, <3>1, WalkTyped DEF WalkWrite
  <2>1. RowsTyped'
    BY <1>0, <1>15
       DEF WalkWrite, WalkOn, Limited, UpdateRow, ActiveRow, Fault, LoopTo, callVars,
       RowsTyped, Row, Present
  <2>2. ListsTyped'
    BY <1>0, <1>15, <2>0 DEF WalkWrite, ListsTyped
  <2>3. CallsTyped'
    BY <1>0, <1>15
       DEF WalkWrite, WalkOn, Limited, UpdateRow, ActiveRow, Fault, LoopTo, callVars,
       CallsTyped, CallSteps, Refreshing
  <2>4. LoopsTyped'
    BY <2>0
  <2>5. RequestsTyped'
    BY <1>0, <1>15
       DEF WalkWrite, WalkOn, Limited, UpdateRow, ActiveRow, Fault, LoopTo, callVars,
       RequestsTyped, Request, Present, Row
  <2> QED
    BY <2>1, <2>2, <2>3, <2>4, <2>5
       DEF KeysTypeOK, RowsTyped, ListsTyped, CallsTyped, LoopsTyped, RequestsTyped
<1>16. ASSUME NEW p \in Processes, Scan(p) PROVE KeysTypeOK'
  BY <1>16 DEF Scan, Overdue, LoopTo, listVars, callVars,
     KeysTypeOK, Row, Entry, NoList, Present, Request, CallSteps, Refreshing, LoopSteps
<1>17. ASSUME NEW p \in Processes, ScanFails(p) PROVE KeysTypeOK'
  BY <1>17 DEF ScanFails, Fault, LoopTo, listVars, callVars,
     KeysTypeOK, Row, Entry, NoList, Present, Request, CallSteps, Refreshing, LoopSteps
<1>18. ASSUME NEW p \in Processes, RowWrite(p) PROVE KeysTypeOK'
  <2>1. RowsTyped'
    BY <1>0, <1>18
       DEF RowWrite, UpdateRow, ActiveRow, Fault, LoopTo, listVars, callVars, RowsTyped,
       Row, Present
  <2>2. ListsTyped'
    BY <1>0, <1>18
       DEF RowWrite, UpdateRow, ActiveRow, Fault, LoopTo, listVars, callVars,
       ListsTyped, Entry, NoList
  <2>3. CallsTyped'
    BY <1>0, <1>18
       DEF RowWrite, UpdateRow, ActiveRow, Fault, LoopTo, listVars, callVars,
       CallsTyped, CallSteps, Refreshing
  <2>4. LoopsTyped'
    BY <1>0, <1>18
       DEF RowWrite, UpdateRow, ActiveRow, Fault, LoopTo, listVars, callVars,
       LoopsTyped, LoopSteps
  <2>5. RequestsTyped'
    BY <1>0, <1>18
       DEF RowWrite, UpdateRow, ActiveRow, Fault, LoopTo, listVars, callVars,
       RequestsTyped, Request, Present, Row
  <2> QED
    BY <2>1, <2>2, <2>3, <2>4, <2>5
       DEF KeysTypeOK, RowsTyped, ListsTyped, CallsTyped, LoopsTyped, RequestsTyped
<1>19. ASSUME NEW p \in Processes, RowApply(p) PROVE KeysTypeOK'
  BY <1>19 DEF RowApply, SetEntry, LoopTo, callVars,
     KeysTypeOK, Row, Entry, NoList, Present, Request, CallSteps, Refreshing, LoopSteps
<1>20. ASSUME NEW p \in Processes, GrowOld(p) PROVE KeysTypeOK'
  BY <1>20 DEF GrowOld, callVars, loopVars,
     KeysTypeOK, Row, Entry, NoList, Present, Request, CallSteps, Refreshing, LoopSteps
<1>21. ASSUME NEW k \in Keys, CoolRow(k) PROVE KeysTypeOK'
  <2>1. RowsTyped'
    BY <1>0, <1>21 DEF CoolRow, listVars, callVars, loopVars, RowsTyped, Row, Present
  <2>2. ListsTyped'
    BY <1>0, <1>21 DEF CoolRow, listVars, callVars, loopVars, ListsTyped, Entry, NoList
  <2>3. CallsTyped'
    BY <1>0, <1>21
       DEF CoolRow, listVars, callVars, loopVars, CallsTyped, CallSteps, Refreshing
  <2>4. LoopsTyped'
    BY <1>0, <1>21 DEF CoolRow, listVars, callVars, loopVars, LoopsTyped, LoopSteps
  <2>5. RequestsTyped'
    BY <1>0, <1>21
       DEF CoolRow, listVars, callVars, loopVars, RequestsTyped, Request, Present, Row
  <2> QED
    BY <2>1, <2>2, <2>3, <2>4, <2>5
       DEF KeysTypeOK, RowsTyped, ListsTyped, CallsTyped, LoopsTyped, RequestsTyped
<1>22. ASSUME NEW a \in Admins, Create(a) PROVE KeysTypeOK'
  <2>1. RowsTyped'
    BY <1>0, <1>22
       DEF Create, ActiveRow, listVars, callVars, loopVars, RowsTyped, Row, Present
  <2>2. ListsTyped'
    BY <1>0, <1>22
       DEF Create, ActiveRow, listVars, callVars, loopVars, ListsTyped, Entry, NoList
  <2>3. CallsTyped'
    BY <1>0, <1>22
       DEF Create, ActiveRow, listVars, callVars, loopVars, CallsTyped, CallSteps,
       Refreshing
  <2>4. LoopsTyped'
    BY <1>0, <1>22
       DEF Create, ActiveRow, listVars, callVars, loopVars, LoopsTyped, LoopSteps
  <2>5. RequestsTyped'
    BY <1>0, <1>22
       DEF Create, ActiveRow, listVars, callVars, loopVars, RequestsTyped, Request,
       Present, Row
  <2> QED
    BY <2>1, <2>2, <2>3, <2>4, <2>5
       DEF KeysTypeOK, RowsTyped, ListsTyped, CallsTyped, LoopsTyped, RequestsTyped
<1>23. ASSUME NEW a \in Admins, NEW k \in Keys,
                NEW op \in Present \cup {"delete"}, ReadRow(a, k, op) PROVE KeysTypeOK'
  <2>1. RowsTyped'
    BY <1>0, <1>23 DEF ReadRow, listVars, callVars, loopVars, RowsTyped, Row, Present
  <2>2. ListsTyped'
    BY <1>0, <1>23 DEF ReadRow, listVars, callVars, loopVars, ListsTyped, Entry, NoList
  <2>3. CallsTyped'
    BY <1>0, <1>23
       DEF ReadRow, listVars, callVars, loopVars, CallsTyped, CallSteps, Refreshing
  <2>4. LoopsTyped'
    BY <1>0, <1>23 DEF ReadRow, listVars, callVars, loopVars, LoopsTyped, LoopSteps
  <2>5. RequestsTyped'
    BY <1>0, <1>23
       DEF ReadRow, listVars, callVars, loopVars, RequestsTyped, Request, Present, Row
  <2> QED
    BY <2>1, <2>2, <2>3, <2>4, <2>5
       DEF KeysTypeOK, RowsTyped, ListsTyped, CallsTyped, LoopsTyped, RequestsTyped
<1>24. ASSUME NEW a \in Admins, WriteRow(a) PROVE KeysTypeOK'
  <2>0. admin[a] \in Request
    BY <1>0 DEF RequestsTyped
  <2>1. RowsTyped'
    <3> DEFINE k == admin[a].key
               r == IF admin[a].op = "delete" THEN [status |-> "deleted", until |-> "none"]
                    ELSE Changed(row[k], admin[a].op, admin[a].clear)
    <3>1. CASE UNCHANGED row
      BY <1>0, <3>1 DEF RowsTyped
    <3>2. CASE row[k].status \in Present /\ row' = [row EXCEPT ![k] = r]
      <4>1. CASE k \in Keys
        <5>1. r \in Row /\ (r.status \notin Present => r.until = "none")
          BY <1>0, <2>0, <3>2, <4>1 DEF RowsTyped, Row, Request, Present, Changed
        <5>2. \A j \in Keys : row'[j] = IF j = k THEN r ELSE row[j]
          BY <1>0, <3>2 DEF RowsTyped
        <5> QED
          BY <1>0, <3>2, <4>1, <5>1, <5>2 DEF RowsTyped
      <4>2. CASE k \notin Keys
        BY <1>0, <3>2, <4>2 DEF RowsTyped
      <4> QED
        BY <4>1, <4>2
    <3> QED
      BY <1>24, <3>1, <3>2 DEF WriteRow
  <2>2. ListsTyped'
    BY <1>0, <1>24
       DEF WriteRow, Changed, NoRequest, listVars, callVars, loopVars, ListsTyped,
       Entry, NoList
  <2>3. CallsTyped'
    BY <1>0, <1>24
       DEF WriteRow, Changed, NoRequest, listVars, callVars, loopVars, CallsTyped,
       CallSteps, Refreshing
  <2>4. LoopsTyped'
    BY <1>0, <1>24
       DEF WriteRow, Changed, NoRequest, listVars, callVars, loopVars, LoopsTyped,
       LoopSteps
  <2>5. RequestsTyped'
    <3>1. NoRequest \in Request /\ [NoRequest EXCEPT !.step = "invalidate"] \in Request
      BY DEF NoRequest, Request
    <3>2. /\ UNCHANGED <<changes, faults>>
          /\ \/ admin' = [admin EXCEPT ![a] = NoRequest]
             \/ admin' = [admin EXCEPT ![a] = [NoRequest EXCEPT !.step = "invalidate"]]
      BY <1>24 DEF WriteRow
    <3> QED
      BY <1>0, <3>1, <3>2 DEF RequestsTyped
  <2> QED
    BY <2>1, <2>2, <2>3, <2>4, <2>5
       DEF KeysTypeOK, RowsTyped, ListsTyped, CallsTyped, LoopsTyped, RequestsTyped
<1>25. ASSUME NEW a \in Admins, Invalidate(a) PROVE KeysTypeOK'
  BY <1>25 DEF Invalidate, NoRequest, callVars, loopVars,
     KeysTypeOK, Row, Entry, NoList, Present, Request, CallSteps, Refreshing, LoopSteps
<1>26. CASE UNCHANGED vars
  BY <1>26 DEF KeysTypeOK, vars, listVars, callVars, loopVars
<1> QED
  BY Zenon, NextCases, <1>1, <1>2, <1>3, <1>4, <1>5, <1>6, <1>7, <1>8, <1>9, <1>10, <1>11,
     <1>12, <1>13, <1>14, <1>15, <1>16, <1>17, <1>18, <1>19, <1>20, <1>21,
     <1>22, <1>23, <1>24, <1>25, <1>26

\* The states have the form that KeysTypeOK says; a call refreshes exactly
\* while it holds the lock of its process.
THEOREM KeysTypeCorrect == KeysSpec => []KeysTypeOK
<1>1. KeysInit => KeysTypeOK
  BY InitTyped
<1>2. KeysTypeOK /\ [KeysNext]_vars => KeysTypeOK'
  BY NextTyped
<1> QED
  BY <1>1, <1>2, PTL DEF KeysSpec
-----------------------------------------------------------------------------
(* Disabled keys *)

LEMMA QuietStep ==
  ASSUME KeysTypeOK, [KeysNext]_vars, NEW k \in Keys, Quiet(k)
  PROVE  Quiet(k)' \/ \E a \in Admins : WriteRow(a) /\ admin[a].key = k
<1> USE KeysAssumption DEF Quiet
<1>1. ASSUME NEW c \in Calls, Acquire(c) PROVE Quiet(k)'
  BY <1>1 DEF Acquire, ReadRows, Loaded, Goto, listVars, loopVars, KeysTypeOK
<1>2. ASSUME NEW c \in Calls, Reread(c) PROVE Quiet(k)'
  BY <1>2 DEF Reread, ReadRows, Loaded, Goto, loopVars, KeysTypeOK
<1>3. ASSUME NEW c \in Calls, Store(c) PROVE Quiet(k)'
  BY <1>3 DEF Store, Limited, Refreshed, Goto, KeysTypeOK, NoList
<1>4. ASSUME NEW c \in Calls, SeedCheck(c) PROVE Quiet(k)'
  BY <1>4 DEF SeedCheck, Goto, loopVars, KeysTypeOK
<1>5. ASSUME NEW c \in Calls, SeedInsert(c) PROVE Quiet(k)'
  <2>1. row'[k].status = "disabled"
    <3>1. ASSUME NEW j \in Keys, row[j].status = "unused",
                 row' = [row EXCEPT ![j] = ActiveRow]
          PROVE  row'[k].status = "disabled"
      <4>1. j # k
        BY <3>1
      <4> QED
        BY <3>1, <4>1 DEF KeysTypeOK
    <3>2. CASE UNCHANGED row
      BY <3>2
    <3> QED
      BY <1>5, <3>1, <3>2 DEF SeedInsert
  <2>2. \A d \in Calls : key'[d] = k => pc'[d] = "disable"
    BY <1>5 DEF SeedInsert, Goto, KeysTypeOK
  <2>3. \A p \in Processes : read'[p][k] = "absent"
    BY <1>5 DEF SeedInsert, listVars, loopVars, KeysTypeOK
  <2>4. UNCHANGED <<cache, hand, todo, attached, loop>>
    BY <1>5 DEF SeedInsert, listVars, loopVars
  <2> QED
    BY <2>1, <2>2, <2>3, <2>4
<1>6. ASSUME NEW c \in Calls, RefreshFails(c) PROVE Quiet(k)'
  <2>1. row'[k].status = "disabled"
    BY <1>6 DEF RefreshFails
  <2>2. \A d \in Calls : key'[d] = k => pc'[d] = "disable"
    BY <1>6 DEF RefreshFails, Refreshed, Refreshing, Goto, loopVars, KeysTypeOK
  <2>3. \A p \in Processes : read'[p][k] = "absent"
    BY <1>6 DEF RefreshFails, NoList, loopVars, KeysTypeOK
  <2>4. UNCHANGED <<cache, hand, todo, attached, loop>>
    BY <1>6 DEF RefreshFails, NoList, loopVars
  <2> QED
    BY <2>1, <2>2, <2>3, <2>4
<1>7. ASSUME NEW c \in Calls, Cancel(c) PROVE Quiet(k)'
  <2>1. row'[k].status = "disabled"
    BY <1>7 DEF Cancel
  <2>2. \A d \in Calls : key'[d] = k => pc'[d] = "disable"
    BY <1>7 DEF Cancel, Goto, KeysTypeOK
  <2>3. \A p \in Processes : read'[p][k] = "absent"
    <3>1. \/ UNCHANGED read
          \/ read' = [read EXCEPT ![ProcessOf[c]] = NoList]
      BY <1>7 DEF Cancel
    <3>2. \A p \in Processes : read'[p] = read[p] \/ read'[p] = NoList
      BY <3>1 DEF KeysTypeOK
    <3> QED
      BY <3>2 DEF NoList
  <2>4. UNCHANGED <<cache, hand, todo, attached, loop>>
    BY <1>7 DEF Cancel, NoList, loopVars
  <2> QED
    BY <2>1, <2>2, <2>3, <2>4
<1>8. ASSUME NEW c \in Calls, Choose(c) PROVE Quiet(k)'
  <2>1. \A d \in Calls : key'[d] = k => pc'[d] = "disable"
    <3>1. key'[c] # k
      <4>1. k \notin Active(ProcessOf[c])
        BY DEF Active, KeysAssumption
      <4>2. k # None
        BY DEF KeysAssumption
      <4>3. \/ \E j \in Active(ProcessOf[c]) : key' = [key EXCEPT ![c] = j]
            \/ key' = [key EXCEPT ![c] = None]
        BY <1>8 DEF Choose
      <4> QED
        BY <4>1, <4>2, <4>3 DEF KeysTypeOK
    <3>2. \A d \in Calls \ {c} : key'[d] = key[d] /\ pc'[d] = pc[d]
      BY <1>8 DEF Choose, Goto, KeysTypeOK
    <3> QED
      BY <3>1, <3>2
  <2>2. \A p \in Processes : loop[p] = "write" => loop'[p] = "write"
    BY <1>8 DEF Choose, KeysTypeOK
  <2>3. UNCHANGED <<row, cache, read, hand, todo, attached>>
    BY <1>8 DEF Choose, listVars
  <2> QED
    BY <2>1, <2>2, <2>3
<1>9. ASSUME NEW c \in Calls, Answered(c) PROVE Quiet(k)'
  BY <1>9 DEF Answered, Done, Goto, listVars, loopVars, KeysTypeOK
<1>10. ASSUME NEW c \in Calls, TooMany(c) PROVE Quiet(k)'
  BY <1>10 DEF TooMany, SetEntry, Goto, loopVars, KeysTypeOK
<1>11. ASSUME NEW c \in Calls, LimitRow(c) PROVE Quiet(k)'
  <2>1. row'[k].status = "disabled"
    <3>1. key[c] # k
      BY <1>11 DEF LimitRow
    <3>2. \/ UNCHANGED row
          \/ row' = [row EXCEPT ![key[c]] = LimitedRow]
      BY <1>11 DEF LimitRow, UpdateRow
    <3> QED
      BY <3>1, <3>2 DEF KeysTypeOK
  <2>2. \A d \in Calls : key'[d] = k => pc'[d] = "disable"
    BY <1>11 DEF LimitRow, Done, Goto, KeysTypeOK
  <2>3. \A p \in Processes : read'[p][k] = "absent"
    BY <1>11 DEF LimitRow, listVars, loopVars, KeysTypeOK
  <2>4. UNCHANGED <<cache, hand, todo, attached, loop>>
    BY <1>11 DEF LimitRow, listVars, loopVars
  <2> QED
    BY <2>1, <2>2, <2>3, <2>4
<1>12. ASSUME NEW c \in Calls, Rejected(c) PROVE Quiet(k)'
  BY <1>12 DEF Rejected, SetEntry, Goto, loopVars, KeysTypeOK
<1>13. ASSUME NEW c \in Calls, DisableRow(c) PROVE Quiet(k)'
  <2>1. row'[k].status = "disabled"
    <3>1. \/ UNCHANGED row
          \/ row' = [row EXCEPT ![key[c]] = [row[key[c]] EXCEPT !.status = "disabled"]]
      BY <1>13 DEF DisableRow, UpdateRow
    <3>2. row \in [Keys -> Row] /\ row[k] \in Row
      BY DEF KeysTypeOK
    <3>3. CASE key[c] = k
      BY <3>1, <3>2, <3>3 DEF Row
    <3>4. CASE key[c] # k
      BY <3>1, <3>2, <3>4
    <3> QED
      BY <3>3, <3>4
  <2>2. \A d \in Calls : key'[d] = k => pc'[d] = "disable"
    BY <1>13 DEF DisableRow, Done, Goto, KeysTypeOK
  <2>3. \A p \in Processes : read'[p][k] = "absent"
    BY <1>13 DEF DisableRow, listVars, loopVars, KeysTypeOK
  <2>4. UNCHANGED <<cache, hand, todo, attached, loop>>
    BY <1>13 DEF DisableRow, listVars, loopVars
  <2> QED
    BY <2>1, <2>2, <2>3, <2>4
<1>14. ASSUME NEW p \in Processes, WakeUp(p) PROVE Quiet(k)'
  BY <1>14 DEF WakeUp, WalkOn, Limited, LoopTo, callVars, KeysTypeOK
<1>15. ASSUME NEW p \in Processes, WalkWrite(p) PROVE Quiet(k)'
  BY <1>15
     DEF WalkWrite, WalkOn, Limited, UpdateRow, ActiveRow, Fault, LoopTo, callVars,
     KeysTypeOK
<1>16. ASSUME NEW p \in Processes, Scan(p) PROVE Quiet(k)'
  BY <1>16 DEF Scan, Overdue, LoopTo, listVars, callVars, KeysTypeOK
<1>17. ASSUME NEW p \in Processes, ScanFails(p) PROVE Quiet(k)'
  BY <1>17 DEF ScanFails, Fault, LoopTo, listVars, callVars, KeysTypeOK
<1>18. ASSUME NEW p \in Processes, RowWrite(p) PROVE Quiet(k)'
  BY <1>18
     DEF RowWrite, UpdateRow, ActiveRow, Fault, LoopTo, listVars, callVars, KeysTypeOK
<1>19. ASSUME NEW p \in Processes, RowApply(p) PROVE Quiet(k)'
  BY <1>19 DEF RowApply, SetEntry, LoopTo, callVars, KeysTypeOK
<1>20. ASSUME NEW p \in Processes, GrowOld(p) PROVE Quiet(k)'
  BY <1>20 DEF GrowOld, callVars, loopVars, KeysTypeOK
<1>21. ASSUME NEW j \in Keys, CoolRow(j) PROVE Quiet(k)'
  BY <1>21 DEF CoolRow, listVars, callVars, loopVars, KeysTypeOK
<1>22. ASSUME NEW a \in Admins, Create(a) PROVE Quiet(k)'
  BY <1>22 DEF Create, ActiveRow, listVars, callVars, loopVars, KeysTypeOK
<1>23. ASSUME NEW a \in Admins, NEW j \in Keys,
                NEW op \in Present \cup {"delete"}, ReadRow(a, j, op) PROVE Quiet(k)'
  BY <1>23 DEF ReadRow, listVars, callVars, loopVars, KeysTypeOK
<1>24. ASSUME NEW a \in Admins, admin[a].key # k, WriteRow(a) PROVE Quiet(k)'
  BY <1>24 DEF WriteRow, Changed, NoRequest, listVars, callVars, loopVars, KeysTypeOK
<1>25. ASSUME NEW a \in Admins, Invalidate(a) PROVE Quiet(k)'
  BY <1>25 DEF Invalidate, NoRequest, callVars, loopVars, KeysTypeOK
<1>26. CASE UNCHANGED vars
  BY <1>26 DEF vars, listVars, callVars, loopVars
<1> QED
  BY Zenon, NextCases, <1>1, <1>2, <1>3, <1>4, <1>5, <1>6, <1>7, <1>8, <1>9, <1>10, <1>11,
     <1>12, <1>13, <1>14, <1>15, <1>16, <1>17, <1>18, <1>19, <1>20, <1>21,
     <1>22, <1>23, <1>24, <1>25, <1>26

\* No loop, refresh or call brings a disabled key back that none of them has
\* seen usable; only an administrator does.
THEOREM KeysStayQuiet == KeysSpec => QuietKeysStayQuiet
<1>1. KeysTypeOK /\ [KeysNext]_vars
        => [\A k \in Keys :
              Quiet(k) => Quiet(k)' \/ \E a \in Admins : WriteRow(a) /\ admin[a].key = k]_vars
  BY QuietStep
<1> QED
  BY <1>1, KeysTypeCorrect, PTL DEF KeysSpec, QuietKeysStayQuiet
=============================================================================
