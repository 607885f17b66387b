------------------------- MODULE ConnLifecycleProofs -------------------------
(***************************************************************************)
(* The connection limit and the drain guarantee of Stop, for any number of *)
(* connections and any limit.                                              *)
(*                                                                         *)
(* ConnLimit follows from what the semaphore counts, DrainTracked from     *)
(* what the WaitGroup counts: both are cardinalities of sets of handlers   *)
(* (Accounting), which need the place of each connection (Bookkeeping).    *)
(* DrainVerdict carries the WaitGroup's zero over to the connections that  *)
(* were tracked when Stop was called.                                      *)
(***************************************************************************)
EXTENDS ConnLifecycle, FiniteSetTheorems, TLAPS

IInv == TypeOK /\ Inductive

(* The sets that are counted are finite. *)
LEMMA CountedSetsFinite ==
    ASSUME TypeOK
    PROVE  /\ IsFiniteSet(SlotHolders) /\ Cardinality(SlotHolders) \in Nat
           /\ IsFiniteSet(Counted) /\ Cardinality(Counted) \in Nat
  <1>1. SlotHolders \in SUBSET Conns /\ Counted \in SUBSET Conns
    BY DEF TypeOK, SlotHolders, Counted
  <1>. QED  BY <1>1, LifecycleAssumption, FS_Subset, FS_CardinalityType

(* The invariant holds before the first client connects. *)
LEMMA InitIInv == Init => IInv
  <1>. SUFFICES ASSUME Init PROVE IInv
    OBVIOUS
  <1>1. SlotHolders = {} /\ Counted = {}
    BY DEF Init, SlotHolders, Counted
  <1>2. TypeOK
    <2>1. hungUp \in [Conns -> BOOLEAN] /\ shuttingDown \in BOOLEAN
      BY Zenon DEF Init
    <2>2. connSem \in 0 .. MaxConns /\ connWG \in Nat
      BY LifecycleAssumption DEF Init
    <2>3. link \in [Conns -> LinkState] /\ hpc \in [Conns -> HandlerState]
      BY Zenon DEF Init, LinkState, HandlerState
    <2>. QED  BY <2>1, <2>2, <2>3 DEF Init, TypeOK, AcceptState, StopState, WaiterState
  <1>3. Accounting
    BY <1>1, FS_EmptySet DEF Init, Accounting
  <1>4. Bookkeeping /\ DrainVerdict
    BY DEF Init, Bookkeeping, DrainVerdict
  <1>. QED  BY <1>2, <1>3, <1>4 DEF IInv, Inductive

(* Steps that move no connection from one place to another: clients and    *)
(* Stop.  What they must respect is the verdict of the waiter.             *)
LEMMA OutsideStep ==
    ASSUME IInv,
           \/ \E c \in Conns : Connect(c) \/ HangUp(c)
           \/ StopBegins \/ Stop \/ WaiterWaits \/ UNCHANGED vars
    PROVE  IInv'
  <1>1. UNCHANGED <<acceptPC, incoming, connSem, connWG, conns, hpc>>
    BY DEF Connect, HangUp, StopBegins, Stop, StopClosesListener, StopStartsWaiter,
       StopDrained, StopTimesOut, StopSweeps, StopJoins, StopReturns, WaiterWaits,
       vars, acceptVars
  <1>2. Accounting'
    <2>1. SlotHolders' = SlotHolders /\ Counted' = Counted
      BY <1>1 DEF SlotHolders, Counted
    <2>. QED  BY <1>1, <2>1 DEF IInv, Inductive, Accounting
  <1>3. TypeOK'
    BY <1>1, ZenonT(30)
       DEF IInv, Inductive, TypeOK, LinkState, StopState, WaiterState, Connect, HangUp,
       StopBegins, Stop, StopClosesListener, StopStartsWaiter, StopDrained,
       StopTimesOut, StopSweeps, StopJoins, StopReturns, WaiterWaits, vars
  <1>4. Bookkeeping'
    <2>1. \A c \in Conns :
            /\ link[c] = "open" /\ c \notin conns => link'[c] = "open"
            /\ link'[c] \in {"unused", "backlog"} => link[c] \in {"unused", "backlog"}
      BY DEF IInv, Inductive, TypeOK, Connect, HangUp, StopBegins, Stop, StopClosesListener,
         StopStartsWaiter, StopDrained, StopTimesOut, StopSweeps, StopJoins,
         StopReturns, WaiterWaits, vars
    <2>. QED  BY <1>1, <2>1 DEF IInv, Inductive, Bookkeeping
  <1>5. DrainVerdict'
    <2>1. CASE StopBegins
      BY <1>1, <2>1 DEF IInv, Inductive, Bookkeeping, DrainVerdict, StopBegins
    <2>2. CASE WaiterWaits
      <3>1. connWG = 0 => Counted = {}
        BY CountedSetsFinite, FS_EmptySet, ZenonT(30) DEF IInv, Inductive, Accounting
      <3>2. Counted = {} => \A c \in atStop : hpc[c] = "gone"
        BY DEF IInv, Inductive, TypeOK, DrainVerdict, Counted, HandlerState
      <3>. QED  BY <1>1, <2>2, <3>1, <3>2 DEF IInv, Inductive, DrainVerdict, WaiterWaits
    <2>3. CASE \/ \E c \in Conns : Connect(c) \/ HangUp(c)
               \/ Stop \/ UNCHANGED vars
      BY <1>1, <2>3
         DEF IInv, Inductive, DrainVerdict, Connect, HangUp, Stop, StopClosesListener,
         StopStartsWaiter, StopDrained, StopTimesOut, StopSweeps, StopJoins,
         StopReturns, vars
    <2>. QED  BY <2>1, <2>2, <2>3
  <1>. QED  BY <1>2, <1>3, <1>4, <1>5 DEF IInv, Inductive

(* The accept loop, step by step. *)
LEMMA AcceptStep ==
    ASSUME IInv,
           \/ AcceptFails \/ AcquireConnSem \/ AddConnWG
           \/ \E c \in Conns : Accept(c) \/ Track(c)
    PROVE  IInv'
  <1>. USE DEF IInv, Inductive
  <1>0. UNCHANGED <<hungUp, busy, stopVars>>
    BY DEF AcceptFails, AcquireConnSem, AddConnWG, Accept, Track
  <1>1. DrainVerdict'
    <2>1. \A c \in Conns : hpc'[c] # hpc[c] => hpc[c] = "none" /\ hpc'[c] = "serving"
      BY DEF TypeOK, Bookkeeping, AcceptFails, AcquireConnSem, AddConnWG, Accept, Track
    <2>. QED  BY <1>0, <2>1 DEF TypeOK, DrainVerdict, stopVars
  <1>2. CASE AcceptFails
    <2>1. UNCHANGED <<link, incoming, connSem, connWG, conns, hpc>>
          /\ acceptPC = "accept" /\ acceptPC' = "returned" /\ incoming = {}
      BY <1>2 DEF AcceptFails, Bookkeeping
    <2>2. SlotHolders' = SlotHolders /\ Counted' = Counted
      BY <2>1 DEF SlotHolders, Counted
    <2>. QED  BY <1>0, <1>1, <2>1, <2>2
              DEF TypeOK, Bookkeeping, Accounting, AcceptState, stopVars
  <1>3. ASSUME NEW c \in Conns, Accept(c)
        PROVE  IInv'
    <2>1. /\ acceptPC = "accept" /\ acceptPC' = "acquire"
          /\ incoming = {} /\ incoming' = {c}
          /\ UNCHANGED <<connSem, connWG, conns, hpc>>
          /\ link[c] = "backlog" /\ link' = [link EXCEPT ![c] = "open"]
      BY <1>3 DEF Accept, Bookkeeping
    <2>2. SlotHolders' = SlotHolders /\ Counted' = Counted
      BY <2>1 DEF SlotHolders, Counted
    <2>3. TypeOK'
      BY <1>0, <2>1 DEF TypeOK, AcceptState, LinkState, stopVars
    <2>4. Bookkeeping'
      BY <2>1 DEF TypeOK, Bookkeeping
    <2>. QED  BY <1>1, <2>1, <2>2, <2>3, <2>4 DEF Accounting
  <1>4. CASE AcquireConnSem
    <2>1. PICK c \in Conns : incoming = {c}
      BY <1>4 DEF AcquireConnSem, Bookkeeping
    <2>2. /\ acceptPC = "acquire" /\ acceptPC' = "add"
          /\ connSem < MaxConns /\ connSem' = connSem + 1
          /\ UNCHANGED <<link, incoming, connWG, conns, hpc>>
          /\ hpc[c] = "none"
      BY <1>4, <2>1 DEF AcquireConnSem, Bookkeeping
    <2>3. SlotHolders' = SlotHolders \union {c} /\ c \notin SlotHolders
      BY <2>1, <2>2 DEF SlotHolders
    <2>4. Counted' = Counted
      BY <2>2 DEF Counted
    <2>5. Cardinality(SlotHolders') = Cardinality(SlotHolders) + 1
      BY <2>3, CountedSetsFinite, FS_AddElement, ZenonT(30)
    <2>6. TypeOK'
      BY <1>0, <2>2, LifecycleAssumption DEF TypeOK, AcceptState, stopVars
    <2>. QED  BY <1>1, <2>1, <2>2, <2>4, <2>5, <2>6 DEF Bookkeeping, Accounting
  <1>5. CASE AddConnWG
    <2>1. PICK c \in Conns : incoming = {c}
      BY <1>5 DEF AddConnWG, Bookkeeping
    <2>2. /\ acceptPC = "add" /\ acceptPC' = "track"
          /\ connWG' = connWG + 1
          /\ UNCHANGED <<link, incoming, connSem, conns, hpc>>
          /\ hpc[c] = "none"
      BY <1>5, <2>1 DEF AddConnWG, Bookkeeping
    <2>3. Counted' = Counted \union {c} /\ c \notin Counted
      BY <2>1, <2>2 DEF Counted
    <2>4. SlotHolders' = SlotHolders
      BY <2>2 DEF SlotHolders
    <2>5. Cardinality(Counted') = Cardinality(Counted) + 1
      BY <2>3, CountedSetsFinite, FS_AddElement, ZenonT(30)
    <2>6. TypeOK'
      BY <1>0, <2>2 DEF TypeOK, AcceptState, stopVars
    <2>. QED  BY <1>1, <2>1, <2>2, <2>4, <2>5, <2>6 DEF Bookkeeping, Accounting
  <1>6. ASSUME NEW c \in Conns, Track(c)
        PROVE  IInv'
    <2>1. /\ acceptPC = "track" /\ acceptPC' = "accept"
          /\ incoming = {c} /\ incoming' = {}
          /\ conns' = conns \union {c}
          /\ hpc[c] = "none" /\ hpc' = [hpc EXCEPT ![c] = "serving"]
          /\ link[c] = "open"
          /\ UNCHANGED <<link, connSem, connWG>>
      BY <1>6 DEF Track, Bookkeeping
    <2>2. SlotHolders' = SlotHolders /\ Counted' = Counted
      BY <2>1 DEF TypeOK, SlotHolders, Counted
    <2>3. TypeOK'
      BY <1>0, <2>1 DEF TypeOK, AcceptState, HandlerState, stopVars
    <2>4. Bookkeeping'
      BY <2>1 DEF TypeOK, Bookkeeping
    <2>. QED  BY <1>1, <2>1, <2>2, <2>3, <2>4 DEF Accounting
  <1>. QED  BY <1>2, <1>3, <1>4, <1>5, <1>6

(* A handler on its way out. *)
LEMMA HandlerStep ==
    ASSUME IInv, NEW c \in Conns, HandlerReturns(c) \/ TearDown(c)
    PROVE  IInv'
  <1>. USE DEF IInv, Inductive
  <1>0. /\ UNCHANGED <<hungUp, busy, acceptVars, shuttingDown, stopPC, atStop>>
        /\ c \notin incoming
    BY DEF HandlerReturns, TearDown, Untrack, ReleaseConnSem, DoneConnWG, stopVars,
       Bookkeeping
  <1>1. CASE HandlerReturns(c) \/ Untrack(c)
    <2>1. /\ hpc[c] \in {"serving", "untrack"}
          /\ \E h \in {"untrack", "release"} : hpc' = [hpc EXCEPT ![c] = h]
          /\ UNCHANGED <<connSem, connWG, waiter>>
      BY <1>1 DEF HandlerReturns, Untrack, stopVars
    <2>2. SlotHolders' = SlotHolders /\ Counted' = Counted
      BY <1>0, <2>1 DEF TypeOK, SlotHolders, Counted, acceptVars
    <2>3. TypeOK'
      BY <1>0, <1>1, <2>1 DEF TypeOK, HandlerReturns, Untrack, LinkState, HandlerState,
         acceptVars
    <2>4. Bookkeeping'
      BY <1>0, <1>1 DEF TypeOK, Bookkeeping, HandlerReturns, Untrack, acceptVars
    <2>5. DrainVerdict'
      BY <1>0, <2>1 DEF TypeOK, DrainVerdict
    <2>. QED  BY <2>1, <2>2, <2>3, <2>4, <2>5 DEF Accounting
  <1>2. CASE ReleaseConnSem(c)
    <2>1. /\ hpc[c] = "release" /\ hpc' = [hpc EXCEPT ![c] = "done"]
          /\ connSem' = connSem - 1
          /\ UNCHANGED <<link, connWG, conns, waiter>>
      BY <1>2 DEF ReleaseConnSem, stopVars
    <2>2. /\ SlotHolders' = SlotHolders \ {c} /\ c \in SlotHolders
          /\ Counted' = Counted
      BY <1>0, <2>1 DEF TypeOK, SlotHolders, Counted, acceptVars
    <2>3. Cardinality(SlotHolders') = Cardinality(SlotHolders) - 1
          /\ Cardinality(SlotHolders) \in Nat \ {0}
      BY <2>2, CountedSetsFinite, FS_RemoveElement, FS_EmptySet, SMTT(30)
    <2>4. TypeOK'
      BY <1>0, <2>1, <2>3, LifecycleAssumption
         DEF TypeOK, Accounting, HandlerState, acceptVars
    <2>5. Bookkeeping' /\ DrainVerdict'
      BY <1>0, <2>1 DEF TypeOK, Bookkeeping, DrainVerdict, acceptVars
    <2>. QED  BY <2>1, <2>2, <2>3, <2>4, <2>5 DEF Accounting
  <1>3. CASE DoneConnWG(c)
    <2>1. /\ hpc[c] = "done" /\ hpc' = [hpc EXCEPT ![c] = "gone"]
          /\ connWG' = connWG - 1
          /\ waiter' = IF connWG = 1 /\ waiter = "waiting" THEN "done" ELSE waiter
          /\ UNCHANGED <<link, connSem, conns>>
      BY <1>3 DEF DoneConnWG
    <2>2. /\ Counted' = Counted \ {c} /\ c \in Counted
          /\ SlotHolders' = SlotHolders
      BY <1>0, <2>1 DEF TypeOK, SlotHolders, Counted, acceptVars
    <2>3. Cardinality(Counted') = Cardinality(Counted) - 1
          /\ Cardinality(Counted) \in Nat \ {0}
      BY <2>2, CountedSetsFinite, FS_RemoveElement, FS_EmptySet, SMTT(30)
    <2>4. TypeOK'
      BY <1>0, <2>1, <2>3 DEF TypeOK, Accounting, HandlerState, WaiterState, acceptVars
    <2>5. Bookkeeping'
      BY <1>0, <2>1 DEF TypeOK, Bookkeeping, acceptVars
    <2>6. DrainVerdict'
      <3>1. connWG = 1 => Counted' = {}
        <4>1. IsFiniteSet(Counted')
          BY <2>2, CountedSetsFinite, FS_RemoveElement
        <4>. QED  BY <2>3, <4>1, FS_EmptySet DEF Accounting
      <3>2. Counted' = {} => \A d \in atStop : hpc'[d] = "gone"
        BY <1>0, <2>1, <2>4 DEF TypeOK, DrainVerdict, Counted, HandlerState
      <3>. QED  BY <1>0, <2>1, <3>1, <3>2 DEF TypeOK, DrainVerdict
    <2>. QED  BY <2>1, <2>2, <2>3, <2>4, <2>5, <2>6 DEF Accounting
  <1>. QED  BY <1>1, <1>2, <1>3 DEF TearDown

(* A handler that starts or ends waiting for a worker moves nothing else. *)
LEMMA BusyStep ==
    ASSUME IInv, NEW c \in Conns, TakesUp(c) \/ GetsDone(c)
    PROVE  IInv'
  <1>1. UNCHANGED <<link, hungUp, acceptPC, incoming, connSem, connWG, conns, hpc,
                    shuttingDown, stopPC, waiter, atStop>>
    BY DEF TakesUp, GetsDone, acceptVars, stopVars
  <1>2. busy' \in SUBSET Conns
    BY DEF IInv, TypeOK, TakesUp, GetsDone
  <1>3. TypeOK'
    BY <1>1, <1>2 DEF IInv, TypeOK
  <1>4. SlotHolders' = SlotHolders /\ Counted' = Counted
    BY <1>1 DEF SlotHolders, Counted
  <1>5. Accounting'
    BY <1>1, <1>4 DEF IInv, Inductive, Accounting
  <1>6. Bookkeeping' /\ DrainVerdict'
    BY <1>1 DEF IInv, Inductive, Bookkeeping, DrainVerdict
  <1>. QED  BY <1>3, <1>5, <1>6 DEF IInv, Inductive

(* No step of any goroutine or client breaks the invariant. *)
LEMMA NextStep == IInv /\ [Next]_vars => IInv'
  BY OutsideStep, AcceptStep, BusyStep, HandlerStep DEF Next, AcceptLoop

(* So the invariant holds throughout. *)
LEMMA Invariance == Spec => []IInv
  BY InitIInv, NextStep, PTL DEF Spec

(* Every variable keeps its type; connSem stays within the channel's        *)
(* capacity and connWG never becomes negative (Go would panic).             *)
THEOREM TypeCorrect == Spec => []TypeOK
  BY Invariance, PTL DEF IInv

(* connSem and connWG are exact at every step: no path of admission or      *)
(* cleanup leaks a slot or a count, and the sweep's map misses nothing.     *)
THEOREM InductiveHolds == Spec => []Inductive
  BY Invariance, PTL DEF IInv

(* However many clients connect, at most MaxConns are served at once. *)
THEOREM ConnLimitHolds == Spec => []ConnLimit
  <1>1. IInv => ConnLimit
    <2>. SUFFICES ASSUME IInv PROVE ConnLimit
      OBVIOUS
    <2>1. Serving \in SUBSET SlotHolders
      BY DEF Serving, SlotHolders
    <2>2. /\ Cardinality(Serving) <= Cardinality(SlotHolders)
          /\ IsFiniteSet(Serving)
      BY <2>1, CountedSetsFinite, FS_Subset DEF IInv, Inductive
    <2>3. Cardinality(Serving) \in Nat
      BY <2>2, FS_CardinalityType
    <2>. QED  BY <2>2, <2>3, LifecycleAssumption
                 DEF IInv, Inductive, TypeOK, Accounting, ConnLimit
  <1>. QED  BY Invariance, <1>1, PTL

(* Stop never gets to removing the socket while a connection that was       *)
(* tracked when it was called is still being served.                        *)
THEOREM DrainTrackedHolds == Spec => []DrainTracked
  <1>1. IInv => DrainTracked
    BY DEF IInv, Inductive, DrainVerdict, DrainTracked
  <1>. QED  BY Invariance, <1>1, PTL
=============================================================================
