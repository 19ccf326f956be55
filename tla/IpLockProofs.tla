---------------------------- MODULE IpLockProofs ----------------------------
(***************************************************************************)
(* Theorems about IpLock for any set of clients and any bounds.  The lock  *)
(* is proved from IInv, in which the lists of recent addresses play no     *)
(* part; the lists are proved from ListInv.                                *)
(***************************************************************************)
EXTENDS IpLock, FiniteSetTheorems, SequenceTheorems, WellFoundedInduction, TLAPS

\* The typing facts the proofs use, with two facts about the lock file and a
\* stopped process that the type invariant does not state.
CoreType ==
    /\ up \in BOOLEAN
    /\ conns \in Seq(Addr)
    /\ locked \in Addr
    /\ accepting \in Addr
    /\ lockFile \in LockFile
    /\ clock \in Nat \ {0}
    /\ writing \in Addr
    /\ disturb \in Nat
    /\ lockFile.mtime = 0 => lockFile.ip = NoIp
    /\ ~up => conns = <<>>

IInv == CoreType /\ LockBudget

-----------------------------------------------------------------------------
(* Connection lists *)

\* The addresses of a list are clients, so there are finitely many.
LEMMA LiveIpsFinite ==
    ASSUME NEW cs \in Seq(Addr)
    PROVE  LiveIps(cs) \subseteq Ip /\ IsFiniteSet(LiveIps(cs))
<1>1. LiveIps(cs) \subseteq Ip
    BY DEF LiveIps, Known, Addr
<1>2. QED
    BY <1>1, IpAssumption, FS_Subset

\* A new connection adds its peer, if it is known.
LEMMA LiveIpsAppend ==
    ASSUME NEW cs \in Seq(Addr), NEW p \in Addr
    PROVE  /\ Append(cs, p) \in Seq(Addr)
           /\ LiveIps(Append(cs, p)) \subseteq LiveIps(cs) \cup ({p} \ {NoIp})
    BY DEF LiveIps, Known

\* Closing a connection adds no address.
LEMMA LiveIpsWithout ==
    ASSUME NEW cs \in Seq(Addr), NEW i \in DOMAIN cs
    PROVE  /\ Without(cs, i) \in Seq(Addr)
           /\ LiveIps(Without(cs, i)) \subseteq LiveIps(cs)
<1>1. Len(cs) \in Nat /\ DOMAIN cs = 1..Len(cs) /\ Len(cs) - 1 \in Nat
    OBVIOUS
<1>2. Without(cs, i) \in [1..(Len(cs) - 1) -> Addr]
    BY <1>1 DEF Without
<1>3. Without(cs, i) \in Seq(Addr) /\ DOMAIN Without(cs, i) = 1..(Len(cs) - 1)
    BY <1>1, <1>2
<1>4. LiveIps(Without(cs, i)) \subseteq LiveIps(cs)
    <2>1. ASSUME NEW j \in 1..(Len(cs) - 1), Without(cs, i)[j] # NoIp
          PROVE  Without(cs, i)[j] \in LiveIps(cs)
        <3>1. CASE j < i
            BY <3>1, <1>1, <2>1 DEF Without, LiveIps, Known
        <3>2. CASE ~(j < i)
            BY <3>2, <1>1, <2>1 DEF Without, LiveIps, Known
        <3>3. QED BY <3>1, <3>2
    <2>2. QED
        BY <2>1, <1>3 DEF LiveIps, Known
<1>5. QED BY <1>3, <1>4

\* No connection, no address.
LEMMA LiveIpsEmpty == LiveIps(<<>>) = {} /\ Cardinality({}) = 0
    BY FS_EmptySet DEF LiveIps, Known

\* Cardinality is monotone on sets of clients.
LEMMA ClientsMonotone ==
    ASSUME NEW S, NEW T, T \subseteq Ip, S \subseteq T
    PROVE  /\ Cardinality(S) \in Nat
           /\ Cardinality(T) \in Nat
           /\ Cardinality(S) <= Cardinality(T)
    BY IpAssumption, FS_Subset, FS_CardinalityType

\* Forgetting one excluded address adds at most that one.
LEMMA ClientsExclude ==
    ASSUME NEW S, S \subseteq Ip, NEW x, NEW y
    PROVE  Cardinality(S \ {y}) <= Cardinality(S \ {x}) + 1
<1>1. IsFiniteSet(S) /\ IsFiniteSet(S \ {x}) /\ IsFiniteSet(S \ {y})
    BY IpAssumption, FS_Subset
<1>2. IsFiniteSet((S \ {x}) \cup {x})
      /\ Cardinality((S \ {x}) \cup {x}) = Cardinality(S \ {x}) + 1
    BY <1>1, FS_AddElement, x \notin S \ {x}
<1>3. S \ {y} \subseteq (S \ {x}) \cup {x}
    OBVIOUS
<1>4. Cardinality(S \ {y}) <= Cardinality((S \ {x}) \cup {x})
    BY <1>2, <1>3, FS_Subset
<1>5. QED BY <1>2, <1>4

-----------------------------------------------------------------------------
(* The budget of disturbances *)

\* The second half of accept_cb keeps the budget, if the reload did.
LEMMA DecideKeepsBudget ==
    ASSUME CoreType, NEW p \in Ip, NEW l \in Addr, NEW mtime, NEW inc, NEW blk,
           NEW ok \in BOOLEAN, Decide(p, l, mtime, inc, blk, ok),
           Cardinality(LiveIps(conns) \ {l})
               + (IF lockFile.ip # l THEN 1 ELSE 0) <= disturb
    PROVE  /\ conns' \in Seq(Addr)
           /\ locked' \in Addr
           /\ lockFile' \in LockFile
           /\ disturb' \in Nat
           /\ lockFile'.mtime = 0 => lockFile'.ip = NoIp
           /\ Cardinality(LiveIps(conns') \ {locked'})
                  + (IF lockFile'.ip # locked' THEN 1 ELSE 0) <= disturb'
<1> DEFINE Before == Cardinality(LiveIps(conns) \ {l})
           After  == Cardinality(LiveIps(conns') \ {locked'})
<1>1. LiveIps(conns) \subseteq Ip /\ IsFiniteSet(LiveIps(conns))
    BY LiveIpsFinite DEF CoreType
<1>2. CASE Refuse(p, l, mtime, inc, blk, ok)
    BY <1>2 DEF Refuse, CoreType
<1>3. CASE Admit(p, l, mtime, inc, blk, ok)
    <2>0. PICK wrote \in WriteOutcomes : SetLock(p, l, mtime, wrote)
        BY <1>3 DEF Admit
    <2>1. conns' = Append(conns, p) /\ SetLock(p, l, mtime, wrote) /\ Allowed(p, l)
        BY <1>3, <2>0 DEF Admit
    <2>2. conns' \in Seq(Addr) /\ LiveIps(conns') \subseteq LiveIps(conns) \cup {p}
        BY <2>1, LiveIpsAppend DEF CoreType, Addr
    <2>3. locked' = p
        BY <2>1 DEF SetLock, Takes
    <2>4. LiveIps(conns') \ {locked'} \subseteq LiveIps(conns) \ {l}
        <3>1. CASE p = l
            BY <3>1, <2>2, <2>3
        <3>2. CASE p # l
            <4>1. l \notin LiveIps(conns)
                BY <3>2, <2>1, <1>1, IpAssumption DEF Allowed, HasConn
            <4>2. QED BY <4>1, <2>2, <2>3
        <3>3. QED BY <3>1, <3>2
    <2>5. Before \in Nat /\ After \in Nat /\ After <= Before
        BY <2>4, <1>1, ClientsMonotone
    <2>6. CASE Takes(p, l) /\ wrote
        <3>1. lockFile' = [ip |-> p, mtime |-> clock] /\ disturb' = disturb
            BY <2>6, <2>1 DEF SetLock
        <3>2. QED BY <3>1, <2>2, <2>3, <2>5 DEF CoreType, LockFile, Addr
    <2>7. CASE Takes(p, l) /\ ~wrote
        <3>1. lockFile' = lockFile /\ disturb' = disturb + 1
            BY <2>7, <2>1 DEF SetLock
        <3>2. QED BY <3>1, <2>2, <2>3, <2>5 DEF CoreType, Addr
    <2>8. CASE ~Takes(p, l)
        <3>1. lockFile' = lockFile /\ disturb' = disturb /\ p = l
            BY <2>8, <2>1 DEF SetLock, Takes
        <3>2. QED BY <3>1, <2>2, <2>3, <2>5 DEF CoreType, Addr
    <2>9. QED BY <2>6, <2>7, <2>8
<1>4. QED BY <1>2, <1>3 DEF Decide

\* Reading the lock file: the budget, seen from the address it names.
LEMMA ReadKeepsBudget ==
    ASSUME IInv, up
    PROVE  Cardinality(LiveIps(conns) \ {lockFile.ip}) <= disturb
<1>1. LiveIps(conns) \subseteq Ip
    BY LiveIpsFinite DEF IInv, CoreType
<1>2. /\ Cardinality(LiveIps(conns) \ {locked}) \in Nat
      /\ Cardinality(LiveIps(conns) \ {lockFile.ip}) \in Nat
    BY <1>1, ClientsMonotone, LiveIps(conns) \ {locked} \subseteq Ip,
       LiveIps(conns) \ {lockFile.ip} \subseteq Ip
<1>3. Cardinality(LiveIps(conns) \ {lockFile.ip})
          <= Cardinality(LiveIps(conns) \ {locked}) + 1
    BY <1>1, ClientsExclude
<1>4. CASE lockFile.ip = locked
    BY <1>4, <1>2 DEF IInv, CoreType, LockBudget
<1>5. CASE lockFile.ip # locked
    BY <1>5, <1>2, <1>3 DEF IInv, CoreType, LockBudget
<1>6. QED BY <1>4, <1>5

\* A step that leaves the holder and the lock file alone and adds no address.
LEMMA QuietKeepsBudget ==
    ASSUME IInv, conns' \in Seq(Addr), LiveIps(conns') \subseteq LiveIps(conns),
           UNCHANGED <<up, locked, accepting, lockFile, writing, disturb>>,
           clock' \in Nat \ {0}, ~up' => conns' = <<>>
    PROVE  IInv'
<1>1. LiveIps(conns) \subseteq Ip
    BY LiveIpsFinite DEF IInv, CoreType
<1>2. /\ Cardinality(LiveIps(conns') \ {locked}) \in Nat
      /\ Cardinality(LiveIps(conns) \ {locked}) \in Nat
      /\ Cardinality(LiveIps(conns') \ {locked}) <= Cardinality(LiveIps(conns) \ {locked})
    BY <1>1, ClientsMonotone, LiveIps(conns') \ {locked} \subseteq LiveIps(conns) \ {locked},
       LiveIps(conns) \ {locked} \subseteq Ip
<1>3. LiveIps(conns)' = LiveIps(conns')
    BY DEF LiveIps, Known
<1>4. QED BY <1>2, <1>3 DEF IInv, CoreType, LockBudget

\* A disturbance pays for whatever it does to the lock file.
LEMMA DisturbKeepsBudget ==
    ASSUME IInv, Disturb, UNCHANGED <<up, memory, clock>>,
           writing' \in Addr, lockFile' \in LockFile,
           lockFile'.mtime = 0 => lockFile'.ip = NoIp
    PROVE  IInv'
<1>1. LiveIps(conns) \subseteq Ip
    BY LiveIpsFinite DEF IInv, CoreType
<1>2. Cardinality(LiveIps(conns) \ {locked}) \in Nat
    BY <1>1, ClientsMonotone, LiveIps(conns) \ {locked} \subseteq Ip
<1>3. LiveIps(conns)' = LiveIps(conns)
    BY DEF LiveIps, Known, memory
<1>4. QED BY <1>2, <1>3 DEF IInv, CoreType, LockBudget, Disturb, memory

\* Every callback that ends in Decide keeps the invariant.
LEMMA AcceptKeepsIInv ==
    ASSUME IInv, up, NEW p \in Ip, NEW l \in Addr, NEW mtime, NEW inc, NEW blk,
           NEW ok \in BOOLEAN, Decide(p, l, mtime, inc, blk, ok),
           l = lockFile.ip \/ l = locked,
           UNCHANGED <<up, clock, writing>>, accepting' \in Addr
    PROVE  IInv'
<1>1. Cardinality(LiveIps(conns) \ {l}) + (IF lockFile.ip # l THEN 1 ELSE 0) <= disturb
    <2>1. Cardinality(LiveIps(conns) \ {l}) \in Nat
        BY LiveIpsFinite, ClientsMonotone, LiveIps(conns) \ {l} \subseteq LiveIps(conns)
           DEF IInv, CoreType
    <2>2. CASE l = lockFile.ip
        BY <2>1, <2>2, ReadKeepsBudget
    <2>3. CASE l = locked
        BY <2>3 DEF IInv, LockBudget
    <2>4. QED BY <2>2, <2>3
<1>2. /\ conns' \in Seq(Addr)
      /\ locked' \in Addr
      /\ lockFile' \in LockFile
      /\ disturb' \in Nat
      /\ lockFile'.mtime = 0 => lockFile'.ip = NoIp
      /\ Cardinality(LiveIps(conns') \ {locked'})
             + (IF lockFile'.ip # locked' THEN 1 ELSE 0) <= disturb'
    BY <1>1, DecideKeepsBudget DEF IInv
<1>3. LiveIps(conns)' = LiveIps(conns')
    BY DEF LiveIps, Known
<1>4. QED BY <1>2, <1>3 DEF IInv, CoreType, LockBudget

\* The invariant holds of the initial state ...
LEMMA InitIInv == Init => IInv
<1> SUFFICES ASSUME Init PROVE IInv
    OBVIOUS
<1>1. CoreType
    <2>1. up \in BOOLEAN /\ ~up
        BY Zenon DEF Init
    <2>2. conns \in Seq(Addr) /\ conns = <<>>
        BY DEF Init
    <2>3. QED BY <2>1, <2>2 DEF Init, CoreType, Addr, NoFile, LockFile
<1>2. LockBudget
    BY DEF Init, LockBudget
<1>3. QED BY <1>1, <1>2 DEF IInv

\* ... and is kept by every step.
LEMMA NextIInv == IInv /\ [Next]_vars => IInv'
<1> SUFFICES ASSUME IInv, [Next]_vars PROVE IInv'
    OBVIOUS
<1>0. WriteOutcomes \subseteq BOOLEAN /\ Ip \subseteq Addr /\ NoIp \in Addr
    BY BoundAssumption DEF Addr
<1>1. ASSUME NEW ok \in WriteOutcomes, AcceptUnknown(ok) PROVE IInv'
    <2>1. conns' = Append(conns, NoIp) /\ up
        BY <1>1 DEF AcceptUnknown, Accepts, Idle
    <2>2. conns' \in Seq(Addr) /\ LiveIps(conns') \subseteq LiveIps(conns)
        BY <2>1, <1>0, LiveIpsAppend DEF IInv, CoreType
    <2>3. QED
        BY <2>1, <2>2, <1>1, QuietKeepsBudget DEF AcceptUnknown, IInv, CoreType
<1>2. ASSUME NEW ok \in WriteOutcomes, NEW p \in Ip, AcceptNoFile(p, ok) PROVE IInv'
    <2>1. up /\ accepting' \in Addr /\ lockFile.ip = NoIp
        BY <1>2 DEF AcceptNoFile, Accepts, Idle, IInv, CoreType
    <2>2. QED
        BY <2>1, <1>0, <1>2, AcceptKeepsIInv DEF AcceptNoFile
<1>3. ASSUME NEW ok \in WriteOutcomes, NEW p \in Ip, AcceptCached(p, ok) PROVE IInv'
    <2>1. up /\ accepting' \in Addr /\ locked \in Addr
        BY <1>3 DEF AcceptCached, Accepts, Idle, IInv, CoreType
    <2>2. QED
        BY <2>1, <1>0, <1>3, AcceptKeepsIInv DEF AcceptCached
<1>4. ASSUME NEW p \in Ip, AcceptStat(p) PROVE IInv'
    <2>1. LiveIps(conns)' = LiveIps(conns)
        BY <1>4 DEF AcceptStat, LiveIps, Known
    <2>2. QED
        BY <2>1, <1>0, <1>4 DEF AcceptStat, IInv, CoreType, LockBudget
<1>5. ASSUME NEW ok \in WriteOutcomes, AcceptRead(ok) PROVE IInv'
    <2>1. up /\ accepting' \in Addr /\ accepting \in Ip /\ lockFile.ip \in Addr
        BY <1>5, <1>0 DEF AcceptRead, IInv, CoreType, Addr, LockFile
    <2>2. QED
        BY <2>1, <1>0, <1>5, AcceptKeepsIInv DEF AcceptRead
<1>6. ASSUME NEW ok \in WriteOutcomes, AcceptGone(ok) PROVE IInv'
    <2>1. up /\ accepting' \in Addr /\ accepting \in Ip /\ lockFile.ip = NoIp
        BY <1>6, <1>0 DEF AcceptGone, IInv, CoreType, Addr
    <2>2. QED
        BY <2>1, <1>0, <1>6, AcceptKeepsIInv DEF AcceptGone
<1>7. ASSUME NEW ok \in WriteOutcomes, NEW i \in DOMAIN conns, Close(i, ok) PROVE IInv'
    <2>1. conns' = Without(conns, i) /\ up
        BY <1>7 DEF Close, Idle
    <2>2. conns' \in Seq(Addr) /\ LiveIps(conns') \subseteq LiveIps(conns)
        BY <2>1, LiveIpsWithout DEF IInv, CoreType
    <2>3. QED
        BY <2>1, <2>2, <1>7, QuietKeepsBudget DEF Close, IInv, CoreType
<1>8. ASSUME NEW ok \in WriteOutcomes, StatUpdate(ok) PROVE IInv'
    BY <1>8, QuietKeepsBudget DEF StatUpdate, IInv, CoreType
<1>9. CASE Exit \/ Crash
    <2>1. Vanish
        BY <1>9 DEF Exit, Crash
    <2>2. up' \in BOOLEAN /\ ~up'
        BY <2>1, Zenon DEF Vanish
    <2>3. CoreType'
        BY <2>1, <2>2, <1>0 DEF Vanish, IInv, CoreType
    <2>4. LockBudget'
        BY <2>2 DEF LockBudget
    <2>5. QED BY <2>3, <2>4 DEF IInv
<1>10. CASE Start
    <2>1. up' /\ conns' = <<>>
        BY <1>10 DEF Start, IInv, CoreType
    <2>2. LiveIps(conns)' = {}
        BY <2>1, LiveIpsEmpty
    <2>3. Cardinality(LiveIps(conns)' \ {locked'}) = 0
        BY <2>2, LiveIpsEmpty, {} \ {locked'} = {}
    <2>4. LockBudget'
        BY <2>3, <1>10 DEF Start, LockBudget
    <2>5. CoreType'
        BY <2>1, <1>10 DEF Start, IInv, CoreType, LockFile
    <2>6. QED BY <2>4, <2>5 DEF IInv
<1>11. ASSUME NEW ip \in Ip, SetIpOpen(ip) PROVE IInv'
    BY <1>11, <1>0, DisturbKeepsBudget DEF SetIpOpen, IInv, CoreType, LockFile
<1>12. CASE SetIpWrite
    BY <1>12, <1>0, DisturbKeepsBudget DEF SetIpWrite, IInv, CoreType, LockFile
<1>13. CASE ClearIp \/ RemoveFiles
    BY <1>13, <1>0, DisturbKeepsBudget
       DEF ClearIp, RemoveFiles, NoFile, IInv, CoreType, LockFile
<1>14. CASE Tick
    BY <1>14, QuietKeepsBudget DEF Tick, memory, IInv, CoreType
<1>15. CASE UNCHANGED vars
    BY <1>15, QuietKeepsBudget DEF vars, memory, IInv, CoreType
<1>16. QED
    BY <1>1, <1>2, <1>3, <1>4, <1>5, <1>6, <1>7, <1>8, <1>9, <1>10, <1>11, <1>12,
       <1>13, <1>14, <1>15 DEF Next, Server, Accept, Manager

\* The inductive invariant of the lock holds in every reachable state.
THEOREM IInvAlways == Spec => []IInv
    BY InitIInv, NextIInv, PTL DEF Spec

\* Live addresses other than the holder were each paid for by an operator's
\* command or a failed write, and so was a lock file that disagrees with the
\* lock the server enforces.
THEOREM LockBudgetAlways == Spec => []LockBudget
<1>1. IInv => LockBudget
    BY DEF IInv
<1>2. QED BY <1>1, IInvAlways, PTL

\* One port serves one client address, but for one more for each outside
\* change of the lock since the server started.
THEOREM OneClient == Spec => []OneClientPerPort
<1>1. IInv => OneClientPerPort
    <2> SUFFICES ASSUME IInv, up PROVE Cardinality(LiveIps(conns)) <= 1 + disturb
        BY DEF OneClientPerPort
    <2>1. LiveIps(conns) \subseteq Ip
        BY LiveIpsFinite DEF IInv, CoreType
    <2>2. LiveIps(conns) \ {NoIp} = LiveIps(conns)
        BY <2>1, IpAssumption
    <2>3. Cardinality(LiveIps(conns)) <= Cardinality(LiveIps(conns) \ {locked}) + 1
        BY <2>1, <2>2, ClientsExclude
    <2>4. Cardinality(LiveIps(conns) \ {locked}) \in Nat /\ Cardinality(LiveIps(conns)) \in Nat
        BY <2>1, ClientsMonotone, LiveIps(conns) \ {locked} \subseteq LiveIps(conns)
    <2>5. QED BY <2>3, <2>4 DEF IInv, CoreType, LockBudget
<1>2. QED BY <1>1, IInvAlways, PTL

\* A lock nobody else touched is on disk, for the next process to find.
THEOREM Durable == Spec => []LockDurable
<1>1. IInv => LockDurable
    <2> SUFFICES ASSUME IInv, up, disturb = 0 PROVE lockFile.ip = locked
        BY DEF LockDurable
    <2>1. Cardinality(LiveIps(conns) \ {locked}) \in Nat
        BY LiveIpsFinite, ClientsMonotone, LiveIps(conns) \ {locked} \subseteq LiveIps(conns)
           DEF IInv, CoreType
    <2>2. QED BY <2>1 DEF IInv, LockBudget
<1>2. QED BY <1>1, IInvAlways, PTL

-----------------------------------------------------------------------------
(* The holder *)

\* A newcomer is refused while the holder that memory and file agree on has a
\* live connection.
LEMMA DecideKeepsHolder ==
    ASSUME NEW p, NEW mtime, NEW inc, NEW blk, NEW ok, HasConn(locked), locked # NoIp,
           Decide(p, locked, mtime, inc, blk, ok)
    PROVE  locked' = locked
    BY DEF Decide, Admit, Refuse, SetLock, Takes, Allowed

\* Every step of the system keeps a connected holder whose address is in the
\* lock file.
THEOREM HolderKept == Spec => HolderNotDisplaced
<1>1. ASSUME IInv, [Next]_vars, up, up', HasConn(locked), lockFile.ip = locked
      PROVE  locked' = locked
    <2>1. locked # NoIp
        BY <1>1, LiveIpsFinite, IpAssumption DEF IInv, CoreType, HasConn
    <2>2. lockFile.mtime # 0
        BY <2>1, <1>1 DEF IInv, CoreType
    <2>3. ASSUME NEW ok \in WriteOutcomes, AcceptRead(ok) PROVE locked' = locked
        BY <2>1, <2>3, <1>1, DecideKeepsHolder DEF AcceptRead
    <2>4. ASSUME NEW ok \in WriteOutcomes, NEW p \in Ip, AcceptCached(p, ok)
          PROVE  locked' = locked
        BY <2>1, <2>4, <1>1, DecideKeepsHolder DEF AcceptCached
    <2>5. ASSUME NEW ok \in WriteOutcomes,
                 AcceptUnknown(ok) \/ AcceptGone(ok) \/ StatUpdate(ok)
                     \/ (\E p \in Ip : AcceptNoFile(p, ok))
                     \/ (\E i \in DOMAIN conns : Close(i, ok))
          PROVE  locked' = locked
        BY <2>5, <2>2 DEF AcceptUnknown, AcceptGone, StatUpdate, AcceptNoFile, Close
    <2>6. CASE Exit \/ Crash \/ Start
        <3>1. ~Exit /\ ~Crash
            BY <1>1, Zenon DEF Exit, Crash, Vanish
        <3>2. ~Start
            BY <1>1 DEF Start
        <3>3. QED BY <3>1, <3>2, <2>6
    <2>7. CASE Manager
        BY <2>7 DEF Manager, SetIpOpen, SetIpWrite, ClearIp, RemoveFiles, memory
    <2>8. CASE Tick \/ UNCHANGED vars \/ \E p \in Ip : AcceptStat(p)
        BY <2>8 DEF Tick, AcceptStat, vars, memory
    <2>9. QED
        BY <2>3, <2>4, <2>5, <2>6, <2>7, <2>8, <1>1 DEF Next, Server, Accept
<1>2. IInv /\ [Next]_vars
          => [up /\ up' /\ HasConn(locked) /\ lockFile.ip = locked => locked' = locked]_vars
    BY <1>1
<1>3. QED BY <1>2, IInvAlways, PTL DEF Spec, HolderNotDisplaced

-----------------------------------------------------------------------------
(* The status file *)

\* Writing the status of the state a step leads to makes it true there.
LEMMA WriteMakesTrue ==
    ASSUME NEW inc, NEW blk, NEW ok \in BOOLEAN,
           WriteStatus(locked', conns', inc, blk, ok)
    PROVE  StatusTruth'
<1>1. Known(conns)' = Known(conns') /\ ActiveIps(conns)' = ActiveIps(conns')
    BY DEF Known, ActiveIps
<1>2. fresh' = ok
    BY DEF WriteStatus
<1>3. CASE ok
    BY <1>1, <1>3 DEF WriteStatus, Status, StatusTruth
<1>4. CASE ~ok
    BY <1>2, <1>4 DEF StatusTruth
<1>5. QED BY <1>3, <1>4

\* A step that touches neither the file nor what it reports keeps it true.
LEMMA QuietStaysTrue ==
    ASSUME StatusTruth, UNCHANGED <<conns, locked, statusFile>>, fresh' = fresh
    PROVE  StatusTruth'
<1>1. Known(conns)' = Known(conns) /\ ActiveIps(conns)' = ActiveIps(conns)
    BY DEF Known, ActiveIps
<1>2. QED BY <1>1 DEF StatusTruth

\* The status file a process has written describes its present connections
\* and lock, whatever happened since.
THEOREM StatusTruthAlways == Spec => []StatusTruth
<1>1. Init => StatusTruth
    BY DEF Init, StatusTruth
<1>2. StatusTruth /\ [Next]_vars => StatusTruth'
    <2> SUFFICES ASSUME StatusTruth, [Next]_vars PROVE StatusTruth'
        OBVIOUS
    <2>0. WriteOutcomes \subseteq BOOLEAN
        BY BoundAssumption
    <2>1. ASSUME NEW p, NEW l, NEW mtime, NEW inc, NEW blk, NEW ok \in BOOLEAN,
                 Decide(p, l, mtime, inc, blk, ok)
          PROVE  StatusTruth'
        <3>1. CASE Admit(p, l, mtime, inc, blk, ok)
            BY <3>1, WriteMakesTrue DEF Admit
        <3>2. CASE Refuse(p, l, mtime, inc, blk, ok)
            <4>1. WriteStatus(locked', conns', inc, Push(blk, p), ok)
                BY <3>2 DEF Refuse
            <4>2. QED BY <4>1, WriteMakesTrue
        <3>3. QED BY <3>1, <3>2, <2>1 DEF Decide
    <2>2. ASSUME NEW ok \in WriteOutcomes, NEW p \in Ip,
                 AcceptNoFile(p, ok) \/ AcceptCached(p, ok) \/ AcceptRead(ok) \/ AcceptGone(ok)
          PROVE  StatusTruth'
        BY <2>0, <2>1, <2>2 DEF AcceptNoFile, AcceptCached, AcceptRead, AcceptGone
    <2>3. ASSUME NEW ok \in WriteOutcomes, AcceptRead(ok) \/ AcceptGone(ok)
          PROVE  StatusTruth'
        BY <2>0, <2>1, <2>3 DEF AcceptRead, AcceptGone
    <2>4. ASSUME NEW ok \in WriteOutcomes,
                 AcceptUnknown(ok) \/ StatUpdate(ok) \/ (\E i \in DOMAIN conns : Close(i, ok))
          PROVE  StatusTruth'
        <3>1. WriteStatus(locked', conns', incoming, blocked, ok)
            BY <2>4 DEF AcceptUnknown, StatUpdate, Close
        <3>2. QED BY <3>1, <2>0, WriteMakesTrue
    <2>5. CASE Exit \/ Crash \/ Start
        <3>1. ~fresh'
            BY <2>5, Zenon DEF Exit, Crash, Vanish, Start
        <3>2. QED BY <3>1 DEF StatusTruth
    <2>6. CASE RemoveFiles
        <3>1. ~fresh'
            BY <2>6, Zenon DEF RemoveFiles
        <3>2. QED BY <3>1 DEF StatusTruth
    <2>7. CASE (\E ip \in Ip : SetIpOpen(ip)) \/ SetIpWrite \/ ClearIp
        BY <2>7, QuietStaysTrue DEF SetIpOpen, SetIpWrite, ClearIp, memory
    <2>8. CASE Tick \/ UNCHANGED vars \/ \E p \in Ip : AcceptStat(p)
        BY <2>8, QuietStaysTrue DEF Tick, AcceptStat, vars, memory
    <2>9. QED
        BY <2>2, <2>3, <2>4, <2>5, <2>6, <2>7, <2>8
           DEF Next, Server, Accept, Manager
<1>3. QED BY <1>1, <1>2, PTL DEF Spec

\* The lock of ip_lock.c as a whole: one client per port, paid-for exceptions,
\* and a lock file that names the holder.
THEOREM LockKeptAlways == Spec => []LockKept
<1>1. LockBudget /\ OneClientPerPort /\ LockDurable => LockKept
    BY DEF LockKept
<1>2. QED BY <1>1, LockBudgetAlways, OneClient, Durable, PTL

-----------------------------------------------------------------------------
(* The lists of recent addresses *)

\* Induction by the least counterexample: a set of numbers has a least one.
LEMMA LeastNat ==
    ASSUME NEW T, T \subseteq Nat, T # {}
    PROVE  \E x \in T : \A y \in T : x <= y
<1>1. IsWellFoundedOn(OpToRel(<, Nat), Nat)
  BY NatLessThanWellFounded, Zenon
<1>2. PICK x \in T : \A y \in T : ~(<<y, x>> \in OpToRel(<, Nat))
  BY <1>1, WFMin, Zenon
<1>3. ASSUME NEW y \in T PROVE x <= y
  <2>1. ~(<<y, x>> \in OpToRel(<, Nat))
    BY <1>2, Zenon
  <2>2. ~(y < x)
    BY <2>1 DEF OpToRel
  <2> QED BY <2>2
<1> QED BY <1>3

\* f[n] is what is kept of the first n entries.
Keeps(f, store, kept, N) ==
    f = [n \in 0..N |-> IF n = 0 THEN <<>>
                        ELSE IF n \in kept THEN Append(f[n - 1], store[n]) ELSE f[n - 1]]

\* The recursive function behind Keep exists and satisfies its recursion, so
\* ip_lock_prune_recent's one pass over the slots is well defined.
LEMMA KeepsExists ==
    ASSUME NEW store, NEW kept, NEW N \in Nat
    PROVE  \E f : Keeps(f, store, kept, N)
<1> DEFINE Bad == {n \in Nat : ~\E f : Keeps(f, store, kept, n)}
<1>1. SUFFICES ASSUME Bad # {} PROVE FALSE
  OBVIOUS
<1>2. PICK n \in Bad : \A m \in Bad : n <= m
  BY <1>1, LeastNat
<1>3. n # 0
  <2>1. PICK f : f = [m \in 0..0 |-> <<>>]
    OBVIOUS
  <2>2. Keeps(f, store, kept, 0)
    BY <2>1 DEF Keeps
  <2> QED BY <1>2, <2>2
<1>4. n \in Nat /\ n - 1 \in Nat /\ ~(n <= n - 1)
  BY <1>2, <1>3
<1>5. n - 1 \notin Bad
  BY <1>2, <1>4
<1>6. PICK f : Keeps(f, store, kept, n - 1)
  BY <1>4, <1>5
<1>7. PICK v : v = IF n \in kept THEN Append(f[n - 1], store[n]) ELSE f[n - 1]
  OBVIOUS
<1>8. PICK g : g = [m \in 0..n |-> IF m = n THEN v ELSE f[m]]
  OBVIOUS
<1>9. ASSUME NEW m \in 0..n
      PROVE  g[m] = IF m = 0 THEN <<>> ELSE IF m \in kept THEN Append(g[m - 1], store[m]) ELSE g[m - 1]
  <2>1. CASE m = n
    BY <1>3, <1>4, <1>7, <1>8, <2>1
  <2>2. CASE m # n
    <3>1. m \in 0..(n - 1) /\ (m # 0 => m - 1 \in 0..(n - 1))
      BY <1>4, <2>2
    <3>2. g[m] = f[m] /\ (m # 0 => g[m - 1] = f[m - 1])
      BY <1>4, <1>8, <2>2, <3>1
    <3>3. f[m] = IF m = 0 THEN <<>> ELSE IF m \in kept THEN Append(f[m - 1], store[m]) ELSE f[m - 1]
      BY <1>6, <3>1 DEF Keeps
    <3> QED BY <3>2, <3>3
  <2> QED BY <2>1, <2>2
<1>10. Keeps(g, store, kept, n)
  BY <1>8, <1>9 DEF Keeps
<1> QED BY <1>2, <1>10

\* Keep is the last value of any function that satisfies the recursion.
LEMMA KeepIs ==
    ASSUME NEW store \in Seq(Entry), NEW kept
    PROVE  \E f : Keeps(f, store, kept, Len(store)) /\ Keep(store, kept) = f[Len(store)]
<1>1. Len(store) \in Nat
  OBVIOUS
<1>2. \E f : Keeps(f, store, kept, Len(store))
  BY <1>1, KeepsExists
<1> QED BY <1>2, Zenon DEF Keep, Keeps

\* Entries of the first n of store, from places that are kept, in their order.
Part(r, store, kept, n) ==
    /\ r \in Seq(Entry) /\ Len(r) <= n
    /\ \A k \in DOMAIN r : \E a \in 1..n : a \in kept /\ r[k] = store[a]
    /\ \A k, l \in DOMAIN r : k < l => \E a, b \in 1..n : a < b /\ r[k] = store[a] /\ r[l] = store[b]

\* What ip_lock_prune_recent keeps are entries of the list, from places that
\* are kept, in their order.
LEMMA KeepPart ==
    ASSUME NEW store \in Seq(Entry), NEW kept
    PROVE  Part(Keep(store, kept), store, kept, Len(store))
<1>1. PICK f : Keeps(f, store, kept, Len(store)) /\ Keep(store, kept) = f[Len(store)]
  BY KeepIs
<1>2. PICK N \in Nat : N = Len(store) /\ DOMAIN store = 1..N
  OBVIOUS
<1> DEFINE P(n) == Part(f[n], store, kept, n)
           Bad == {n \in 0..N : ~P(n)}
<1>3. \A n \in 0..N : f[n] = IF n = 0 THEN <<>> ELSE IF n \in kept THEN Append(f[n - 1], store[n]) ELSE f[n - 1]
  BY <1>1, <1>2 DEF Keeps
<1>4. P(0)
  <2>1. f[0] = <<>>
    BY <1>2, <1>3
  <2> QED BY <2>1 DEF Part
<1>5. ASSUME NEW n \in 0..N, n # 0, P(n - 1)
      PROVE  P(n)
  <2>1. n \in Nat /\ n \in 1..N /\ n - 1 \in Nat /\ 1..(n - 1) \subseteq 1..n /\ n \in 1..n /\ store[n] \in Entry
    BY <1>2, <1>5
  <2>2. PICK s : s = f[n - 1]
    OBVIOUS
  <2>3. /\ s \in Seq(Entry) /\ Len(s) <= n - 1 /\ Len(s) \in Nat /\ DOMAIN s = 1..Len(s)
        /\ \A k \in DOMAIN s : \E a \in 1..(n - 1) : a \in kept /\ s[k] = store[a]
        /\ \A k, l \in DOMAIN s : k < l => \E a, b \in 1..(n - 1) : a < b /\ s[k] = store[a] /\ s[l] = store[b]
    BY <1>5, <2>2 DEF Part
  <2>4. CASE n \notin kept
    <3>1. f[n] = s
      BY <1>3, <1>5, <2>2, <2>4
    <3>2. Len(s) <= n
      BY <2>1, <2>3
    <3>3. \A k, l \in DOMAIN s : k < l => \E a, b \in 1..n : a < b /\ s[k] = store[a] /\ s[l] = store[b]
      <4> SUFFICES ASSUME NEW k \in DOMAIN s, NEW l \in DOMAIN s, k < l
                   PROVE  \E a, b \in 1..n : a < b /\ s[k] = store[a] /\ s[l] = store[b]
        OBVIOUS
      <4>1. PICK a, b \in 1..(n - 1) : a < b /\ s[k] = store[a] /\ s[l] = store[b]
        BY <2>3
      <4> QED BY <2>1, <4>1
    <3>4. \A k \in DOMAIN s : \E a \in 1..n : a \in kept /\ s[k] = store[a]
      BY <2>1, <2>3
    <3>5. Part(s, store, kept, n)
      BY <2>3, <3>2, <3>3, <3>4 DEF Part
    <3> QED BY <3>1, <3>5
  <2>5. CASE n \in kept
    <3>1. PICK r : r = Append(s, store[n])
      OBVIOUS
    <3>2. f[n] = r
      BY <1>3, <1>5, <2>2, <2>5, <3>1
    <3>3. /\ r \in Seq(Entry) /\ Len(r) = Len(s) + 1 /\ DOMAIN r = 1..(Len(s) + 1)
          /\ r[Len(s) + 1] = store[n] /\ \A k \in DOMAIN s : r[k] = s[k]
      BY <2>1, <2>3, <3>1
    <3>4. Len(r) <= n
      BY <2>1, <2>3, <3>3
    <3>5. ASSUME NEW k \in DOMAIN r
          PROVE  \E a \in 1..n : a \in kept /\ r[k] = store[a]
      <4>1. CASE k = Len(s) + 1
        BY <2>1, <2>5, <3>3, <4>1
      <4>2. CASE k # Len(s) + 1
        <5>1. k \in DOMAIN s
          BY <2>3, <3>3, <4>2
        <5> QED BY <2>1, <2>3, <3>3, <5>1
      <4> QED BY <4>1, <4>2
    <3>6. ASSUME NEW k \in DOMAIN r, NEW l \in DOMAIN r, k < l
          PROVE  \E a, b \in 1..n : a < b /\ r[k] = store[a] /\ r[l] = store[b]
      <4>1. k \in DOMAIN s
        BY <2>3, <3>3, <3>6
      <4>2. CASE l = Len(s) + 1
        <5>1. PICK a \in 1..(n - 1) : s[k] = store[a]
          BY <2>3, <4>1
        <5>2. a < n /\ a \in 1..n
          BY <2>1, <5>1
        <5> QED BY <2>1, <3>3, <4>1, <4>2, <5>1, <5>2
      <4>3. CASE l # Len(s) + 1
        <5>1. l \in DOMAIN s
          BY <2>3, <3>3, <4>3
        <5>2. PICK a, b \in 1..(n - 1) : a < b /\ s[k] = store[a] /\ s[l] = store[b]
          BY <2>3, <3>6, <4>1, <5>1
        <5>3. r[k] = s[k] /\ r[l] = s[l]
          BY <3>3, <4>1, <5>1
        <5> QED BY <2>1, <5>2, <5>3
      <4> QED BY <4>2, <4>3
    <3>7. Part(r, store, kept, n)
      BY <3>3, <3>4, <3>5, <3>6 DEF Part
    <3> QED BY <3>2, <3>7
  <2> QED BY <2>4, <2>5
<1>6. Bad = {}
  <2> SUFFICES ASSUME Bad # {} PROVE FALSE
    OBVIOUS
  <2>1. PICK n \in Bad : \A m \in Bad : n <= m
    <3>1. Bad \subseteq Nat
      OBVIOUS
    <3> HIDE DEF Bad
    <3> QED BY <3>1, LeastNat
  <2>2. n \in 0..N /\ n \in Nat /\ ~P(n) /\ n # 0
    BY <1>4, <2>1
  <2>3. n - 1 \in 0..N /\ ~(n <= n - 1)
    BY <1>2, <2>2
  <2>4. P(n - 1)
    BY <2>1, <2>3
  <2> QED BY <1>5, <2>2, <2>4
<1>7. P(N)
  BY <1>2, <1>6
<1> QED BY <1>1, <1>2, <1>7

-----------------------------------------------------------------------------

\* A list of recent addresses, each seen by time t.
List(store, t) ==
    /\ store \in Seq(Entry) /\ Len(store) <= RecentMax
    /\ \A i \in DOMAIN store : store[i].seen <= t
    /\ \A i, j \in DOMAIN store : i < j => store[i].ip # store[j].ip /\ store[i].seen >= store[j].seen

\* The lists after ip_lock_reset_recent_lists.
LEMMA EmptyList == \A t : List(<<>>, t) /\ Ips(<<>>) = {}
BY BoundAssumption DEF List, Ips

\* Keeping some entries of a list leaves a list, with some of its addresses.
LEMMA KeepList ==
    ASSUME NEW t \in Nat, NEW store, List(store, t), NEW kept
    PROVE  List(Keep(store, kept), t) /\ Ips(Keep(store, kept)) \subseteq Ips(store)
           /\ \A ip \in Ips(Keep(store, kept)) : \E i \in DOMAIN store : i \in kept /\ store[i].ip = ip
<1>1. PICK r : r = Keep(store, kept)
  OBVIOUS
<1>2. Part(r, store, kept, Len(store))
  BY <1>1, KeepPart DEF List
<1>3. /\ \A k \in DOMAIN r : \E a \in DOMAIN store : a \in kept /\ r[k] = store[a]
      /\ \A k, l \in DOMAIN r : k < l => \E a, b \in DOMAIN store : a < b /\ r[k] = store[a] /\ r[l] = store[b]
  <2>1. DOMAIN store = 1..Len(store)
    BY DEF List
  <2>2. \A k \in DOMAIN r : \E a \in DOMAIN store : a \in kept /\ r[k] = store[a]
    BY <1>2, <2>1 DEF Part
  <2>3. ASSUME NEW k \in DOMAIN r, NEW l \in DOMAIN r, k < l
        PROVE  \E a, b \in DOMAIN store : a < b /\ r[k] = store[a] /\ r[l] = store[b]
    <3>1. PICK a, b \in 1..Len(store) : a < b /\ r[k] = store[a] /\ r[l] = store[b]
      BY <1>2, <2>3 DEF Part
    <3> QED BY <2>1, <3>1
  <2> QED BY <2>2, <2>3
<1>4. r \in Seq(Entry) /\ Len(r) <= RecentMax
  BY <1>2, BoundAssumption DEF Part, List
<1>5. \A k \in DOMAIN r : r[k].seen <= t
  BY <1>3 DEF List
<1>6. \A k, l \in DOMAIN r : k < l => r[k].ip # r[l].ip /\ r[k].seen >= r[l].seen
  BY <1>3 DEF List
<1>7. \A ip \in Ips(r) : \E i \in DOMAIN store : i \in kept /\ store[i].ip = ip
  BY <1>3 DEF Ips
<1>8. List(r, t)
  BY <1>4, <1>5, <1>6 DEF List
<1>9. Ips(r) \subseteq Ips(store)
  BY <1>7 DEF Ips
<1> QED BY <1>1, <1>7, <1>8, <1>9

\* ip_lock_prune_recent leaves a list.
LEMMA PruneList ==
    ASSUME NEW t \in Nat, NEW store, List(store, t)
    PROVE  List(Prune(store), t) /\ Ips(Prune(store)) \subseteq Ips(store)
BY KeepList DEF Prune

\* ip_lock_push_recent moves one address to the front and leaves a list: no
\* address twice, newest first, the last one dropped when the slots are full.
LEMMA PushList ==
    ASSUME clock \in Nat, NEW store, List(store, clock), NEW p \in Ip
    PROVE  List(Push(store, p), clock) /\ Ips(Push(store, p)) \subseteq Ips(store) \cup {p}
<1>1. PICK pruned : pruned = Prune(store)
  OBVIOUS
<1>2. List(pruned, clock) /\ Ips(pruned) \subseteq Ips(store)
  BY <1>1, PruneList
<1>3. PICK others : others = Keep(pruned, {i \in DOMAIN pruned : pruned[i].ip # p})
  OBVIOUS
<1>4. List(others, clock) /\ Ips(others) \subseteq Ips(store) /\ p \notin Ips(others)
  BY <1>2, <1>3, KeepList
<1>5. PICK n : n = IF Len(others) < RecentMax THEN Len(others) ELSE RecentMax - 1
  OBVIOUS
<1>6. others \in Seq(Entry) /\ Len(others) \in Nat /\ Len(others) <= RecentMax /\ DOMAIN others = 1..Len(others)
  BY <1>4 DEF List
<1>7. n \in Nat /\ n <= Len(others) /\ n + 1 <= RecentMax
  BY <1>5, <1>6, BoundAssumption
<1>8. PICK rest : rest = SubSeq(others, 1, n)
  OBVIOUS
<1>9. rest \in Seq(Entry) /\ Len(rest) = n /\ DOMAIN rest = 1..n /\ \A i \in 1..n : rest[i] = others[i] /\ i \in DOMAIN others
  <2>1. 1..n \subseteq DOMAIN others
    BY <1>6, <1>7
  <2> QED BY <1>6, <1>7, <1>8, <2>1
<1>10. PICK e : e = [ip |-> p, seen |-> clock]
  OBVIOUS
<1>11. e \in Entry /\ e.ip = p /\ e.seen = clock
  BY <1>10 DEF Entry
<1>12. PICK r : r = <<e>> \o rest
  OBVIOUS
<1>13. Push(store, p) = r
  BY <1>1, <1>3, <1>5, <1>8, <1>10, <1>12 DEF Push
<1>14. /\ r \in Seq(Entry) /\ Len(r) = n + 1 /\ DOMAIN r = 1..(n + 1)
       /\ r[1] = e /\ \A i \in 1..(n + 1) : i # 1 => r[i] = rest[i - 1] /\ i - 1 \in 1..n
  <2>1. <<e>> \in Seq(Entry) /\ Len(<<e>>) = 1 /\ <<e>>[1] = e
    BY <1>11
  <2>2. r \in Seq(Entry) /\ Len(r) = 1 + n
    BY <1>9, <1>12, <2>1, ConcatProperties
  <2>3. \A i \in 1..(n + 1) : r[i] = IF i <= 1 THEN <<e>>[i] ELSE rest[i - 1]
    BY <1>7, <1>9, <1>12, <2>1
  <2>4. \A i \in 1..(n + 1) : i # 1 => ~(i <= 1) /\ i - 1 \in 1..n
    BY <1>7
  <2> QED BY <1>7, <2>1, <2>2, <2>3, <2>4
<1>15. ASSUME NEW i \in DOMAIN r, i # 1
       PROVE  i - 1 \in DOMAIN others /\ r[i] = others[i - 1] /\ i - 1 \in 1..n
  BY <1>9, <1>14, <1>15
<1>16. ASSUME NEW i \in DOMAIN r PROVE r[i].seen <= clock /\ r[i].ip \in Ips(others) \cup {p}
  <2>1. CASE i = 1
    BY <1>11, <1>14, <2>1
  <2>2. CASE i # 1
    BY <1>4, <1>15, <2>2 DEF List, Ips
  <2> QED BY <2>1, <2>2
<1>17. ASSUME NEW i \in DOMAIN r, NEW j \in DOMAIN r, i < j
       PROVE  r[i].ip # r[j].ip /\ r[i].seen >= r[j].seen
  <2>1. i \in Nat /\ j \in Nat /\ j # 1 /\ i >= 1
    BY <1>7, <1>14, <1>17
  <2>2. j - 1 \in DOMAIN others /\ r[j] = others[j - 1]
    BY <1>15, <2>1
  <2>3. CASE i = 1
    <3>1. r[j].ip \in Ips(others) /\ r[j].seen <= clock /\ r[j].seen \in Nat
      <4>1. others[j - 1] \in Entry
        BY <1>6, <2>2
      <4>2. others[j - 1].seen <= clock
        BY <1>4, <2>2 DEF List
      <4>3. others[j - 1].ip \in Ips(others)
        BY <2>2 DEF Ips
      <4> QED BY <2>2, <4>1, <4>2, <4>3 DEF Entry
    <3> QED BY <1>4, <1>11, <1>14, <2>3, <3>1
  <2>4. CASE i # 1
    <3>1. i - 1 \in DOMAIN others /\ r[i] = others[i - 1] /\ i - 1 < j - 1
      BY <1>15, <1>17, <2>1, <2>4
    <3> QED BY <1>4, <2>2, <3>1 DEF List
  <2> QED BY <2>3, <2>4
<1>18. List(r, clock)
  BY <1>7, <1>14, <1>16, <1>17 DEF List
<1>19. Ips(r) \subseteq Ips(store) \cup {p}
  BY <1>4, <1>16 DEF Ips
<1> QED BY <1>13, <1>18, <1>19

-----------------------------------------------------------------------------
(* The lists and the lock *)

\* The lists belong to holder l.
Follows(l, inc, blk) ==
    /\ Ips(inc) \subseteq {l} /\ l \notin Ips(blk)
    /\ l = NoIp => Ips(blk) = {}

\* ListsFollowLock needs that nobody is blocked while there is no holder, and
\* ListsNewestFirst that no entry is from the future.
Lists ==
    /\ List(incoming, clock) /\ List(blocked, clock)
    /\ up /\ ~raced => Follows(locked, incoming, blocked)
    /\ ~up => incoming = <<>> /\ blocked = <<>> /\ conns = <<>> /\ accepting = NoIp
    /\ accepting # NoIp => Len(conns) < MaxConns

\* The inductive invariant of the lists.
ListInv == TypeOK /\ Lists

\* The addresses of a list are known.
LEMMA IpsTyped ==
    ASSUME NEW store \in Seq(Entry)
    PROVE  Ips(store) \subseteq Ip
<1>1. \A i \in DOMAIN store : store[i] \in Entry
  OBVIOUS
<1>2. \A i \in DOMAIN store : store[i].ip \in Ip
  BY <1>1 DEF Entry
<1> QED BY <1>2 DEF Ips

\* The count of known connections is at most the number of connections.
LEMMA KnownCount ==
    ASSUME NEW cs \in Seq(Addr), Len(cs) <= MaxConns
    PROVE  Cardinality(Known(cs)) \in 0..MaxConns
<1>1. Len(cs) \in Nat /\ Known(cs) \subseteq 1..Len(cs) /\ MaxConns \in Nat
  BY BoundAssumption DEF Known
<1>2. IsFiniteSet(1..Len(cs)) /\ Cardinality(1..Len(cs)) = Len(cs)
  <2>1. PICK n \in Nat : n = Len(cs)
    BY <1>1
  <2>2. 1 \in Int /\ n \in Int /\ n - 1 + 1 = n /\ (1 > n => n = 0)
    BY <2>1
  <2>3. IsFiniteSet(1..n) /\ Cardinality(1..n) = IF 1 > n THEN 0 ELSE n - 1 + 1
    BY <2>2, FS_Interval
  <2>4. Cardinality(1..n) = n
    BY <2>2, <2>3
  <2> QED BY <2>1, <2>3, <2>4
<1>3. IsFiniteSet(Known(cs)) /\ Cardinality(Known(cs)) <= Len(cs)
  BY <1>1, <1>2, FS_Subset
<1>4. Cardinality(Known(cs)) \in Nat
  BY <1>3, FS_CardinalityType
<1> QED BY <1>1, <1>3, <1>4

\* ip_lock_write_status writes a status.
LEMMA StatusTyped ==
    ASSUME NEW l \in Addr, NEW cs \in Seq(Addr), Len(cs) <= MaxConns,
           NEW inc \in Seq(Entry), NEW blk \in Seq(Entry)
    PROVE  Status(l, cs, inc, blk) \in StatusFile
<1>1. Cardinality(Known(cs)) \in 0..MaxConns
  BY KnownCount
<1>2. ActiveIps(cs) \subseteq Ip
  <2>1. \A i \in Known(cs) : cs[i] \in Ip
    BY DEF Known, Addr
  <2> QED BY <2>1 DEF ActiveIps
<1>3. Ips(inc) \subseteq Ip /\ Ips(blk) \subseteq Ip
  BY IpsTyped
<1> QED BY <1>1, <1>2, <1>3 DEF Status, StatusFile

\* ip_lock_write_status prunes both lists, whether or not its write succeeds.
LEMMA WriteLists ==
    ASSUME TypeOK, NEW l \in Addr, NEW cs \in Seq(Addr), Len(cs) <= MaxConns,
           NEW inc, NEW blk, List(inc, clock), List(blk, clock), NEW ok \in BOOLEAN,
           WriteStatus(l, cs, inc, blk, ok), clock' = clock
    PROVE  /\ List(incoming, clock)' /\ List(blocked, clock)'
           /\ Ips(incoming)' \subseteq Ips(inc) /\ Ips(blocked)' \subseteq Ips(blk)
           /\ incoming' \in Seq(Entry) /\ Len(incoming') <= RecentMax
           /\ blocked' \in Seq(Entry) /\ Len(blocked') <= RecentMax
           /\ statusFile' \in StatusFile /\ fresh' \in BOOLEAN
<1>1. clock \in Nat /\ statusFile \in StatusFile
  BY DEF TypeOK
<1>2. PICK i, b : i = Prune(inc) /\ b = Prune(blk)
  OBVIOUS
<1>3. List(i, clock) /\ List(b, clock) /\ Ips(i) \subseteq Ips(inc) /\ Ips(b) \subseteq Ips(blk)
  BY <1>1, <1>2, PruneList
<1>4. incoming' = i /\ blocked' = b /\ fresh' = ok /\ statusFile' \in {Status(l, cs, i, b), statusFile}
  BY <1>2 DEF WriteStatus
<1>5. i \in Seq(Entry) /\ b \in Seq(Entry) /\ Len(i) <= RecentMax /\ Len(b) <= RecentMax
  BY <1>3 DEF List
<1>6. Status(l, cs, i, b) \in StatusFile
  BY <1>5, StatusTyped
<1>7. List(incoming, clock)' /\ List(blocked, clock)'
  BY <1>3, <1>4 DEF List
<1>8. Ips(incoming)' \subseteq Ips(inc) /\ Ips(blocked)' \subseteq Ips(blk)
  BY <1>3, <1>4 DEF Ips
<1> QED BY <1>1, <1>4, <1>5, <1>6, <1>7, <1>8

\* A callback that writes the status and leaves the lock alone.
LEMMA QuietLists ==
    ASSUME ListInv, up, NEW ok \in BOOLEAN, WriteStatus(locked, conns', incoming, blocked, ok),
           accepting = NoIp, conns' \in Seq(Addr), Len(conns') <= MaxConns,
           UNCHANGED <<up, locked, cachedMtime, accepting, lockFile, clock, writing, raced, disturb>>
    PROVE  ListInv'
<1>1. TypeOK /\ Lists /\ locked \in Addr
  BY DEF ListInv, TypeOK
<1>2. List(incoming, clock) /\ List(blocked, clock)
  BY <1>1 DEF Lists
<1>3. /\ List(incoming, clock)' /\ List(blocked, clock)'
      /\ Ips(incoming)' \subseteq Ips(incoming) /\ Ips(blocked)' \subseteq Ips(blocked)
      /\ incoming' \in Seq(Entry) /\ Len(incoming') <= RecentMax
      /\ blocked' \in Seq(Entry) /\ Len(blocked') <= RecentMax
      /\ statusFile' \in StatusFile /\ fresh' \in BOOLEAN
  BY <1>1, <1>2, WriteLists
<1>4. TypeOK'
  BY <1>1, <1>3 DEF TypeOK
<1>5. up /\ ~raced => Follows(locked, incoming, blocked)'
  BY <1>1, <1>3 DEF Lists, Follows
<1>6. Lists'
  BY <1>3, <1>5 DEF Lists
<1> QED BY <1>4, <1>6 DEF ListInv

\* accept_cb, once the lock is reloaded.
LEMMA DecideLists ==
    ASSUME TypeOK, NEW p \in Ip, NEW l \in Addr, NEW mtime \in Nat, NEW inc, NEW blk,
           List(inc, clock), List(blk, clock), Len(conns) < MaxConns, clock' = clock,
           NEW ok \in BOOLEAN, Decide(p, l, mtime, inc, blk, ok)
    PROVE  /\ List(incoming, clock)' /\ List(blocked, clock)'
           /\ incoming' \in Seq(Entry) /\ Len(incoming') <= RecentMax
           /\ blocked' \in Seq(Entry) /\ Len(blocked') <= RecentMax
           /\ statusFile' \in StatusFile /\ fresh' \in BOOLEAN
           /\ conns' \in Seq(Addr) /\ Len(conns') <= MaxConns /\ locked' \in Addr
           /\ cachedMtime' \in Nat /\ lockFile' \in LockFile /\ disturb' \in 0..MaxDisturb
           /\ Follows(l, inc, blk) => Follows(locked, incoming, blocked)'
<1>1. /\ clock \in Nat /\ conns \in Seq(Addr) /\ lockFile \in LockFile /\ disturb \in 0..MaxDisturb
      /\ p \in Addr /\ p # NoIp /\ MaxConns \in Nat /\ MaxDisturb \in Nat
  BY IpAssumption, BoundAssumption DEF TypeOK, Addr
<1>2. CASE Admit(p, l, mtime, inc, blk, ok)
  <2>1. PICK i, b : i = ResetIf(SetResets(p, l), inc) /\ b = ResetIf(SetResets(p, l), blk)
    OBVIOUS
  <2>0. PICK wrote \in WriteOutcomes : SetLock(p, l, mtime, wrote)
    BY <1>2 DEF Admit
  <2>2. /\ Allowed(p, l) /\ conns' = Append(conns, p) /\ SetLock(p, l, mtime, wrote)
        /\ WriteStatus(locked', conns', Push(i, p), b, ok)
    BY <1>2, <2>0, <2>1 DEF Admit
  <2>3. List(i, clock) /\ List(b, clock) /\ Ips(i) \subseteq Ips(inc) /\ Ips(b) \subseteq Ips(blk)
    BY <2>1, EmptyList DEF ResetIf
  <2>4. List(Push(i, p), clock) /\ Ips(Push(i, p)) \subseteq Ips(i) \cup {p}
    BY <1>1, <2>3, PushList
  <2>5. conns' \in Seq(Addr) /\ Len(conns') <= MaxConns
    <3>1. Len(conns) \in Nat /\ Len(conns') = Len(conns) + 1 /\ conns' \in Seq(Addr)
      BY <1>1, <2>2
    <3> QED BY <1>1, <3>1
  <2>6. locked' = p
    BY <2>2 DEF SetLock, Takes
  <2>7. cachedMtime' \in Nat /\ lockFile' \in LockFile
    BY <1>1, <2>2 DEF SetLock, LockFile
  <2>8. disturb' \in 0..MaxDisturb
    BY <1>1, <2>2 DEF SetLock
  <2>9. /\ List(incoming, clock)' /\ List(blocked, clock)'
        /\ Ips(incoming)' \subseteq Ips(Push(i, p)) /\ Ips(blocked)' \subseteq Ips(b)
        /\ incoming' \in Seq(Entry) /\ Len(incoming') <= RecentMax
        /\ blocked' \in Seq(Entry) /\ Len(blocked') <= RecentMax
        /\ statusFile' \in StatusFile /\ fresh' \in BOOLEAN
    BY <1>1, <2>2, <2>3, <2>4, <2>5, <2>6, WriteLists
  <2>10. ASSUME Follows(l, inc, blk)
         PROVE  Ips(i) \subseteq {p} /\ p \notin Ips(b)
    <3>1. CASE l = p
      BY <2>3, <2>10, <3>1 DEF Follows
    <3>2. CASE l = NoIp
      <4>1. Ips(inc) \subseteq Ip
        BY IpsTyped DEF List
      <4> QED BY <2>3, <2>10, <3>2, <4>1, IpAssumption DEF Follows
    <3>3. CASE l # p /\ l # NoIp
      <4>1. SetResets(p, l)
        BY <2>2, <3>3 DEF SetResets, Takes
      <4> QED BY <2>1, <4>1, EmptyList DEF ResetIf
    <3> QED BY <3>1, <3>2, <3>3
  <2>11. Follows(l, inc, blk) => Follows(locked, incoming, blocked)'
    BY <1>1, <2>4, <2>6, <2>9, <2>10 DEF Follows
  <2> QED BY <1>1, <2>5, <2>6, <2>7, <2>8, <2>9, <2>11
<1>3. CASE Refuse(p, l, mtime, inc, blk, ok)
  <2>1. /\ ~Allowed(p, l) /\ locked' = l /\ cachedMtime' = mtime
        /\ WriteStatus(l, conns, inc, Push(blk, p), ok)
        /\ UNCHANGED <<conns, lockFile, disturb>>
    BY <1>3 DEF Refuse
  <2>2. List(Push(blk, p), clock) /\ Ips(Push(blk, p)) \subseteq Ips(blk) \cup {p}
    BY <1>1, PushList
  <2>3. Len(conns) <= MaxConns
    BY DEF TypeOK
  <2>4. /\ List(incoming, clock)' /\ List(blocked, clock)'
        /\ Ips(incoming)' \subseteq Ips(inc) /\ Ips(blocked)' \subseteq Ips(Push(blk, p))
        /\ incoming' \in Seq(Entry) /\ Len(incoming') <= RecentMax
        /\ blocked' \in Seq(Entry) /\ Len(blocked') <= RecentMax
        /\ statusFile' \in StatusFile /\ fresh' \in BOOLEAN
    BY <1>1, <2>1, <2>2, <2>3, WriteLists
  <2>5. l # NoIp /\ p # l
    BY <2>1 DEF Allowed
  <2>6. Follows(l, inc, blk) => Follows(locked, incoming, blocked)'
    BY <2>1, <2>2, <2>4, <2>5 DEF Follows
  <2> QED BY <1>1, <2>1, <2>3, <2>4, <2>6
<1> QED BY <1>2, <1>3 DEF Decide

\* accept_cb with whatever ip_lock_reload found.
LEMMA AcceptLists ==
    ASSUME ListInv, up, NEW p \in Ip, NEW l \in Addr, NEW mtime \in Nat, NEW inc, NEW blk,
           List(inc, clock), List(blk, clock), Len(conns) < MaxConns,
           NEW ok \in BOOLEAN, Decide(p, l, mtime, inc, blk, ok),
           UNCHANGED <<up, clock, writing>>, accepting' = NoIp, raced' \in BOOLEAN,
           ~raced' => Follows(l, inc, blk)
    PROVE  ListInv'
<1>1. TypeOK /\ NoIp \in Addr
  BY DEF ListInv, Addr
<1>2. /\ List(incoming, clock)' /\ List(blocked, clock)'
      /\ incoming' \in Seq(Entry) /\ Len(incoming') <= RecentMax
      /\ blocked' \in Seq(Entry) /\ Len(blocked') <= RecentMax
      /\ statusFile' \in StatusFile /\ fresh' \in BOOLEAN
      /\ conns' \in Seq(Addr) /\ Len(conns') <= MaxConns /\ locked' \in Addr
      /\ cachedMtime' \in Nat /\ lockFile' \in LockFile /\ disturb' \in 0..MaxDisturb
      /\ Follows(l, inc, blk) => Follows(locked, incoming, blocked)'
  BY <1>1, DecideLists
<1>3. TypeOK'
  BY <1>1, <1>2 DEF TypeOK
<1>4. Lists'
  BY <1>2 DEF Lists
<1> QED BY <1>3, <1>4 DEF ListInv

\* Reloading a lock resets the lists, unless the lock is the same.
LEMMA ReloadLists ==
    ASSUME ListInv, up, NEW l, NEW inc, NEW blk,
           inc = ResetIf(l # locked, incoming), blk = ResetIf(l # locked, blocked)
    PROVE  List(inc, clock) /\ List(blk, clock) /\ (~raced => Follows(l, inc, blk))
<1>1. /\ List(incoming, clock) /\ List(blocked, clock)
      /\ ~raced => Follows(locked, incoming, blocked)
  BY DEF ListInv, Lists
<1>2. CASE l = locked
  BY <1>1, <1>2 DEF ResetIf
<1>3. CASE l # locked
  BY <1>3, EmptyList DEF ResetIf, Follows
<1> QED BY <1>2, <1>3

\* A step that touches neither the lists nor the connections.
LEMMA StillLists ==
    ASSUME ListInv, UNCHANGED <<up, conns, locked, incoming, blocked, raced>>,
           clock \in Nat, clock' \in Nat, clock <= clock',
           accepting' # NoIp => up /\ Len(conns) < MaxConns
    PROVE  Lists'
<1>1. Lists
  BY DEF ListInv
<1>2. ASSUME NEW store, List(store, clock)
      PROVE  List(store, clock')
  <2>1. \A i \in DOMAIN store : store[i].seen \in Nat
    <3>1. \A i \in DOMAIN store : store[i] \in Entry
      BY <1>2 DEF List
    <3> QED BY <3>1 DEF Entry
  <2> QED BY <1>2, <2>1 DEF List
<1>3. List(incoming, clock)' /\ List(blocked, clock)'
  BY <1>1, <1>2 DEF Lists, List
<1>4. up /\ ~raced => Follows(locked, incoming, blocked)'
  BY <1>1 DEF Lists, Follows, Ips
<1> QED BY <1>1, <1>3, <1>4 DEF Lists

\* The statics of ip_lock.c before the first start.
LEMMA InitLists ==
    ASSUME Init
    PROVE  ListInv
<1>1. TypeOK
  <2>1. <<>> \in Seq(Addr) /\ <<>> \in Seq(Entry) /\ Len(<<>>) = 0
    OBVIOUS
  <2>2. NoFile \in LockFile /\ NoStatus \in StatusFile
    BY BoundAssumption DEF NoFile, LockFile, NoStatus, StatusFile, Addr
  <2>3. {RecentMax, MaxConns, MaxDisturb} \subseteq Nat
    BY BoundAssumption
  <2>4. 0 <= MaxConns /\ 0 <= RecentMax /\ 0 \in 0..MaxDisturb
    BY <2>3
  <2>5. up \in BOOLEAN /\ {fresh, raced} \subseteq BOOLEAN
    BY DEF Init
  <2> QED BY <2>1, <2>2, <2>4, <2>5 DEF Init, TypeOK, Addr
<1>2. Lists
  <2>1. ~up
    BY DEF Init
  <2> QED BY <2>1, EmptyList DEF Init, Lists
<1> QED BY <1>1, <1>2 DEF ListInv

\* Every way ip_lock_reload can come out during an accept.
LEMMA AcceptsLists ==
    ASSUME ListInv, Accept
    PROVE  ListInv'
<1>1. PICK ok \in WriteOutcomes :
        \/ AcceptUnknown(ok)
        \/ \E p \in Ip : AcceptNoFile(p, ok) \/ AcceptCached(p, ok)
        \/ AcceptRead(ok)
        \/ AcceptGone(ok)
  BY DEF Accept
<1>2. ok \in BOOLEAN /\ Ip \subseteq Addr /\ NoIp \in Addr
  BY BoundAssumption DEF Addr
<1>3. /\ TypeOK /\ Lists /\ conns \in Seq(Addr) /\ Len(conns) \in Nat /\ MaxConns \in Nat
      /\ locked \in Addr /\ cachedMtime \in Nat /\ raced \in BOOLEAN /\ lockFile \in LockFile /\ accepting \in Addr
  BY BoundAssumption DEF ListInv, TypeOK
<1>4. CASE AcceptUnknown(ok)
  <2>1. /\ up /\ accepting = NoIp /\ Len(conns) < MaxConns /\ conns' = Append(conns, NoIp)
        /\ WriteStatus(locked, conns', incoming, blocked, ok)
        /\ UNCHANGED <<up, locked, cachedMtime, accepting, lockFile, clock, writing, raced, disturb>>
    BY <1>4 DEF AcceptUnknown, Accepts, Idle
  <2>2. conns' \in Seq(Addr) /\ Len(conns') = Len(conns) + 1
    BY <1>2, <1>3, <2>1
  <2>3. Len(conns') <= MaxConns
    BY <1>3, <2>1, <2>2
  <2> QED BY <1>2, <2>1, <2>2, <2>3, QuietLists
<1>5. ASSUME NEW p \in Ip, AcceptNoFile(p, ok)
      PROVE  ListInv'
  <2>1. PICK inc, blk : inc = ResetIf(NoIp # locked, incoming) /\ blk = ResetIf(NoIp # locked, blocked)
    OBVIOUS
  <2>2. /\ up /\ accepting = NoIp /\ Len(conns) < MaxConns /\ Decide(p, NoIp, 0, inc, blk, ok)
        /\ UNCHANGED <<up, accepting, clock, writing, raced>>
    BY <1>5, <2>1 DEF AcceptNoFile, Accepts, Idle, ResetIf
  <2>3. List(inc, clock) /\ List(blk, clock) /\ (~raced => Follows(NoIp, inc, blk))
    BY <2>1, <2>2, ReloadLists
  <2> QED BY <1>2, <1>3, <2>2, <2>3, AcceptLists
<1>6. ASSUME NEW p \in Ip, AcceptCached(p, ok)
      PROVE  ListInv'
  <2>1. /\ up /\ accepting = NoIp /\ Len(conns) < MaxConns
        /\ Decide(p, locked, cachedMtime, incoming, blocked, ok)
        /\ UNCHANGED <<up, accepting, clock, writing, raced>>
    BY <1>6 DEF AcceptCached, Accepts, Idle
  <2>2. List(incoming, clock) /\ List(blocked, clock) /\ (~raced => Follows(locked, incoming, blocked))
    BY <1>3, <2>1 DEF Lists
  <2> QED BY <1>2, <1>3, <2>1, <2>2, AcceptLists
<1>7. CASE AcceptRead(ok)
  <2>1. PICK p, l : p = accepting /\ l = lockFile.ip
    OBVIOUS
  <2>2. PICK inc, blk : inc = ResetIf(l # locked, incoming) /\ blk = ResetIf(l # locked, blocked)
    OBVIOUS
  <2>3. /\ up /\ accepting # NoIp /\ Decide(p, l, cachedMtime, inc, blk, ok)
        /\ accepting' = NoIp /\ UNCHANGED <<up, clock, writing, raced>>
    BY <1>7, <2>1, <2>2 DEF AcceptRead
  <2>4. p \in Ip /\ l \in Addr /\ Len(conns) < MaxConns
    BY <1>3, <2>1, <2>3 DEF Addr, LockFile, Lists
  <2>5. List(inc, clock) /\ List(blk, clock) /\ (~raced => Follows(l, inc, blk))
    BY <2>2, <2>3, ReloadLists
  <2> QED BY <1>2, <1>3, <2>3, <2>4, <2>5, AcceptLists
<1>8. CASE AcceptGone(ok)
  <2>1. PICK p : p = accepting
    OBVIOUS
  <2>2. /\ up /\ accepting # NoIp /\ Decide(p, NoIp, cachedMtime, incoming, blocked, ok)
        /\ accepting' = NoIp /\ raced' = TRUE /\ UNCHANGED <<up, clock, writing>>
    BY <1>8, <2>1 DEF AcceptGone
  <2>3. p \in Ip /\ Len(conns) < MaxConns
    BY <1>3, <2>1, <2>2 DEF Addr, Lists
  <2>4. List(incoming, clock) /\ List(blocked, clock) /\ raced' \in BOOLEAN /\ (~raced' => Follows(NoIp, incoming, blocked))
    BY <1>3, <2>2 DEF Lists
  <2> QED BY <1>2, <1>3, <2>2, <2>3, <2>4, AcceptLists
<1> QED BY <1>1, <1>4, <1>5, <1>6, <1>7, <1>8

\* One step of server, manager or clock.
LEMMA NextLists ==
    ASSUME ListInv, [Next]_vars
    PROVE  ListInv'
<1>1. /\ TypeOK /\ Lists /\ NoIp \in Addr /\ Ip \subseteq Addr /\ WriteOutcomes \subseteq BOOLEAN /\ MaxDisturb \in Nat
      /\ clock \in Nat /\ clock <= clock /\ lockFile \in LockFile
  BY BoundAssumption DEF ListInv, TypeOK, Addr
<1>2. CASE Accept
  BY <1>2, AcceptsLists
<1>3. ASSUME NEW p \in Ip, AcceptStat(p)
      PROVE  ListInv'
  <2>1. /\ up /\ Len(conns) < MaxConns /\ cachedMtime' = lockFile.mtime /\ accepting' = p
        /\ UNCHANGED <<up, conns, locked, incoming, blocked, lockFile, statusFile, clock, writing, fresh, raced, disturb>>
    BY <1>3 DEF AcceptStat, Accepts, Idle
  <2>2. TypeOK'
    BY <1>1, <2>1 DEF TypeOK, LockFile
  <2>3. Lists'
    BY <1>1, <2>1, StillLists
  <2> QED BY <2>2, <2>3 DEF ListInv
<1>4. ASSUME NEW ok \in WriteOutcomes, StatUpdate(ok)
      PROVE  ListInv'
  <2>1. /\ up /\ accepting = NoIp /\ conns' = conns
        /\ WriteStatus(locked, conns', incoming, blocked, ok)
        /\ UNCHANGED <<up, locked, cachedMtime, accepting, lockFile, clock, writing, raced, disturb>>
    BY <1>4 DEF StatUpdate, Idle
  <2>2. conns' \in Seq(Addr) /\ Len(conns') <= MaxConns
    BY <1>1, <2>1 DEF TypeOK
  <2> QED BY <1>1, <2>1, <2>2, QuietLists
<1>5. ASSUME NEW ok \in WriteOutcomes, NEW i \in DOMAIN conns, Close(i, ok)
      PROVE  ListInv'
  <2>1. /\ up /\ accepting = NoIp /\ conns' = Without(conns, i)
        /\ WriteStatus(locked, conns', incoming, blocked, ok)
        /\ UNCHANGED <<up, locked, cachedMtime, accepting, lockFile, clock, writing, raced, disturb>>
    BY <1>5 DEF Close, Idle
  <2>2. conns \in Seq(Addr) /\ Len(conns) <= MaxConns /\ MaxConns \in Nat
    BY <1>1, BoundAssumption DEF TypeOK
  <2>3. PICK n \in Nat : n = Len(conns) /\ DOMAIN conns = 1..n
    BY <2>2
  <2>4. n - 1 \in Nat /\ \A j \in 1..(n - 1) : (IF j < i THEN conns[j] ELSE conns[j + 1]) \in Addr
    BY <2>2, <2>3
  <2>5. conns' = [j \in 1..(n - 1) |-> IF j < i THEN conns[j] ELSE conns[j + 1]]
    BY <2>1, <2>3 DEF Without
  <2>6. conns' \in Seq(Addr) /\ Len(conns') = n - 1
    BY <2>4, <2>5
  <2>7. Len(conns') <= MaxConns
    BY <2>2, <2>3, <2>6
  <2> QED BY <1>1, <2>1, <2>6, <2>7, QuietLists
<1>6. CASE Exit \/ Crash
  <2>1. /\ conns' = <<>> /\ locked' = NoIp /\ cachedMtime' = 0 /\ accepting' = NoIp
        /\ incoming' = <<>> /\ blocked' = <<>>
        /\ UNCHANGED <<lockFile, clock, writing, raced, disturb>>
    BY <1>6 DEF Exit, Crash, Vanish
  <2>2. up' = FALSE /\ fresh' = FALSE
    BY <1>6 DEF Exit, Crash, Vanish
  <2>3. statusFile' \in StatusFile
    <3>1. PICK i, b : i = Prune(incoming) /\ b = Prune(blocked)
      OBVIOUS
    <3>2. List(i, clock) /\ List(b, clock)
      BY <1>1, <3>1, PruneList DEF Lists
    <3>3. i \in Seq(Entry) /\ b \in Seq(Entry) /\ <<>> \in Seq(Addr) /\ Len(<<>>) <= MaxConns /\ locked \in Addr
      BY <1>1, <3>2, BoundAssumption DEF List, TypeOK
    <3>4. Status(locked, <<>>, i, b) \in StatusFile
      BY <3>3, StatusTyped
    <3>5. statusFile' \in {statusFile, Status(locked, <<>>, i, b)}
      BY <1>6, <3>1 DEF Exit, Crash
    <3> QED BY <1>1, <3>4, <3>5 DEF TypeOK
  <2>4. /\ <<>> \in Seq(Addr) /\ <<>> \in Seq(Entry) /\ Len(<<>>) <= MaxConns /\ Len(<<>>) <= RecentMax
    BY BoundAssumption
  <2>5. TypeOK'
    BY <1>1, <2>1, <2>2, <2>3, <2>4 DEF TypeOK
  <2>6. Lists'
    BY <2>1, <2>2, EmptyList DEF Lists
  <2> QED BY <2>5, <2>6 DEF ListInv
<1>7. CASE Start
  <2>1. /\ ~up /\ locked' = lockFile.ip /\ cachedMtime' = lockFile.mtime /\ disturb' = 0
        /\ UNCHANGED <<conns, accepting, incoming, blocked, lockFile, statusFile, clock, writing>>
    BY <1>7 DEF Start
  <2>2. up' = TRUE /\ fresh' = FALSE /\ raced' = FALSE
    BY <1>7 DEF Start
  <2>3. incoming = <<>> /\ blocked = <<>> /\ accepting = NoIp
    BY <1>1, <2>1 DEF Lists
  <2>4. TypeOK'
    <3>1. /\ conns' \in Seq(Addr) /\ Len(conns') <= MaxConns
          /\ incoming' \in Seq(Entry) /\ Len(incoming') <= RecentMax
          /\ blocked' \in Seq(Entry) /\ Len(blocked') <= RecentMax
      BY <1>1, <2>1 DEF TypeOK
    <3>2. up' \in BOOLEAN /\ {fresh', raced'} \subseteq BOOLEAN
      BY <2>2
    <3>3. disturb' \in 0..MaxDisturb
      BY <1>1, <2>1
    <3>4. locked' \in Addr /\ cachedMtime' \in Nat
      BY <1>1, <2>1 DEF LockFile
    <3>5. accepting' \in Addr /\ statusFile' \in StatusFile /\ clock' \in Nat /\ writing' \in Addr
      BY <1>1, <2>1 DEF TypeOK
    <3>6. lockFile' \in LockFile
      BY <1>1, <2>1
    <3> QED BY <3>1, <3>2, <3>3, <3>4, <3>5, <3>6 DEF TypeOK
  <2>5. Follows(locked, incoming, blocked)'
    BY <2>1, <2>3, EmptyList DEF Follows, Ips
  <2>6. Lists'
    BY <2>1, <2>2, <2>3, <2>5, EmptyList DEF Lists
  <2> QED BY <2>4, <2>6 DEF ListInv
<1>8. CASE Manager
  <2>1. /\ writing' \in Addr /\ lockFile' \in LockFile /\ statusFile' \in {statusFile, NoStatus} /\ fresh' \in BOOLEAN
        /\ disturb < MaxDisturb /\ disturb' = disturb + 1 /\ UNCHANGED <<up, memory, clock, raced>>
    <3>1. CASE \E ip \in Ip : SetIpOpen(ip)
      BY <1>1, <3>1 DEF SetIpOpen, Disturb, LockFile, TypeOK
    <3>2. CASE SetIpWrite
      BY <1>1, <3>2 DEF SetIpWrite, Disturb, LockFile, TypeOK
    <3>3. CASE ClearIp
      BY <1>1, <3>3 DEF ClearIp, Disturb, LockFile, NoFile, TypeOK
    <3>4. CASE RemoveFiles
      BY <1>1, <3>4 DEF RemoveFiles, Disturb, LockFile, NoFile, TypeOK
    <3> QED BY <1>8, <3>1, <3>2, <3>3, <3>4 DEF Manager
  <2>2. NoStatus \in StatusFile
    BY BoundAssumption DEF NoStatus, StatusFile, Addr
  <2>3. disturb' \in 0..MaxDisturb
    BY <1>1, <2>1 DEF TypeOK
  <2>4. UNCHANGED <<conns, locked, cachedMtime, accepting, incoming, blocked>>
    BY <2>1 DEF memory
  <2>5. TypeOK'
    BY <1>1, <2>1, <2>2, <2>3, <2>4 DEF TypeOK
  <2>6. accepting # NoIp => up /\ Len(conns) < MaxConns
    BY <1>1 DEF Lists
  <2>7. Lists'
    BY <1>1, <2>1, <2>4, <2>6, StillLists
  <2> QED BY <2>5, <2>7 DEF ListInv
<1>9. CASE Tick \/ UNCHANGED vars
  <2>1. /\ clock' \in Nat /\ clock <= clock'
        /\ UNCHANGED <<up, memory, lockFile, statusFile, writing, fresh, raced, disturb>>
    BY <1>1, <1>9 DEF Tick, vars
  <2>2. UNCHANGED <<conns, locked, cachedMtime, accepting, incoming, blocked>>
    BY <2>1 DEF memory
  <2>3. TypeOK'
    <3>1. /\ conns' \in Seq(Addr) /\ Len(conns') <= MaxConns
          /\ incoming' \in Seq(Entry) /\ Len(incoming') <= RecentMax
          /\ blocked' \in Seq(Entry) /\ Len(blocked') <= RecentMax
      BY <1>1, <2>2 DEF TypeOK
    <3>2. up' \in BOOLEAN /\ {fresh', raced'} \subseteq BOOLEAN /\ disturb' \in 0..MaxDisturb
      BY <1>1, <2>1 DEF TypeOK
    <3>3. locked' \in Addr /\ cachedMtime' \in Nat /\ accepting' \in Addr
      BY <1>1, <2>2 DEF TypeOK
    <3>4. lockFile' \in LockFile /\ statusFile' \in StatusFile /\ writing' \in Addr
      BY <1>1, <2>1 DEF TypeOK
    <3> QED BY <2>1, <3>1, <3>2, <3>3, <3>4 DEF TypeOK
  <2>4. accepting # NoIp => up /\ Len(conns) < MaxConns
    BY <1>1 DEF Lists
  <2>5. Lists'
    BY <1>1, <2>1, <2>2, <2>4, StillLists
  <2> QED BY <2>3, <2>5 DEF ListInv
<1> QED BY <1>2, <1>3, <1>4, <1>5, <1>6, <1>7, <1>8, <1>9 DEF Next, Server

\* The lists that the status shows hold every address once, newest first, never
\* more than RecentMax, and belong to the holder of the lock, unless an unlink
\* slipped between a stat and an fopen, however often ip_lock_push_recent and
\* ip_lock_prune_recent ran.
THEOREM ListsTrueAlways == Spec => []ListsTrue
<1>1. Init => ListInv
  BY InitLists
<1>2. ListInv /\ [Next]_vars => ListInv'
  BY NextLists
<1>3. ListInv => ListsTrue
  BY DEF ListInv, Lists, List, Follows, ListsTrue, ListsFollowLock, ListsNewestFirst
<1> QED BY <1>1, <1>2, <1>3, PTL DEF Spec
=============================================================================
