--------------------------- MODULE MonitorProofs ---------------------------
(***************************************************************************)
(* Proofs about module Monitor, for any readers, cards and configuration,  *)
(* and for any number of steps: the type invariant, the inductive          *)
(* invariant MonitorInv of module MonitorProps, and what follows from it.  *)
(***************************************************************************)
EXTENDS MonitorProps, FiniteSetTheorems, WellFoundedInduction, TLAPS

-----------------------------------------------------------------------------
(* Operators of KnownCards.                                                *)

\* A nonempty set of naturals has a least element.
LEMMA NatMin ==
    ASSUME NEW T, T \subseteq Nat, T # {}
    PROVE  \E x \in T : \A y \in T : x <= y
<1> DEFINE R == OpToRel(<, Nat)
<1>1. PICK x \in T : \A y \in T : ~ (<<y, x>> \in R)
  BY WFMin, NatLessThanWellFounded, Zenon
<1>2. ASSUME NEW y \in T
      PROVE  x <= y
  <2>1. x \in Nat /\ y \in Nat
    OBVIOUS
  <2>2. y < x => <<y, x>> \in R
    BY <2>1 DEF OpToRel
  <2>3. ~(y < x)
    BY <1>1, <2>2, Zenon
  <2>4. QED
    BY <2>1, <2>3, SMT
<1>3. QED
  BY <1>2

\* First finds the record of a nonempty set that comes first in the vector.
LEMMA FirstIsFirst ==
    ASSUME DirTypeOK, NEW S, S \subseteq Nick, S # {}
    PROVE  First(S) \in S /\ \A m \in S : rank[First(S)] <= rank[m]
<1> DEFINE T == {rank[n] : n \in S}
<1>0. Cardinality(Nick) \in Nat
  BY ConfigAssumption, FS_CardinalityType
<1>1. \A n \in Nick : rank[n] \in Nat
  BY <1>0 DEF DirTypeOK, Order
<1>2. T \subseteq Nat /\ T # {}
  BY <1>1
<1>3. \E x \in T : \A y \in T : x <= y
  BY <1>2, NatMin
<1>4. \E n \in S : \A m \in S : rank[n] <= rank[m]
  BY <1>3
<1>5. QED
  BY <1>4 DEF First

\* What add_card does to the records that stay.
LEMMA AddCardEffect ==
    ASSUME DirTypeOK, NEW c \in Card, NEW r \in Reader, AddCard(c, r)
    PROVE  /\ DirTypeOK'
           /\ known' \subseteq known
           /\ rank' = rank
           /\ \A n \in Nick \ known' : addr'[n] = None /\ cstate'[n] = "Unavailable"
           /\ \A n \in known : ConfIdent[n] = c \/ addr[n] # r => n \in known'
           /\ \A n \in known' :
                \/ /\ ConfIdent[n] = c
                   /\ \A m \in known : ConfIdent[m] = c => rank[n] <= rank[m]
                   /\ addr'[n] = r
                   /\ cstate'[n] = "Ready"
                \/ /\ addr'[n] = addr[n]
                   /\ cstate'[n] = cstate[n]
                   /\ addr[n] = r => ConfIdent[n] = c
                   /\ ConfIdent[n] = c =>
                        \E m \in known : ConfIdent[m] = c /\ rank[m] < rank[n]
<1> DEFINE matches == {n \in known : ConfIdent[n] = c}
           hit     == IF matches = {} THEN {} ELSE {First(matches)}
           addr1   == [n \in Nick |-> IF n \in hit THEN r ELSE addr[n]]
           kept    == {n \in known : ~(addr1[n] = r /\ ConfIdent[n] # c)}
<1>1. /\ known' = kept
      /\ addr' = [n \in Nick |-> IF n \in kept THEN addr1[n] ELSE None]
      /\ cstate' = [n \in Nick |->
                      IF n \notin kept THEN "Unavailable"
                      ELSE IF n \in hit THEN "Ready" ELSE cstate[n]]
      /\ rank' = rank
  BY DEF AddCard, ArrivalHits, FirstOf, IsKept
<1>2. matches \subseteq Nick /\ matches \subseteq known
  BY DEF DirTypeOK
<1>3. \A n \in hit : n \in matches /\ \A m \in matches : rank[n] <= rank[m]
  BY <1>2, FirstIsFirst
<1>4. \A n \in matches \ hit : \E m \in matches : rank[m] < rank[n]
  <2> SUFFICES ASSUME NEW n \in matches, n \notin hit
               PROVE  rank[First(matches)] < rank[n]
    BY <1>2, FirstIsFirst
  <2>1. First(matches) \in matches /\ rank[First(matches)] <= rank[n]
    BY <1>2, FirstIsFirst
  <2>2. First(matches) # n
    OBVIOUS
  <2>3. rank[First(matches)] # rank[n]
    BY <1>2, <2>1, <2>2 DEF DirTypeOK, Order
  <2>4. rank[n] \in Nat /\ rank[First(matches)] \in Nat
    BY <1>2, <2>1, ConfigAssumption, FS_CardinalityType DEF DirTypeOK, Order
  <2>5. QED
    BY <2>1, <2>3, <2>4
<1> HIDE DEF hit
<1>5. known' \subseteq known /\ rank' = rank
  BY <1>1
<1>6. DirTypeOK'
  BY <1>1, <1>2 DEF DirTypeOK
<1>7. \A n \in Nick \ known' : addr'[n] = None /\ cstate'[n] = "Unavailable"
  BY <1>1
<1>8. ASSUME NEW n \in known'
      PROVE  \/ /\ ConfIdent[n] = c
                /\ \A m \in known : ConfIdent[m] = c => rank[n] <= rank[m]
                /\ addr'[n] = r
                /\ cstate'[n] = "Ready"
             \/ /\ addr'[n] = addr[n]
                /\ cstate'[n] = cstate[n]
                /\ addr[n] = r => ConfIdent[n] = c
                /\ ConfIdent[n] = c =>
                     \E m \in known : ConfIdent[m] = c /\ rank[m] < rank[n]
  <2>1. n \in kept /\ n \in known /\ n \in Nick
    BY <1>1 DEF DirTypeOK
  <2>2. CASE n \in hit
    <3>1. addr'[n] = r /\ cstate'[n] = "Ready"
      BY <1>1, <2>1, <2>2
    <3>2. ConfIdent[n] = c /\ \A m \in known : ConfIdent[m] = c => rank[n] <= rank[m]
      BY <1>3, <2>2
    <3>3. QED
      BY <3>1, <3>2
  <2>3. CASE n \notin hit
    <3>1. addr'[n] = addr[n] /\ cstate'[n] = cstate[n]
      BY <1>1, <2>1, <2>3
    <3>2. addr[n] = r => ConfIdent[n] = c
      BY <2>1, <2>3
    <3>3. ConfIdent[n] = c => \E m \in known : ConfIdent[m] = c /\ rank[m] < rank[n]
      BY <1>4, <2>1, <2>3
    <3>4. QED
      BY <3>1, <3>2, <3>3
  <2>4. QED
    BY <2>2, <2>3
<1>9. \A n \in known : ConfIdent[n] = c \/ addr[n] # r => n \in known'
  BY <1>1, <1>2, <1>3 DEF DirTypeOK
<1>10. QED
  BY <1>5, <1>6, <1>7, <1>8, <1>9

\* What remove_card does: no other record changes, none gets better, and the
\* one record at the address is not Ready any more.
LEMMA RemoveCardEffect ==
    ASSUME DirTypeOK, DistinctAddresses, NEW r \in Reader, RemoveCard(r)
    PROVE  /\ DirTypeOK'
           /\ known' = known /\ rank' = rank /\ addr' = addr
           /\ \A n \in Nick : cstate'[n] = "Ready" => cstate[n] = "Ready"
           /\ \A n \in Nick : ~(addr[n] = r /\ n \in known) => cstate'[n] = cstate[n]
           /\ \A n \in known : addr[n] = r => cstate'[n] = "Unavailable"
<1> DEFINE matches == {n \in known : addr[n] = r}
           hit     == IF matches = {} THEN {} ELSE {First(matches)}
<1>1. /\ cstate' = [n \in Nick |-> IF n \in hit THEN "Unavailable" ELSE cstate[n]]
      /\ known' = known /\ rank' = rank /\ addr' = addr
  BY DEF RemoveCard, RemovalHits, FirstOf
<1>2. matches \subseteq Nick
  BY DEF DirTypeOK
<1>3. hit \subseteq matches
  BY <1>2, FirstIsFirst
<1>4. \A n \in matches : n \in hit
  <2> SUFFICES ASSUME NEW n \in matches
               PROVE  n = First(matches)
    OBVIOUS
  <2>1. First(matches) \in matches
    BY <1>2, FirstIsFirst
  <2>2. r # None
    BY WorldAssumption
  <2>3. QED
    BY <2>1, <2>2 DEF DistinctAddresses
<1> HIDE DEF hit
<1>5. DirTypeOK'
  BY <1>1 DEF DirTypeOK
<1>6. QED
  BY <1>1, <1>3, <1>4, <1>5 DEF DirTypeOK

-----------------------------------------------------------------------------
(* The inductive invariant holds in the beginning ...                      *)

\* The inductive invariant holds when the agent starts.
LEMMA InitInv == MonitorInit => MonitorInv
<1> SUFFICES ASSUME MonitorInit PROVE MonitorInv
  OBVIOUS
<1> USE WorldAssumption, ConfigAssumption, MonitorAssumption
    DEF MonitorInit, WorldInit, InitKnownCards
<1>1. MonitorTypeOK
  <2>1. WorldTypeOK
    BY SMT DEF WorldTypeOK
  <2>2. DirTypeOK
    BY DEF DirTypeOK
  <2>3. reading \in BOOLEAN /\ stirred \in BOOLEAN /\ stale \in [Reader -> BOOLEAN]
    OBVIOUS
  <2>4. starts \in 0..MaxStarts
    OBVIOUS
  <2>5. /\ tracked \subseteq Reader /\ dead \subseteq tracked /\ names \subseteq Reader
        /\ cur \in Reader \cup {None} /\ found \in Card \cup {None}
    OBVIOUS
  <2>6. QED
    BY <2>1, <2>2, <2>3, <2>4, <2>5 DEF MonitorTypeOK
<1>2. PhaseOK
  BY DEF PhaseOK, Identifying
<1>3. DistinctAddresses /\ Shadowed /\ ReadyIsTracked /\ PendingIsNew
  BY DEF DistinctAddresses, Shadowed, ReadyIsTracked, PendingIsNew, Ready
<1>4. ReadyCardIsThere /\ FoundIsThere /\ ConnectionsOK
  BY DEF ReadyCardIsThere, FoundIsThere, ConnectionsOK, Ready
<1>5. QED
  BY <1>1, <1>2, <1>3, <1>4 DEF MonitorInv

-----------------------------------------------------------------------------
(* ... and is kept by every step.  First the type invariant and the phase. *)

\* The readers and the cards keep the types,
LEMMA WorldTypes ==
    ASSUME MonitorInv, WorldStep
    PROVE  MonitorTypeOK' /\ PhaseOK'
<1> USE WorldAssumption DEF MonitorInv, MonitorTypeOK, WorldTypeOK, DirTypeOK, PhaseOK,
        Identifying, Thread, dirVars, monVars
<1>1. ASSUME NEW r \in Reader, NEW x \in Card \cup {Empty}, PlugIn(r, x)
      PROVE  MonitorTypeOK' /\ PhaseOK'
  BY <1>1 DEF PlugIn, Attach, Insert
<1>2. ASSUME NEW r \in Reader, NEW to \in {Absent, Empty}, PullOut(r, to)
      PROVE  MonitorTypeOK' /\ PhaseOK'
  BY <1>2 DEF PullOut, TakeAway
<1>3. ASSUME NEW r \in Reader, OtherApp(r)
      PROVE  MonitorTypeOK' /\ PhaseOK'
  BY <1>3 DEF OtherApp, OtherBegins, OtherExcludes, OtherEnds
<1>4. QED
  BY <1>1, <1>2, <1>3 DEF WorldStep

\* so does the monitor,
LEMMA MonitorTypes ==
    ASSUME MonitorInv, MonitorStep \/ MonitorWake
    PROVE  MonitorTypeOK' /\ PhaseOK'
<1> USE WorldAssumption DEF MonitorInv, MonitorTypeOK, WorldTypeOK, PhaseOK, Identifying,
        Thread, dirVars, monVars, worldVars
<1>1. ASSUME NEW r \in Reader, MonitorRemove(r)
      PROVE  MonitorTypeOK' /\ PhaseOK'
  <2>1. RemoveCard(r) /\ mpc' = mpc /\ mpc = "remove"
    BY <1>1 DEF MonitorRemove
  <2>2. DirTypeOK'
    BY <2>1, RemoveCardEffect
  <2>3. MonitorTypeOK'
    BY <1>1, <2>2 DEF MonitorRemove
  <2>4. PhaseOK'
    BY <1>1 DEF MonitorRemove
  <2>5. QED
    BY <2>3, <2>4
<1>2. ASSUME NEW r \in Reader, MonitorPush(r)
      PROVE  MonitorTypeOK' /\ PhaseOK'
  BY <1>2 DEF MonitorPush, Connect, DirTypeOK
<1>3. CASE MonitorList
  BY <1>3 DEF MonitorList, DirTypeOK
<1>4. CASE MonitorOpen
  BY <1>4 DEF MonitorOpen, DirTypeOK
<1>5. CASE MonitorIdent
  <2>1. slot[cur] \in Card
    BY <1>5 DEF MonitorIdent, CanTransact
  <2>2. QED
    BY <1>5, <2>1 DEF MonitorIdent, Disconnect, DirTypeOK
<1>6. CASE MonitorReport
  <2>1. found \in Card /\ cur \in Reader
    BY <1>6 DEF MonitorReport
  <2>2. DirTypeOK'
    BY <1>6, <2>1, AddCardEffect DEF MonitorReport
  <2>3. MonitorTypeOK'
    BY <1>6, <2>2 DEF MonitorReport
  <2>4. PhaseOK'
    BY <1>6 DEF MonitorReport
  <2>5. QED
    BY <2>3, <2>4
<1>7. CASE MonitorWait
  BY <1>7 DEF MonitorWait, DirTypeOK
<1>8. CASE MonitorStops
  BY <1>8 DEF MonitorStops, Disconnect, DirTypeOK
<1>9. CASE MonitorWake
  BY <1>9 DEF MonitorWake, DirTypeOK
<1>10. QED
  BY <1>1, <1>2, <1>3, <1>4, <1>5, <1>6, <1>7, <1>8, <1>9 DEF MonitorStep

\* and so does the main thread.
LEMMA MainTypes ==
    ASSUME MonitorInv, MainStep
    PROVE  MonitorTypeOK' /\ PhaseOK'
<1> USE WorldAssumption DEF MonitorInv, MonitorTypeOK, WorldTypeOK, DirTypeOK, PhaseOK,
        Identifying, Thread, dirVars, monVars, worldVars
<1>1. CASE MainLock
  BY <1>1 DEF MainLock
<1>2. CASE MainUnlock
  BY <1>2 DEF MainUnlock, Disconnect
<1>3. CASE ProcessExit
  BY <1>3 DEF ProcessExit
<1>4. CASE ProcessStart
  BY <1>4, MonitorAssumption DEF ProcessStart
<1>5. ASSUME NEW n \in Nick, MainConnect(n)
      PROVE  MonitorTypeOK' /\ PhaseOK'
  BY <1>5 DEF MainConnect, Connect
<1>6. ASSUME NEW r \in Reader, MainBegin(r)
      PROVE  MonitorTypeOK' /\ PhaseOK'
  BY <1>6 DEF MainBegin
<1>7. QED
  BY <1>1, <1>2, <1>3, <1>4, <1>5, <1>6 DEF MainStep

-----------------------------------------------------------------------------
(* The rest of the invariant, one lemma per action that can disturb it.    *)

Rest ==
    /\ DistinctAddresses /\ Shadowed
    /\ ReadyIsTracked /\ PendingIsNew
    /\ ReadyCardIsThere /\ FoundIsThere
    /\ ConnectionsOK

\* A step that leaves all of this alone keeps it.
LEMMA RestStutters ==
    ASSUME MonitorInv,
           UNCHANGED <<dirVars, slot, conn, tracked, cur, found, stale, reading>>,
           mpc' = "report" => mpc = "report",
           mpc \in {"open", "ident"} => mpc' \in {"open", "ident"}
    PROVE  Rest'
BY DEF MonitorInv, Rest, dirVars, DistinctAddresses, Shadowed, ReadyIsTracked, PendingIsNew,
       ReadyCardIsThere, FoundIsThere, ConnectionsOK, Ready

\* A card that is plugged in keeps the rest of the invariant,
LEMMA PlugInKeeps ==
    ASSUME MonitorInv, NEW r \in Reader, NEW x \in Card \cup {Empty}, PlugIn(r, x)
    PROVE  Rest'
<1> USE WorldAssumption DEF MonitorInv, MonitorTypeOK, WorldTypeOK, DirTypeOK, PhaseOK, Identifying
<1>1. /\ slot' = [slot EXCEPT ![r] = x]
      /\ slot[r] \notin Card
      /\ UNCHANGED <<dirVars, monVars, conn, reading, stale>>
  BY DEF PlugIn, Attach, Insert, Attached
<1>2. stale[r]
  BY <1>1 DEF FoundIsThere
<1>3. DistinctAddresses' /\ Shadowed' /\ ReadyIsTracked' /\ PendingIsNew'
  BY <1>1 DEF DistinctAddresses, Shadowed, ReadyIsTracked, PendingIsNew, Ready, dirVars, monVars
<1>4. ReadyCardIsThere' /\ FoundIsThere'
  BY <1>1, <1>2 DEF ReadyCardIsThere, FoundIsThere, Ready, dirVars, monVars, ReadyIsTracked
<1>5. ConnectionsOK'
  BY <1>1 DEF ConnectionsOK, Ready, dirVars, monVars
<1>6. QED
  BY <1>3, <1>4, <1>5 DEF Rest

\* and so does one that is pulled out.
LEMMA PullOutKeeps ==
    ASSUME MonitorInv, NEW r \in Reader, NEW to \in {Absent, Empty}, PullOut(r, to)
    PROVE  Rest'
<1> USE WorldAssumption DEF MonitorInv, MonitorTypeOK, WorldTypeOK, DirTypeOK, PhaseOK, Identifying
<1>1. /\ slot' = [slot EXCEPT ![r] = to]
      /\ conn' = [conn EXCEPT ![r] = {}]
      /\ stale' = [stale EXCEPT ![r] = TRUE]
      /\ UNCHANGED <<dirVars, monVars, reading>>
  BY DEF PullOut, TakeAway
<1>2. DistinctAddresses' /\ Shadowed' /\ ReadyIsTracked' /\ PendingIsNew'
  BY <1>1 DEF DistinctAddresses, Shadowed, ReadyIsTracked, PendingIsNew, Ready, dirVars, monVars
<1>3. ReadyCardIsThere' /\ FoundIsThere'
  BY <1>1 DEF ReadyCardIsThere, FoundIsThere, Ready, dirVars, monVars, ReadyIsTracked
<1>4. ConnectionsOK'
  BY <1>1 DEF ConnectionsOK, Ready, dirVars, monVars
<1>5. QED
  BY <1>2, <1>3, <1>4 DEF Rest

\* remove_card takes the only record at the address off offer, so that the
\* reader can be forgotten.
LEMMA MonitorRemoveKeeps ==
    ASSUME MonitorInv, NEW r \in Reader, MonitorRemove(r)
    PROVE  Rest'
<1> USE WorldAssumption DEF MonitorInv, MonitorTypeOK, WorldTypeOK, PhaseOK, Identifying
<1>1. RemoveCard(r)
  BY DEF MonitorRemove
<1>2. /\ known' = known /\ rank' = rank /\ addr' = addr
      /\ \A n \in Nick : cstate'[n] = "Ready" => cstate[n] = "Ready"
      /\ \A n \in known : addr[n] = r => cstate'[n] = "Unavailable"
  BY <1>1, RemoveCardEffect
<1>3. /\ tracked' = tracked \ {r} /\ mpc = "remove" /\ ~reading
      /\ UNCHANGED <<worldVars, mpc, names, cur, found, reading, stale>>
  BY DEF MonitorRemove
<1>4. DistinctAddresses' /\ Shadowed'
  BY <1>2 DEF DistinctAddresses, Shadowed
<1>5. ReadyIsTracked' /\ PendingIsNew'
  BY <1>2, <1>3 DEF ReadyIsTracked, PendingIsNew, Ready
<1>6. ReadyCardIsThere' /\ FoundIsThere'
  BY <1>2, <1>3 DEF ReadyCardIsThere, FoundIsThere, Ready, worldVars
<1>7. ConnectionsOK'
  BY <1>2, <1>3 DEF ConnectionsOK, worldVars
<1>8. QED
  BY <1>4, <1>5, <1>6, <1>7 DEF Rest

\* News that the monitor sends keeps it,
LEMMA MonitorPushKeeps ==
    ASSUME MonitorInv, NEW r \in Reader, MonitorPush(r)
    PROVE  Rest'
<1> USE WorldAssumption DEF MonitorInv, MonitorTypeOK, WorldTypeOK, DirTypeOK, PhaseOK, Identifying
<1>1. /\ r \notin tracked /\ tracked' = tracked \cup {r} /\ cur' = r
      /\ mpc = "add" /\ mpc' = "open"
      /\ conn' = [conn EXCEPT ![r] = @ \cup {"monitor"}]
      /\ UNCHANGED <<dirVars, slot, found, reading, stale>>
  BY DEF MonitorPush, Connect
<1>2. DistinctAddresses' /\ Shadowed'
  BY <1>1 DEF DistinctAddresses, Shadowed, dirVars
<1>3. ReadyIsTracked' /\ PendingIsNew'
  BY <1>1 DEF ReadyIsTracked, PendingIsNew, Ready, dirVars
<1>4. ReadyCardIsThere' /\ FoundIsThere'
  BY <1>1 DEF ReadyCardIsThere, FoundIsThere, Ready, dirVars
<1>5. ConnectionsOK'
  BY <1>1 DEF ConnectionsOK, Ready, dirVars
<1>6. QED
  BY <1>2, <1>3, <1>4, <1>5 DEF Rest

\* and so does a card that the monitor identifies,
LEMMA MonitorIdentKeeps ==
    ASSUME MonitorInv, MonitorIdent
    PROVE  Rest'
<1> USE WorldAssumption DEF MonitorInv, MonitorTypeOK, WorldTypeOK, DirTypeOK, PhaseOK, Identifying
<1>1. /\ cur \in Reader /\ slot[cur] \in Card /\ found' = slot[cur] /\ mpc' = "report"
      /\ stale' = [stale EXCEPT ![cur] = FALSE]
      /\ conn' = [r \in Reader |-> conn[r] \ {"monitor"}]
      /\ UNCHANGED <<dirVars, slot, tracked, cur, reading>>
  BY DEF MonitorIdent, CanTransact, Disconnect
<1>2. DistinctAddresses' /\ Shadowed' /\ ReadyIsTracked' /\ PendingIsNew'
  BY <1>1 DEF DistinctAddresses, Shadowed, ReadyIsTracked, PendingIsNew, Ready, dirVars
<1>3. ReadyCardIsThere' /\ FoundIsThere'
  BY <1>1 DEF ReadyCardIsThere, FoundIsThere, Ready, dirVars, PendingIsNew
<1>4. ConnectionsOK'
  BY <1>1 DEF ConnectionsOK, Ready, dirVars
<1>5. QED
  BY <1>2, <1>3, <1>4 DEF Rest

\* add_card: the record it makes Ready has its address for itself, and is the
\* first for its ident.
LEMMA MonitorReportKeeps ==
    ASSUME MonitorInv, MonitorReport
    PROVE  Rest'
<1> USE WorldAssumption DEF MonitorInv, MonitorTypeOK, WorldTypeOK, PhaseOK, Identifying
<1>1. /\ cur \in Reader /\ found \in Card /\ AddCard(found, cur)
      /\ mpc = "report" /\ mpc' = "add" /\ cur' = None /\ ~reading
      /\ UNCHANGED <<worldVars, tracked, reading, stale>>
  BY DEF MonitorReport
<1>2. /\ DirTypeOK' /\ known' \subseteq known /\ rank' = rank
      /\ \A n \in known' :
            \/ /\ ConfIdent[n] = found
               /\ \A m \in known : ConfIdent[m] = found => rank[n] <= rank[m]
               /\ addr'[n] = cur
               /\ cstate'[n] = "Ready"
            \/ /\ addr'[n] = addr[n]
               /\ cstate'[n] = cstate[n]
               /\ addr[n] = cur => ConfIdent[n] = found
               /\ ConfIdent[n] = found =>
                    \E m \in known : ConfIdent[m] = found /\ rank[m] < rank[n]
  BY <1>1, AddCardEffect
<1>3. \A n \in Nick : rank[n] \in Nat
  BY ConfigAssumption, FS_CardinalityType DEF DirTypeOK, Order
<1>4. known' \subseteq Nick /\ known \subseteq Nick
  BY <1>2 DEF DirTypeOK
<1>5. DistinctAddresses'
  <2> SUFFICES ASSUME NEW m \in known', NEW n \in known',
                      addr'[m] # None, addr'[m] = addr'[n]
               PROVE  m = n
    BY DEF DistinctAddresses
  <2> DEFINE New(k) == /\ ConfIdent[k] = found
                       /\ \A j \in known : ConfIdent[j] = found => rank[k] <= rank[j]
                       /\ addr'[k] = cur
             Old(k) == /\ addr'[k] = addr[k]
                       /\ addr[k] = cur => ConfIdent[k] = found
                       /\ ConfIdent[k] = found =>
                            \E j \in known : ConfIdent[j] = found /\ rank[j] < rank[k]
  <2>1. \A k \in known' : New(k) \/ Old(k)
    BY <1>2
  <2>2. m \in known /\ n \in known /\ m \in Nick /\ n \in Nick
    BY <1>2, <1>4
  <2>3. CASE New(m) /\ New(n)
    <3>1. rank[m] <= rank[n] /\ rank[n] <= rank[m]
      BY <2>2, <2>3
    <3>2. rank[m] = rank[n]
      BY <1>3, <2>2, <3>1
    <3>3. QED
      BY <2>2, <3>2 DEF DirTypeOK, Order
  <2>4. ASSUME NEW i \in known', NEW k \in known', New(i), Old(k), addr'[i] = addr'[k]
        PROVE  FALSE
    <3>1. addr[k] = cur /\ ConfIdent[k] = found
      BY <2>4
    <3>2. PICK j \in known : ConfIdent[j] = found /\ rank[j] < rank[k]
      BY <2>4, <3>1
    <3>3. addr[k] = None
      BY <1>2, <3>1, <3>2 DEF Shadowed
    <3>4. QED
      BY <1>1, <3>1, <3>3
  <2>5. CASE Old(m) /\ Old(n)
    BY <2>2, <2>5 DEF DistinctAddresses
  <2> HIDE DEF New, Old
  <2>6. QED
    BY <2>1, <2>3, <2>4, <2>5
<1>6. Shadowed'
  <2> SUFFICES ASSUME NEW m \in known', NEW n \in known',
                      ConfIdent[m] = ConfIdent[n], rank[m] < rank[n]
               PROVE  addr'[n] = None
    BY <1>2 DEF Shadowed
  <2>1. ~(ConfIdent[n] = found /\ \A k \in known : ConfIdent[k] = found => rank[n] <= rank[k])
    BY <1>2, <1>3, <1>4
  <2>2. addr'[n] = addr[n]
    BY <1>2, <2>1
  <2>3. QED
    BY <1>2, <2>2 DEF Shadowed
<1>7. ReadyIsTracked' /\ PendingIsNew'
  BY <1>1, <1>2 DEF ReadyIsTracked, PendingIsNew, Ready
<1>8. ReadyCardIsThere' /\ FoundIsThere'
  BY <1>1, <1>2, <1>4 DEF ReadyCardIsThere, FoundIsThere, Ready, worldVars
<1>9. ConnectionsOK'
  BY <1>1 DEF ConnectionsOK, worldVars, MonitorReport
<1>10. QED
  BY <1>5, <1>6, <1>7, <1>8, <1>9 DEF Rest

\* the end of the monitor,
LEMMA MonitorStopsKeeps ==
    ASSUME MonitorInv, MonitorStops
    PROVE  Rest'
<1> USE WorldAssumption DEF MonitorInv, MonitorTypeOK, WorldTypeOK, DirTypeOK, PhaseOK, Identifying
<1>1. /\ tracked \subseteq tracked' /\ cur' = None /\ mpc' = "stopped"
      /\ conn' = [r \in Reader |-> conn[r] \ {"monitor"}]
      /\ UNCHANGED <<dirVars, slot, reading, stale>>
  BY DEF MonitorStops, Disconnect
<1>2. DistinctAddresses' /\ Shadowed' /\ ReadyIsTracked' /\ PendingIsNew'
  BY <1>1 DEF DistinctAddresses, Shadowed, ReadyIsTracked, PendingIsNew, Ready, dirVars
<1>3. ReadyCardIsThere' /\ FoundIsThere'
  BY <1>1 DEF ReadyCardIsThere, FoundIsThere, Ready, dirVars
<1>4. ConnectionsOK'
  BY <1>1 DEF ConnectionsOK, Ready, dirVars
<1>5. QED
  BY <1>2, <1>3, <1>4 DEF Rest

\* and a step of the main thread.
LEMMA MainKeeps ==
    ASSUME MonitorInv, MainStep
    PROVE  Rest'
<1> USE WorldAssumption DEF MonitorInv, MonitorTypeOK, WorldTypeOK, DirTypeOK, PhaseOK, Identifying
<1>1. ASSUME UNCHANGED <<dirVars, monVars, slot, stale>>, ConnectionsOK'
      PROVE  Rest'
  <2>1. DistinctAddresses' /\ Shadowed' /\ ReadyIsTracked' /\ PendingIsNew'
    BY <1>1 DEF DistinctAddresses, Shadowed, ReadyIsTracked, PendingIsNew, Ready, dirVars, monVars
  <2>2. ReadyCardIsThere' /\ FoundIsThere'
    BY <1>1 DEF ReadyCardIsThere, FoundIsThere, Ready, dirVars, monVars
  <2>3. QED
    BY <1>1, <2>1, <2>2 DEF Rest
<1>2. CASE MainLock
  <2>1. ConnectionsOK'
    BY <1>2 DEF MainLock, ConnectionsOK, Ready, dirVars, monVars, worldVars
  <2>2. QED
    BY <1>1, <1>2, <2>1 DEF MainLock, worldVars
<1>3. CASE MainUnlock
  <2>1. ConnectionsOK'
    BY <1>3 DEF MainUnlock, Disconnect, ConnectionsOK, Ready, dirVars, monVars
  <2>2. QED
    BY <1>1, <1>3, <2>1 DEF MainUnlock, Disconnect
<1>4. ASSUME NEW n \in Nick, MainConnect(n)
      PROVE  Rest'
  <2>1. /\ reading /\ Ready(n) /\ reading' = reading
        /\ conn' = [conn EXCEPT ![addr[n]] = @ \cup {"main"}]
        /\ UNCHANGED <<dirVars, monVars, slot, stale>>
    BY <1>4 DEF MainConnect, Connect
  <2>2. addr[n] \in Reader
    BY <2>1 DEF ReadyIsTracked
  <2>3. ConnectionsOK'
    <3> SUFFICES ASSUME NEW r \in Reader
                 PROVE  /\ "main" \in conn'[r] =>
                             reading' /\ \E k \in Nick : Ready(k)' /\ addr'[k] = r
                        /\ "monitor" \in conn'[r] => cur' = r /\ mpc' \in {"open", "ident"}
      BY DEF ConnectionsOK
    <3>1. CASE r = addr[n]
      BY <2>1, <2>2, <3>1 DEF ConnectionsOK, Ready, dirVars, monVars
    <3>2. CASE r # addr[n]
      BY <2>1, <2>2, <3>2 DEF ConnectionsOK, Ready, dirVars, monVars
    <3>3. QED
      BY <3>1, <3>2
  <2>4. QED
    BY <1>1, <2>1, <2>3
<1>5. ASSUME NEW r \in Reader, MainBegin(r)
      PROVE  Rest'
  <2>1. ConnectionsOK'
    BY <1>5 DEF MainBegin, ConnectionsOK, Ready, dirVars, monVars
  <2>2. QED
    BY <1>1, <1>5, <2>1 DEF MainBegin
<1>6. CASE ProcessExit
  <2>1. /\ known' = {} /\ \A n \in Nick : addr'[n] = None /\ cstate'[n] = "Unavailable"
        /\ cur' = None /\ mpc' = "off" /\ conn' = [r \in Reader |-> {}]
        /\ stale' = [r \in Reader |-> TRUE]
    BY <1>6 DEF ProcessExit
  <2>2. DistinctAddresses' /\ Shadowed' /\ ReadyIsTracked' /\ PendingIsNew'
    BY <2>1 DEF DistinctAddresses, Shadowed, ReadyIsTracked, PendingIsNew, Ready
  <2>3. ReadyCardIsThere' /\ FoundIsThere' /\ ConnectionsOK'
    BY <2>1 DEF ReadyCardIsThere, FoundIsThere, ConnectionsOK, Ready
  <2>4. QED
    BY <2>2, <2>3 DEF Rest
<1>7. CASE ProcessStart
  <2>1. /\ known' = Nick /\ \A n \in Nick : addr'[n] = None /\ cstate'[n] = "Unavailable"
        /\ ~reading /\ cur = None /\ mpc' = "remove"
        /\ UNCHANGED <<cur, conn, slot, stale, reading>>
    BY <1>7 DEF ProcessStart, worldVars
  <2>2. DistinctAddresses' /\ Shadowed' /\ ReadyIsTracked' /\ PendingIsNew'
    BY <2>1 DEF DistinctAddresses, Shadowed, ReadyIsTracked, PendingIsNew, Ready
  <2>3. ReadyCardIsThere' /\ FoundIsThere'
    BY <2>1 DEF ReadyCardIsThere, FoundIsThere, Ready
  <2>4. ConnectionsOK'
    BY <1>7, <2>1 DEF ConnectionsOK, Ready, ProcessStart
  <2>5. QED
    BY <2>2, <2>3, <2>4 DEF Rest
<1>8. QED
  BY <1>2, <1>3, <1>4, <1>5, <1>6, <1>7 DEF MainStep

\* So every step keeps the inductive invariant.
LEMMA StepInv == MonitorInv /\ [MonitorNext]_vars => MonitorInv'
<1> SUFFICES ASSUME MonitorInv, [MonitorNext]_vars
             PROVE  MonitorInv'
  OBVIOUS
<1>1. ASSUME MonitorTypeOK' /\ PhaseOK', Rest'
      PROVE  MonitorInv'
  BY <1>1 DEF MonitorInv, Rest
<1>2. CASE WorldStep
  <2>1. ASSUME NEW r \in Reader, OtherApp(r)
        PROVE  Rest'
    BY <2>1, RestStutters DEF OtherApp, OtherBegins, OtherExcludes, OtherEnds, monVars
  <2>2. Rest'
    <3>1. ASSUME NEW r \in Reader, NEW x \in Card \cup {Empty}, PlugIn(r, x)
          PROVE  Rest'
      BY <3>1, PlugInKeeps
    <3>2. ASSUME NEW r \in Reader, NEW to \in {Absent, Empty}, PullOut(r, to)
          PROVE  Rest'
      BY <3>2, PullOutKeeps
    <3>3. QED
      BY <1>2, <2>1, <3>1, <3>2 DEF WorldStep
  <2>3. QED
    BY <1>1, <1>2, <2>2, WorldTypes
<1>3. CASE MonitorStep \/ MonitorWake
  <2>1. ASSUME MonitorList \/ MonitorOpen \/ MonitorWait \/ MonitorWake
        PROVE  Rest'
    BY <2>1, RestStutters DEF MonitorList, MonitorOpen, MonitorWait, MonitorWake, worldVars
  <2>2. ASSUME NEW r \in Reader, MonitorRemove(r)
        PROVE  Rest'
    BY <2>2, MonitorRemoveKeeps
  <2>3. ASSUME NEW r \in Reader, MonitorPush(r)
        PROVE  Rest'
    BY <2>3, MonitorPushKeeps
  <2>4. ASSUME MonitorIdent
        PROVE  Rest'
    BY <2>4, MonitorIdentKeeps
  <2>5. ASSUME MonitorReport
        PROVE  Rest'
    BY <2>5, MonitorReportKeeps
  <2>6. ASSUME MonitorStops
        PROVE  Rest'
    BY <2>6, MonitorStopsKeeps
  <2>7. Rest'
    BY <1>3, <2>1, <2>2, <2>3, <2>4, <2>5, <2>6 DEF MonitorStep
  <2>8. MonitorTypeOK' /\ PhaseOK'
    BY <1>3, MonitorTypes
  <2>9. QED
    BY <1>1, <2>7, <2>8
<1>4. CASE MainStep
  BY <1>1, <1>4, MainKeeps, MainTypes
<1>5. CASE UNCHANGED vars
  <2>1. Rest'
    BY <1>5, RestStutters DEF vars, worldVars, monVars
  <2>2. MonitorTypeOK' /\ PhaseOK'
    BY <1>5 DEF MonitorInv, vars, worldVars, dirVars, monVars, MonitorTypeOK, WorldTypeOK,
       DirTypeOK, PhaseOK
  <2>3. QED
    BY <1>1, <2>1, <2>2
<1>6. QED
  BY <1>2, <1>3, <1>4, <1>5 DEF MonitorNext

-----------------------------------------------------------------------------
(* What it is for.                                                         *)

\* The inductive invariant holds in every reachable state of module Monitor.
THEOREM MonitorInvariance == MonitorSpec => []MonitorInv
<1>1. MonitorInit => MonitorInv
  BY InitInv
<1>2. MonitorInv /\ [MonitorNext]_vars => MonitorInv'
  BY StepInv
<1>3. QED
  BY <1>1, <1>2, PTL DEF MonitorSpec

\* The variables of module Monitor keep their types.
THEOREM MonitorTypeSafe == MonitorSpec => []MonitorTypeOK
<1>1. MonitorInv => MonitorTypeOK
  BY DEF MonitorInv
<1>2. QED
  BY <1>1, MonitorInvariance, PTL

\* No two records of known_cards ever share an address, so remove_card may
\* stop at the first record it finds.
THEOREM AddressesDistinct == MonitorSpec => []DistinctAddresses
<1>1. MonitorInv => DistinctAddresses
  BY DEF MonitorInv
<1>2. QED
  BY <1>1, MonitorInvariance, PTL

\* A Ready record is at an address the monitor watches.
THEOREM ReadyTracked == MonitorSpec => []ReadyIsTracked
<1>1. MonitorInv => ReadyIsTracked
  BY DEF MonitorInv
<1>2. QED
  BY <1>1, MonitorInvariance, PTL

\* The card a Ready record is configured for is in the reader the record
\* names, unless it has left that reader since it was identified there.
THEOREM ReadyIsTruthful == MonitorSpec => []ReadyCardIsThere
<1>1. MonitorInv => ReadyCardIsThere
  BY DEF MonitorInv
<1>2. QED
  BY <1>1, MonitorInvariance, PTL

\* The two threads of the agent never have connections to the same reader.
THEOREM ReadersNotShared == MonitorSpec => []NoSharedReader
<1>1. MonitorInv => NoSharedReader
  <2> SUFFICES ASSUME MonitorInv, NEW r \in Reader
               PROVE  Cardinality(conn[r]) <= 1
    BY DEF NoSharedReader
  <2>1. conn[r] \subseteq {"monitor", "main"}
    BY DEF MonitorInv, MonitorTypeOK, WorldTypeOK, Thread
  <2>2. ~("monitor" \in conn[r] /\ "main" \in conn[r])
    BY WorldAssumption DEF MonitorInv, ConnectionsOK, PendingIsNew
  <2>3. conn[r] = {} \/ conn[r] = {"monitor"} \/ conn[r] = {"main"}
    BY <2>1, <2>2
  <2>4. Cardinality({}) = 0 /\ Cardinality({"monitor"}) = 1 /\ Cardinality({"main"}) = 1
    BY FS_EmptySet, FS_Singleton
  <2>5. QED
    BY <2>3, <2>4
<1>2. QED
  BY <1>1, MonitorInvariance, PTL

-----------------------------------------------------------------------------
(* The converse of ReadyCardIsThere needs an invariant of its own.         *)

\* A reader that is not tracked, is about to be forgotten or is still being
\* asked for its card holds no card known to have stayed there; a process that
\* is not running tracks none.
StaleOK ==
    /\ \A r \in Reader : r \notin tracked \/ r \in dead => stale[r]
    /\ dead # {} => mpc = "remove"
    /\ mpc = "off" => tracked = {}
    /\ mpc \in {"open", "ident"} => stale[cur]

\* No card is in two readers, so the card to be reported is nowhere else.
CardsAreUnique ==
    /\ \A q, r \in Reader : slot[q] = slot[r] /\ slot[q] \in Card => q = r
    /\ mpc = "report" => \A r \in Reader \ {cur} : ~stale[r] => slot[r] # found

IdentInv == IdentifiedCardIsReady /\ StaleOK /\ CardsAreUnique

\* What the monitor reports of a card that it identified is that it is ready.
LEMMA IdentReport ==
    ASSUME MonitorInv, IdentInv, MonitorReport
    PROVE  IdentifiedCardIsReady'
<1> USE DEF MonitorInv, MonitorTypeOK, WorldTypeOK, PhaseOK, Identifying
<1>1. /\ cur \in Reader /\ found \in Card /\ AddCard(found, cur)
      /\ mpc = "report" /\ cur' = None
      /\ UNCHANGED <<slot, tracked, stale>>
  BY DEF MonitorReport, worldVars
<1>2. /\ known' \subseteq known /\ rank' = rank
      /\ \A n \in known : ConfIdent[n] = found \/ addr[n] # cur => n \in known'
      /\ \A n \in known' :
            \/ /\ ConfIdent[n] = found
               /\ \A m \in known : ConfIdent[m] = found => rank[n] <= rank[m]
               /\ addr'[n] = cur
               /\ cstate'[n] = "Ready"
            \/ /\ addr'[n] = addr[n]
               /\ cstate'[n] = cstate[n]
               /\ addr[n] = cur => ConfIdent[n] = found
               /\ ConfIdent[n] = found =>
                    \E m \in known : ConfIdent[m] = found /\ rank[m] < rank[n]
  BY <1>1, AddCardEffect
<1>3. known \subseteq Nick /\ \A n \in Nick : rank[n] \in Nat
  BY ConfigAssumption, FS_CardinalityType DEF DirTypeOK, Order
<1> SUFFICES ASSUME NEW r \in tracked, NEW n \in known', ~stale[r], ConfIdent[n] = slot[r],
                    \A m \in known' : ConfIdent[m] = slot[r] => rank[n] <= rank[m]
             PROVE  cstate'[n] = "Ready" /\ addr'[n] = r
  BY <1>1, <1>2 DEF IdentifiedCardIsReady, Ready
<1>4. CASE r = cur
  <2>1. ConfIdent[n] = found
    BY <1>1, <1>4 DEF FoundIsThere
  <2>2. \A m \in known : ConfIdent[m] = found => m \in known' /\ rank[n] <= rank[m]
    BY <1>1, <1>2, <1>4, <2>1
  <2>3. \A m \in known : ConfIdent[m] = found => ~(rank[m] < rank[n])
    BY <1>2, <1>3, <2>2
  <2>4. QED
    BY <1>2, <1>4, <2>1, <2>3
<1>5. CASE r # cur
  <2>1. ConfIdent[n] # found
    BY <1>1, <1>5 DEF IdentInv, CardsAreUnique
  <2>2. n \in known /\ addr'[n] = addr[n] /\ cstate'[n] = cstate[n]
    BY <1>2, <2>1
  <2>3. ASSUME NEW m \in known, ConfIdent[m] = slot[r]
        PROVE  rank[n] <= rank[m]
    <3> DEFINE same == {k \in known : ConfIdent[k] = slot[r]}
    <3>1. PICK f \in same : \A k \in same : rank[f] <= rank[k]
      BY <1>3, <2>3, FirstIsFirst
    <3>2. Ready(f) /\ addr[f] = r
      BY <1>5, <3>1 DEF IdentInv, IdentifiedCardIsReady
    <3>3. f \in known'
      BY <1>2, <1>5, <3>1, <3>2
    <3>4. rank[n] <= rank[f] /\ rank[f] <= rank[m]
      BY <2>3, <3>1, <3>3
    <3>5. QED
      BY <1>2, <1>3, <3>1, <3>4
  <2>4. Ready(n) /\ addr[n] = r
    BY <1>5, <2>2, <2>3 DEF IdentInv, IdentifiedCardIsReady
  <2>5. QED
    BY <2>2, <2>4 DEF Ready
<1>6. QED
  BY <1>4, <1>5

\* Every step keeps what is known of identified cards.
LEMMA IdentKept ==
    ASSUME MonitorInv, IdentInv, [MonitorNext]_vars
    PROVE  IdentInv'
<1> USE WorldAssumption DEF IdentInv, StaleOK, CardsAreUnique
<1>0. MonitorTypeOK /\ WorldTypeOK /\ DirTypeOK /\ PhaseOK
  BY DEF MonitorInv, MonitorTypeOK
<1>1. ASSUME UNCHANGED <<dirVars, slot, monVars, stale>>
      PROVE  IdentInv'
  BY <1>1 DEF dirVars, monVars, IdentifiedCardIsReady, Ready
<1>2. ASSUME NEW r \in Reader, NEW x \in Card \cup {Empty}, PlugIn(r, x)
      PROVE  IdentInv'
  <2>1. /\ slot' = [slot EXCEPT ![r] = x] /\ slot[r] \notin Card
        /\ x \in Card => \A q \in Reader : slot[q] # x
        /\ UNCHANGED <<dirVars, monVars, stale>>
    BY <1>2 DEF PlugIn, Attach, Insert, Attached, Somewhere
  <2>2. stale[r]
    BY <2>1 DEF MonitorInv, FoundIsThere
  <2>3. IdentifiedCardIsReady'
    BY <1>0, <2>1, <2>2 DEF IdentifiedCardIsReady, Ready, dirVars, monVars, MonitorTypeOK,
       WorldTypeOK
  <2>4. StaleOK' /\ CardsAreUnique'
    BY <1>0, <2>1, <2>2 DEF monVars, WorldTypeOK
  <2>5. QED
    BY <2>3, <2>4
<1>3. ASSUME NEW r \in Reader, NEW to \in {Absent, Empty}, PullOut(r, to)
      PROVE  IdentInv'
  <2>1. /\ slot' = [slot EXCEPT ![r] = to]
        /\ stale' = [stale EXCEPT ![r] = TRUE]
        /\ UNCHANGED <<dirVars, monVars>>
    BY <1>3 DEF PullOut, TakeAway
  <2>2. IdentifiedCardIsReady'
    BY <1>0, <2>1 DEF IdentifiedCardIsReady, Ready, dirVars, monVars, MonitorTypeOK, WorldTypeOK
  <2>3. StaleOK' /\ CardsAreUnique'
    BY <1>0, <2>1 DEF monVars, WorldTypeOK, MonitorTypeOK
  <2>4. QED
    BY <2>2, <2>3
<1>4. ASSUME NEW r \in Reader, OtherApp(r)
      PROVE  IdentInv'
  BY <1>1, <1>4 DEF OtherApp, OtherBegins, OtherExcludes, OtherEnds
<1>5. ASSUME NEW r \in Reader, MonitorRemove(r)
      PROVE  IdentInv'
  <2>1. /\ RemoveCard(r) /\ r \in dead /\ mpc = "remove"
        /\ tracked' = tracked \ {r} /\ dead' = dead \ {r}
        /\ UNCHANGED <<slot, mpc, cur, found, stale>>
    BY <1>5 DEF MonitorRemove, worldVars
  <2>2. /\ known' = known /\ rank' = rank /\ addr' = addr
        /\ \A n \in Nick : addr[n] # r => cstate'[n] = cstate[n]
    BY <2>1, RemoveCardEffect DEF MonitorInv, MonitorTypeOK
  <2>3. IdentifiedCardIsReady'
    BY <1>0, <2>1, <2>2 DEF IdentifiedCardIsReady, Ready, DirTypeOK
  <2>4. StaleOK' /\ CardsAreUnique'
    BY <2>1
  <2>5. QED
    BY <2>3, <2>4
<1>6. ASSUME NEW r \in Reader, MonitorPush(r)
      PROVE  IdentInv'
  <2>1. /\ mpc = "add" /\ r \in names \ tracked /\ tracked' = tracked \cup {r} /\ cur' = r
        /\ mpc' = "open"
        /\ UNCHANGED <<dirVars, slot, dead, found, stale>>
    BY <1>6 DEF MonitorPush, Connect
  <2>2. cur = None
    BY <1>0, <2>1 DEF PhaseOK, Identifying
  <2>3. IdentifiedCardIsReady'
    BY <1>0, <2>1, <2>2 DEF IdentifiedCardIsReady, Ready, dirVars, MonitorTypeOK
  <2>4. StaleOK' /\ CardsAreUnique'
    BY <1>0, <2>1 DEF MonitorTypeOK
  <2>5. QED
    BY <2>3, <2>4
<1>7. CASE MonitorList \/ MonitorOpen \/ MonitorWait
  <2>1. /\ UNCHANGED <<dirVars, slot, tracked, dead, cur, found, stale>>
        /\ mpc # "off" /\ mpc' # "off" /\ dead = {} /\ mpc' # "report"
        /\ mpc' \in {"open", "ident"} => mpc \in {"open", "ident"}
    BY <1>7 DEF MonitorList, MonitorOpen, MonitorWait, worldVars
  <2>2. QED
    BY <2>1 DEF IdentifiedCardIsReady, Ready, dirVars
<1>8. CASE MonitorIdent
  <2>1. /\ cur \in Reader /\ slot[cur] \in Card /\ found' = slot[cur]
        /\ mpc = "ident" /\ mpc' = "report"
        /\ stale' = [stale EXCEPT ![cur] = FALSE]
        /\ UNCHANGED <<dirVars, slot, tracked, dead, cur>>
    BY <1>0, <1>8 DEF MonitorIdent, CanTransact, Disconnect, PhaseOK, Identifying, MonitorTypeOK
  <2>2. cur \in tracked /\ dead = {}
    BY <2>1 DEF MonitorInv, PendingIsNew
  <2>3. IdentifiedCardIsReady'
    BY <1>0, <2>1 DEF IdentifiedCardIsReady, Ready, dirVars, MonitorTypeOK
  <2>4. StaleOK' /\ CardsAreUnique'
    BY <1>0, <2>1, <2>2 DEF MonitorTypeOK
  <2>5. QED
    BY <2>3, <2>4
<1>9. CASE MonitorReport
  <2>1. StaleOK' /\ CardsAreUnique'
    BY <1>9 DEF MonitorReport, worldVars
  <2>2. QED
    BY <1>9, <2>1, IdentReport
<1>10. CASE MonitorStops
  <2>1. /\ mpc' = "stopped" /\ cur' = None /\ tracked \subseteq tracked' /\ mpc # "off"
        /\ UNCHANGED <<dirVars, slot, dead, found, stale>>
        /\ dead = {}
    BY <1>10 DEF MonitorStops, Disconnect
  <2>2. ASSUME NEW r \in tracked', ~stale[r]
        PROVE  r \in tracked /\ r # cur
    BY <1>0, <1>10, <2>2 DEF MonitorStops, MonitorTypeOK, PhaseOK, Identifying
  <2>3. IdentifiedCardIsReady'
    BY <2>1, <2>2 DEF IdentifiedCardIsReady, Ready, dirVars
  <2>4. StaleOK' /\ CardsAreUnique'
    BY <2>1
  <2>5. QED
    BY <2>3, <2>4
<1>11. CASE MonitorWake
  <2>1. /\ dead' = {r \in tracked : slot[r] = Absent} /\ mpc = "wait" /\ mpc' = "remove"
        /\ UNCHANGED <<dirVars, slot, tracked, cur, found, stale>>
    BY <1>11 DEF MonitorWake, worldVars, Attached
  <2>2. \A r \in dead' : stale[r]
    BY <1>0, <2>1 DEF MonitorInv, FoundIsThere, MonitorTypeOK
  <2>3. QED
    BY <2>1, <2>2 DEF IdentifiedCardIsReady, Ready, dirVars
<1>12. ASSUME MainLock \/ MainUnlock \/ (\E n \in Nick : MainConnect(n))
              \/ \E r \in Reader : MainBegin(r)
       PROVE  IdentInv'
  BY <1>1, <1>12 DEF MainLock, MainUnlock, MainConnect, MainBegin, Connect, Disconnect, worldVars
<1>13. CASE ProcessExit
  BY <1>13 DEF ProcessExit, IdentifiedCardIsReady
<1>14. CASE ProcessStart
  <2>1. tracked' = {} /\ mpc' = "remove"
    BY <1>14 DEF ProcessStart
  <2>2. dead' = {} /\ UNCHANGED <<slot, stale>>
    BY <1>0, <1>14 DEF ProcessStart, MonitorTypeOK, worldVars
  <2>3. \A r \in Reader : stale[r]
    BY <1>14 DEF ProcessStart
  <2>4. StaleOK' /\ CardsAreUnique'
    BY <2>1, <2>2, <2>3
  <2>5. QED
    BY <2>1, <2>4 DEF IdentifiedCardIsReady
<1>15. CASE UNCHANGED vars
  BY <1>1, <1>15 DEF vars, worldVars
<1>16. QED
  BY <1>2, <1>3, <1>4, <1>5, <1>6, <1>7, <1>8, <1>9, <1>10, <1>11, <1>12, <1>13, <1>14, <1>15
     DEF MonitorNext, MonitorStep, MainStep, WorldStep

\* A card that was identified and has not moved since is on offer at its
\* reader, by the first record configured for it: no arrival or removal of
\* another card takes it off.
THEOREM IdentifiedIsReady == MonitorSpec => []IdentifiedCardIsReady
<1>1. MonitorInit => IdentInv
  BY WorldAssumption DEF MonitorInit, WorldInit, IdentInv, StaleOK, CardsAreUnique, IdentifiedCardIsReady
<1>2. MonitorInv /\ IdentInv /\ [MonitorNext]_vars => IdentInv'
  BY IdentKept
<1>3. IdentInv => IdentifiedCardIsReady
  BY DEF IdentInv
<1>4. QED
  BY <1>1, <1>2, <1>3, MonitorInvariance, PTL DEF MonitorSpec

-----------------------------------------------------------------------------
(* known_cards is a directory.                                             *)

\* Addresses are distinct, so the choice in Offer is none.
LEMMA OfferIsTheRecord ==
    ASSUME NEW H, \A m, n \in H : m = n, NEW n \in H
    PROVE  (CHOOSE m \in H : TRUE) = n
OBVIOUS

\* Offer, without the CHOOSE.
Offers(r, c) == \E n \in known : cstate[n] = "Ready" /\ addr[n] = r /\ ConfIdent[n] = c

\* What a reader offers is the card that the directory of the abstract
\* specification sees in it.
LEMMA OfferMeans ==
    ASSUME MonitorInv, NEW r \in Reader
    PROVE  /\ \A c \in Card : Offer(r) = c <=> Offers(r, c)
           /\ Offer(r) \in Card \cup {None}
<1> DEFINE here == {n \in known : cstate[n] = "Ready" /\ addr[n] = r}
<1>1. r # None /\ None \notin Card
  BY WorldAssumption
<1>2. \A n \in here : ConfIdent[n] \in Card
  BY ConfigAssumption DEF MonitorInv, MonitorTypeOK, DirTypeOK
<1>3. \A m, n \in here : m = n
  BY <1>1 DEF MonitorInv, DistinctAddresses
<1>4. \A n \in here : Offer(r) = ConfIdent[n]
  BY <1>3, OfferIsTheRecord DEF Offer
<1>5. here = {} => Offer(r) = None
  BY DEF Offer
<1>6. QED
  BY <1>1, <1>2, <1>4, <1>5 DEF Offers

\* The same of the state after a step.
LEMMA OfferMeansNext ==
    ASSUME MonitorInv', NEW r \in Reader
    PROVE  /\ \A c \in Card : Offer(r)' = c <=> Offers(r, c)'
           /\ Offer(r)' \in Card \cup {None}
<1> DEFINE here == {n \in known' : cstate'[n] = "Ready" /\ addr'[n] = r}
<1>1. r # None /\ None \notin Card
  BY WorldAssumption
<1>2. \A n \in here : ConfIdent[n] \in Card
  BY ConfigAssumption DEF MonitorInv, MonitorTypeOK, DirTypeOK
<1>3. \A m, n \in here : m = n
  BY <1>1 DEF MonitorInv, DistinctAddresses
<1>4. \A n \in here : Offer(r)' = ConfIdent[n]
  BY <1>3, OfferIsTheRecord DEF Offer
<1>5. here = {} => Offer(r)' = None
  BY DEF Offer
<1>6. QED
  BY <1>1, <1>2, <1>4, <1>5 DEF Offers

\* Two offers are the same if they are the same for every card.
LEMMA SameOffer ==
    ASSUME NEW a \in Card \cup {None}, NEW b \in Card \cup {None},
           \A c \in Card : a = c <=> b = c
    PROVE  a = b
OBVIOUS

\* The offers of all readers.
offers == [r \in Reader |-> Offer(r)]

\* What card_available does to the directory: the card appears, if a record
\* is left for it, and nothing changes otherwise.
LEMMA ReportAppears ==
    ASSUME MonitorInv, MonitorInv', MonitorReport,
           NEW a \in Reader, cur = a, NEW c \in Card, found = c
    PROVE  UNCHANGED <<offers, reading>> \/ Directory!Appear(a, c)
<1>1. AddCard(c, a) /\ mpc = "report" /\ ~reading /\ reading' = reading
  BY DEF MonitorReport
<1>2. /\ known' \subseteq known
      /\ \A n \in known : ConfIdent[n] = c \/ addr[n] # a => n \in known'
      /\ \A n \in known' :
            \/ /\ ConfIdent[n] = c
               /\ \A m \in known : ConfIdent[m] = c => rank[n] <= rank[m]
               /\ addr'[n] = a
               /\ cstate'[n] = "Ready"
            \/ /\ addr'[n] = addr[n]
               /\ cstate'[n] = cstate[n]
               /\ addr[n] = a => ConfIdent[n] = c
               /\ ConfIdent[n] = c =>
                    \E m \in known : ConfIdent[m] = c /\ rank[m] < rank[n]
  BY <1>1, AddCardEffect DEF MonitorInv, MonitorTypeOK
<1>3. known \subseteq Nick /\ \A n \in Nick : rank[n] \in Nat
  BY ConfigAssumption, FS_CardinalityType DEF MonitorInv, MonitorTypeOK, DirTypeOK, Order
<1>4. \A n \in known : cstate[n] = "Ready" => addr[n] # a
  BY <1>1, <1>3 DEF MonitorInv, PendingIsNew, Ready, PhaseOK, Identifying
<1>5. a # None /\ None \notin Card /\ None \notin Reader
  BY <1>1, WorldAssumption
<1>6. \A d \in Card \ {c}, r \in Reader : Offers(r, d)' <=> Offers(r, d)
  BY <1>2, <1>4 DEF Offers
<1>7. CASE \E n \in known : ConfIdent[n] = c
  <2> DEFINE matches == {n \in known : ConfIdent[n] = c}
  <2>1. PICK f \in matches : \A m \in matches : rank[f] <= rank[m]
    BY <1>3, <1>7, FirstIsFirst DEF MonitorInv, MonitorTypeOK
  <2>2. \A m \in matches : ~(rank[m] < rank[f])
    BY <1>3, <2>1
  <2>3. f \in known' /\ addr'[f] = a /\ cstate'[f] = "Ready"
    BY <1>2, <2>1, <2>2
  <2>4. Offers(a, c)'
    BY <2>1, <2>3 DEF Offers
  <2>5. ASSUME NEW r \in Reader, r # a
        PROVE  ~Offers(r, c)'
    <3> SUFFICES ASSUME NEW n \in known', cstate'[n] = "Ready", addr'[n] = r,
                        ConfIdent[n] = c
                 PROVE  FALSE
      BY DEF Offers
    <3>1. addr[n] = r
      BY <1>2, <2>5
    <3>2. \E m \in known : ConfIdent[m] = c /\ rank[m] < rank[n]
      BY <1>2, <2>5
    <3>3. addr[n] = None
      BY <1>2, <3>2 DEF MonitorInv, Shadowed
    <3>4. QED
      BY <1>5, <3>1, <3>3
  <2>6. \A d \in Card : ~Offers(a, d)
    BY <1>4 DEF Offers
  <2>7. Offer(a) = None
    BY <1>1, <2>6, OfferMeans
  <2>8. Offer(a)' = c
    BY <1>1, <2>4, OfferMeansNext
  <2>9. ASSUME NEW r \in Reader, r # a
        PROVE  Offer(r)' = IF Offer(r) = c THEN None ELSE Offer(r)
    <3> DEFINE now == Offer(r)
               then == Offer(r)'
    <3>1. now \in Card \cup {None} /\ then \in Card \cup {None}
      BY OfferMeans, OfferMeansNext
    <3>2. then # c
      BY <1>1, <2>5, <2>9, OfferMeansNext
    <3>3. \A d \in Card \ {c} : then = d <=> now = d
      BY <1>6, OfferMeans, OfferMeansNext
    <3> HIDE DEF now, then
    <3>4. then = IF now = c THEN None ELSE now
      BY <1>5, <3>1, <3>2, <3>3
    <3>5. QED
      BY <3>4 DEF now, then
  <2>10. QED
    BY <1>1, <2>7, <2>8, <2>9 DEF Directory!Appear
<1>8. CASE ~\E n \in known : ConfIdent[n] = c
  <2>1. \A r \in Reader : ~Offers(r, c) /\ ~Offers(r, c)'
    BY <1>2, <1>8 DEF Offers
  <2>2. \A r \in Reader, d \in Card : Offers(r, d)' <=> Offers(r, d)
    BY <1>6, <2>1
  <2>3. ASSUME NEW r \in Reader
        PROVE  Offer(r)' = Offer(r)
    BY <2>2, OfferMeans, OfferMeansNext, SameOffer
  <2>4. QED
    BY <1>1, <2>3 DEF offers
<1>9. QED
  BY <1>7, <1>8

\* What card_unavailable does to it: what was on offer at the address goes.
LEMMA RemoveVanishes ==
    ASSUME MonitorInv, MonitorInv', NEW a \in Reader, MonitorRemove(a)
    PROVE  Directory!Vanish(a)
<1>1. RemoveCard(a) /\ ~reading /\ reading' = reading
  BY DEF MonitorRemove
<1>2. /\ known' = known /\ addr' = addr
      /\ \A n \in Nick : ~(addr[n] = a /\ n \in known) => cstate'[n] = cstate[n]
      /\ \A n \in known : addr[n] = a => cstate'[n] = "Unavailable"
      /\ known \subseteq Nick
  BY <1>1, RemoveCardEffect DEF MonitorInv, MonitorTypeOK, DirTypeOK
<1>3. \A c \in Card : ~Offers(a, c)'
  BY <1>2 DEF Offers
<1>4. \A r \in Reader \ {a}, c \in Card : Offers(r, c)' <=> Offers(r, c)
  BY <1>2 DEF Offers
<1>5. Offer(a)' = None
  BY <1>3, OfferMeansNext
<1>6. ASSUME NEW r \in Reader \ {a}
      PROVE  Offer(r)' = Offer(r)
  BY <1>4, OfferMeans, OfferMeansNext, SameOffer
<1>7. QED
  BY <1>1, <1>5, <1>6 DEF Directory!Vanish

\* Every step is a step of the abstract directory, or changes nothing of it.
LEMMA StepIsDirectoryStep ==
    ASSUME MonitorInv, MonitorInv', [MonitorNext]_vars
    PROVE  [Directory!DirectoryNext]_(Directory!dvars)
<1> USE DEF Directory!DirectoryNext, Directory!dvars
<1>1. ASSUME UNCHANGED dirVars
      PROVE  UNCHANGED offers
  BY <1>1 DEF dirVars, offers, Offer
<1>2. ASSUME UNCHANGED <<dirVars, reading>>
      PROVE  [Directory!DirectoryNext]_(Directory!dvars)
  BY <1>1, <1>2 DEF offers
<1>3. CASE MonitorReport
  <2>1. PICK a \in Reader, c \in Card : cur = a /\ found = c
    BY <1>3 DEF MonitorReport, MonitorInv, MonitorTypeOK, PhaseOK, Identifying
  <2>2. QED
    BY <1>3, <2>1, ReportAppears DEF offers
<1>4. ASSUME NEW r \in Reader, MonitorRemove(r)
      PROVE  [Directory!DirectoryNext]_(Directory!dvars)
  BY <1>4, RemoveVanishes
<1>5. CASE MainLock
  BY <1>1, <1>5 DEF MainLock, Directory!Hold, offers
<1>6. CASE MainUnlock
  BY <1>1, <1>6 DEF MainUnlock, Directory!Release, offers
<1>7. CASE ProcessExit
  <2>1. \A r \in Reader : Offer(r)' = None
    BY <1>7 DEF ProcessExit, Offer
  <2>2. QED
    BY <1>7, <2>1 DEF ProcessExit, Directory!Forget
<1>8. CASE ProcessStart
  <2>1. /\ \A n \in Nick : cstate[n] = "Unavailable"
        /\ known \subseteq Nick /\ known' = Nick
        /\ UNCHANGED <<cstate, reading>>
    BY <1>8 DEF ProcessStart, MonitorInv, MonitorTypeOK, PhaseOK, DirTypeOK
  <2>2. \A r \in Reader : Offer(r) = None /\ Offer(r)' = None
    BY <2>1 DEF Offer
  <2>3. QED
    BY <2>1, <2>2
<1>9. CASE \/ MonitorList \/ MonitorOpen \/ MonitorIdent \/ MonitorWait \/ MonitorStops
           \/ MonitorWake \/ WorldStep
           \/ (\E r \in Reader : MonitorPush(r) \/ MainBegin(r))
           \/ (\E n \in Nick : MainConnect(n))
           \/ UNCHANGED vars
  BY <1>2, <1>9 DEF MonitorList, MonitorOpen, MonitorIdent, MonitorWait, MonitorStops,
     MonitorWake, WorldStep, MonitorPush, MainBegin, MainConnect, PlugIn, PullOut, OtherApp, vars
<1>10. QED
  BY <1>3, <1>4, <1>5, <1>6, <1>7, <1>8, <1>9 DEF MonitorNext, MonitorStep, MainStep

\* known_cards, read through its Ready records, is a directory: an address
\* never changes from one card to another at once, no card is on offer twice,
\* and nothing changes under the read lock.
THEOREM KnownCardsAreADirectory == MonitorSpec => ImplementsDirectory
<1>1. MonitorInit => Directory!DirectoryInit
  BY DEF MonitorInit, InitKnownCards, Directory!DirectoryInit, Offer
<1>2. MonitorInv /\ MonitorInv' /\ [MonitorNext]_vars
        => [Directory!DirectoryNext]_(Directory!dvars)
  BY StepIsDirectoryStep
<1>3. QED
  BY <1>1, <1>2, MonitorInvariance, PTL
     DEF MonitorSpec, ImplementsDirectory, Directory!DirectorySpec
=============================================================================
