----------------------------- MODULE DagProofs -----------------------------
(***************************************************************************)
(* Theorems about Dag for every number of network threads, every bound on  *)
(* infos, units of peers and synchronisations, and every table and pool    *)
(* the node may start with.                                                *)
(***************************************************************************)
EXTENDS Dag, UnitTableProofs, FiniteSetTheorems

(***************************************************************************)
(* The inductive invariant.  TypeOK alone is not inductive: that a new     *)
(* unit is in Unit follows from the account of the infos and the one of    *)
(* the numbers.                                                            *)
(***************************************************************************)

(* A number is given to a unit from before the start, to one of a peer or  *)
(* to one made here.                                                       *)
NumbersAccounted ==
    /\ mine \subseteq 1 .. made
    /\ made <= 1 + MaxEarlier + remote + Cardinality(mine)

(* Nothing refers to a unit that has not been made, a unit approves older  *)
(* ones only, and the worker has put the tips it selected into the         *)
(* database.                                                               *)
Causal ==
    /\ wire \cup known \cup Held \subseteq 1 .. made
    /\ wunit <= made
    /\ \A h \in Handlers : hunit[h] <= made /\ hseen[h] \subseteq 1 .. made
    /\ \A u \in Unit : approves[u] \subseteq 1 .. u - 1
    /\ Range(wtips) \subseteq Stored(table)

(* What a thread is about to put into the pool is not from the table the   *)
(* node started with: the worker's unit is new, and a handler goes on with *)
(* a unit only if it was not stored when it looked.                        *)
NewAtHand ==
    /\ loaded \subseteq Stored(table)
    /\ wpc = "push" => wunit \notin loaded
    /\ \A h \in Handlers :
          hpc[h] \in {"check", "verified", "scan", "push"} => hunit[h] \notin loaded

Basic == TypeOK /\ LockOwner /\ InfosAccounted /\ NumbersAccounted

IInv == Basic /\ Causal /\ NewAtHand /\ ApprovedHere /\ OwnInOrder

----------------------------------------------------------------------------
(* The operations on the pool and on the database, seen from Dag.          *)

(* The numbers of units are naturals from 1 on, and Genesis is one.        *)
LEMMA UnitFacts ==
    /\ Unit \subseteq Nat \ {0}
    /\ Genesis \in Unit /\ Forged \notin Unit
    /\ selfWeight \in [Unit -> Nat]
BY DagAssumption DEF Unit, Genesis, Forged, selfWeight

(* Dag's use of DagDatabase::push: the unit joins the stored ones.         *)
LEMMA PushFacts ==
    ASSUME TypeOK, NEW u \in Unit, Push(u)
    PROVE  /\ table' \in Tables(Unit)
           /\ table'.rows = IF u \in Stored(table) THEN table.rows ELSE Append(table.rows, u)
           /\ Stored(table)' = Stored(table) \cup {u}
<1>1. table \in Tables(Unit)
  BY DEF TypeOK
<1>2. table' = PushedInFull(approves, selfWeight, table, u)
  BY DEF Push
<1>3. selfWeight \in [Unit -> Nat]
  BY UnitFacts
<1> DEFINE f == PushedInFull(approves, selfWeight, table, u)
<1>4. /\ f \in Tables(Unit)
      /\ f.rows = IF u \in Stored(table) THEN table.rows ELSE Append(table.rows, u)
      /\ Stored(f) = Stored(table) \cup {u}
  BY <1>1, <1>3, PushedInFullRows
<1> QED
  BY <1>2, <1>4 DEF Stored

(* Erasing tip i: the others stay.                                         *)
LEMMA EraseFacts ==
    ASSUME TypeOK, NEW i \in 1 .. Len(tips), Erase(i)
    PROVE  /\ tips[i] \in Unit
           /\ tips' \in Seq(Unit)
           /\ Range(tips') \subseteq Range(tips)
           /\ Range(tips) \subseteq Range(tips') \cup {tips[i]}
BY RemoveAtRange, ElementOfSeq DEF TypeOK, Erase

(* Dag::pushTip: the unit joins the tips.                                  *)
LEMMA PushTipFacts ==
    ASSUME TypeOK, NEW u \in Unit, tips' = Append(tips, u)
    PROVE  tips' \in Seq(Unit) /\ Range(tips') = Range(tips) \cup {u}
BY AppendRange DEF TypeOK

(* The places of the pool are 1 .. Len(tips), and what stands there are    *)
(* units.                                                                  *)
LEMMA TipsFacts ==
    ASSUME TypeOK
    PROVE  /\ DOMAIN tips = 1 .. Len(tips) /\ Len(tips) \in Nat
           /\ \A i \in 1 .. Len(tips) : tips[i] \in Unit /\ tips[i] \in Range(tips)
           /\ Range(tips) \subseteq Unit
BY LenProperties, ElementOfSeq, RangeEquality, RangeOfSeq DEF TypeOK

(* The hit of a scan is a place of the pool at or behind the scan index.   *)
LEMMA HitFacts ==
    ASSUME TypeOK, NEW h \in Handlers, Hits(h) # {}
    PROVE  /\ Min(Hits(h)) \in 1 .. Len(tips)
           /\ tips[Min(Hits(h))] \in approves[hunit[h]]
<1>1. Hits(h) \subseteq Nat
  BY TipsFacts DEF Hits, TypeOK
<1>2. Min(Hits(h)) \in Hits(h)
  BY <1>1, MinOfNaturals
<1>3. hpos[h] \in Nat \ {0} /\ Len(tips) \in Nat
  BY TipsFacts DEF TypeOK
<1> QED
  BY <1>2, <1>3 DEF Hits

(* The units made here are finitely many.                                  *)
LEMMA MineFinite ==
    ASSUME TypeOK, NumbersAccounted
    PROVE  IsFiniteSet(mine) /\ Cardinality(mine) \in Nat /\ made \in Nat
<1>1. made \in Nat
  BY UnitFacts DEF TypeOK
<1>2. IsFiniteSet(1 .. made)
  BY <1>1, FS_Interval
<1>3. mine \in SUBSET (1 .. made)
  BY DEF NumbersAccounted
<1>4. IsFiniteSet(mine)
  BY <1>2, <1>3, FS_Subset
<1> QED
  BY <1>1, <1>4, FS_CardinalityType

(* While an info is under way or a peer may still make a unit, there is a  *)
(* number left for the unit.                                               *)
LEMMA NextUnit ==
    ASSUME TypeOK, InfosAccounted, NumbersAccounted, remote < MaxRemote \/ wpc = "pow"
    PROVE  made + 1 \in Unit
<1>1. Cardinality(mine) \in Nat /\ made \in Nat
  BY MineFinite
<1>2. /\ submitted = infos + Working + dropped + Cardinality(mine)
      /\ made <= 1 + MaxEarlier + remote + Cardinality(mine)
  BY DEF InfosAccounted, NumbersAccounted
<1>3. /\ submitted \in 0 .. MaxInfos /\ infos \in Nat /\ dropped \in Nat
      /\ remote \in 0 .. MaxRemote
      /\ MaxInfos \in Nat /\ MaxRemote \in Nat /\ MaxEarlier \in Nat
  BY DagAssumption DEF TypeOK
<1>4. Working \in {0, 1} /\ (wpc = "pow" => Working = 1)
  BY DEF Working
<1>5. made + 1 <= 1 + MaxEarlier + MaxInfos + MaxRemote
  BY <1>1, <1>2, <1>3, <1>4
<1> QED
  BY <1>1, <1>3, <1>5 DEF Unit
----------------------------------------------------------------------------
LEMMA TypeStep ==
    ASSUME Basic, Next
    PROVE  TypeOK'
<1> USE DEF Basic
<1>1. CASE RemoteUnit
  <2>1. made + 1 \in Unit
    BY <1>1, NextUnit DEF RemoteUnit
  <2> QED
    BY <1>1, <2>1, DagAssumption DEF RemoteUnit, TypeOK, poolVars, infoVars, wVars, hVars
<1>2. CASE PushInfo
  BY <1>2, DagAssumption DEF PushInfo, TypeOK, envVars, poolVars, wVars, hVars
<1>3. CASE TakeInfo
  BY <1>3 DEF TakeInfo, TypeOK, envVars, poolVars, hVars
<1>4. CASE SelectTips
  BY <1>4 DEF SelectTips, Acquire, TypeOK, envVars, infoVars, hVars
<1>5. CASE SpuriousWakeup
  BY <1>5 DEF SpuriousWakeup, TypeOK, envVars, poolVars, infoVars, hVars
<1>6. CASE Wake
  BY <1>6 DEF Wake, Acquire, TypeOK, envVars, infoVars, hVars
<1>7. CASE Pick
  <2>1. PICK i \in DOMAIN tips :
            /\ IF VerifyTip(tips[i])
               THEN Push(tips[i]) /\ wtips' = Append(wtips, tips[i])
               ELSE UNCHANGED <<table, wtips>>
            /\ Erase(i)
    BY <1>7 DEF Pick
  <2>2. i \in 1 .. Len(tips) /\ tips[i] \in Unit
    BY TipsFacts
  <2>3. tips' \in Seq(Unit)
    BY <2>1, <2>2, EraseFacts
  <2>4. table' \in Tables(Unit)
    BY <2>1, <2>2, PushFacts DEF TypeOK
  <2>5. wtips' \in Seq(Unit)
    <3>1. wtips \in Seq(Unit) /\ Append(wtips, tips[i]) \in Seq(Unit)
      BY <2>2, AppendProperties DEF TypeOK
    <3>2. wtips' = wtips \/ wtips' = Append(wtips, tips[i])
      BY <2>1
    <3> QED
      BY <3>1, <3>2
  <2> QED
    BY <1>7, <2>3, <2>4, <2>5 DEF Pick, TypeOK, envVars, infoVars, hVars
<1>8. CASE SelectDone
  BY <1>8 DEF SelectDone, TypeOK, envVars, hVars
<1>9. CASE PoW
  <2>1. made + 1 \in Unit
    BY <1>9, NextUnit DEF PoW
  <2>2. Range(wtips) \subseteq Unit /\ << >> \in Seq(Unit)
    BY RangeOfSeq, EmptySeq DEF TypeOK
  <2> QED
    BY <1>9, <2>1, <2>2 DEF PoW, TypeOK, poolVars, infoVars, hVars
<1>10. CASE PushTip
  <2>1. tips' \in Seq(Unit)
    BY <1>10, PushTipFacts DEF PushTip, TypeOK
  <2> QED
    BY <1>10, <2>1 DEF PushTip, TypeOK, envVars, infoVars, hVars
<1>11. CASE BroadcastUnit
  BY <1>11, UnitFacts DEF BroadcastUnit, TypeOK, poolVars, infoVars, hVars
<1>12. ASSUME NEW h \in Handlers, Receive(h) PROVE TypeOK'
  BY <1>12 DEF Receive, TypeOK, envVars, poolVars, infoVars, wVars
<1>13. ASSUME NEW h \in Handlers, Check(h) PROVE TypeOK'
  BY <1>13 DEF Check, Rejected, TypeOK, envVars, poolVars, infoVars, wVars
<1>14. ASSUME NEW h \in Handlers, Scan(h) PROVE TypeOK'
  BY <1>14 DEF Scan, Acquire, TypeOK, envVars, infoVars, wVars
<1>15. ASSUME NEW h \in Handlers, ScanHit(h) PROVE TypeOK'
  <2> DEFINE i == Min(Hits(h))
  <2>1. i \in 1 .. Len(tips) /\ tips[i] \in Unit /\ Len(tips) \in Nat
    BY <1>15, HitFacts, TipsFacts DEF ScanHit
  <2>2. Push(tips[i]) /\ Erase(i)
    BY <1>15 DEF ScanHit
  <2>3. table' \in Tables(Unit) /\ tips' \in Seq(Unit)
    BY <2>1, <2>2, PushFacts, EraseFacts
  <2>4. hpos' \in [Handlers -> Nat \ {0}]
    BY <1>15, <2>1 DEF ScanHit, TypeOK
  <2> QED
    BY <1>15, <2>3, <2>4 DEF ScanHit, TypeOK, envVars, infoVars, wVars
<1>16. ASSUME NEW h \in Handlers, ScanEnd(h) PROVE TypeOK'
  BY <1>16 DEF ScanEnd, TypeOK, envVars, infoVars, wVars
<1>17. ASSUME NEW h \in Handlers, PushRemoteTip(h) PROVE TypeOK'
  <2>1. hunit[h] \in Unit
    BY <1>17 DEF PushRemoteTip, TypeOK
  <2>2. tips' \in Seq(Unit)
    BY <1>17, <2>1, PushTipFacts DEF PushRemoteTip
  <2> QED
    BY <1>17, <2>2 DEF PushRemoteTip, Notified, TypeOK, envVars, infoVars
<1>18. ASSUME NEW h \in Handlers, GetAllRows(h) PROVE TypeOK'
  <2>1. Stored(table) \subseteq Unit
    BY RangeOfSeq DEF TypeOK, Tables, Stored
  <2> QED
    BY <1>18, <2>1, DagAssumption DEF GetAllRows, TypeOK, envVars, poolVars, infoVars, wVars
<1>19. ASSUME NEW h \in Handlers, GetAllTips(h) PROVE TypeOK'
  BY <1>19, TipsFacts DEF GetAllTips, TypeOK, poolVars, infoVars, wVars
<1> QED
  BY <1>1, <1>2, <1>3, <1>4, <1>5, <1>6, <1>7, <1>8, <1>9, <1>10, <1>11,
     <1>12, <1>13, <1>14, <1>15, <1>16, <1>17, <1>18, <1>19
  DEF Next, WorkerStep, HandlerStep

LEMMA LockStep ==
    ASSUME Basic, Next
    PROVE  LockOwner'
<1> USE DagAssumption DEF Basic, TypeOK, LockOwner
<1>1. CASE RemoteUnit \/ PushInfo \/ TakeInfo \/ SpuriousWakeup \/ PoW \/ PushTip \/ BroadcastUnit
  BY <1>1 DEF RemoteUnit, PushInfo, TakeInfo, SpuriousWakeup, PoW, PushTip, BroadcastUnit,
              poolVars, wVars, hVars
<1>2. CASE SelectTips \/ Wake
  BY <1>2 DEF SelectTips, Wake, Acquire, Unlocked, hVars
<1>3. CASE Pick
  BY <1>3 DEF Pick, hVars
<1>4. CASE SelectDone
  BY <1>4 DEF SelectDone, hVars
<1>5. ASSUME NEW h \in Handlers, Receive(h) \/ Check(h) \/ GetAllRows(h) \/ GetAllTips(h)
      PROVE  LockOwner'
  BY <1>5 DEF Receive, Check, GetAllRows, GetAllTips, poolVars, wVars
<1>6. ASSUME NEW h \in Handlers, Scan(h) PROVE LockOwner'
  BY <1>6 DEF Scan, Acquire, Unlocked, wVars
<1>7. ASSUME NEW h \in Handlers, ScanHit(h) PROVE LockOwner'
  BY <1>7 DEF ScanHit, wVars
<1>8. ASSUME NEW h \in Handlers, ScanEnd(h) PROVE LockOwner'
  BY <1>8 DEF ScanEnd, wVars
<1>9. ASSUME NEW h \in Handlers, PushRemoteTip(h) PROVE LockOwner'
  BY <1>9 DEF PushRemoteTip, Notified
<1> QED
  BY <1>1, <1>2, <1>3, <1>4, <1>5, <1>6, <1>7, <1>8, <1>9 DEF Next, WorkerStep, HandlerStep

(* A unit made here is one more.                                           *)
LEMMA MineGrows ==
    ASSUME Basic, PoW
    PROVE  /\ made' = made + 1 /\ remote' = remote
           /\ mine' \subseteq 1 .. made'
           /\ Cardinality(mine') = Cardinality(mine) + 1
<1>1. IsFiniteSet(mine) /\ made \in Nat /\ mine \subseteq 1 .. made
  BY MineFinite DEF Basic, NumbersAccounted
<1>2. made' = made + 1 /\ remote' = remote /\ mine' = mine \cup {made + 1}
  BY DEF PoW
<1>3. made + 1 \notin mine
  BY <1>1
<1>4. Cardinality(mine \cup {made + 1}) = Cardinality(mine) + 1
  BY <1>1, <1>3, FS_AddElement
<1> QED
  BY <1>1, <1>2, <1>4

LEMMA NumberStep ==
    ASSUME Basic, Next
    PROVE  NumbersAccounted'
<1>1. /\ made \in Nat /\ remote \in Nat /\ MaxEarlier \in Nat
      /\ Cardinality(mine) \in Nat
      /\ mine \subseteq 1 .. made
      /\ made <= 1 + MaxEarlier + remote + Cardinality(mine)
  BY MineFinite, DagAssumption DEF Basic, TypeOK, NumbersAccounted
<1>2. CASE RemoteUnit
  BY <1>1, <1>2 DEF RemoteUnit, NumbersAccounted
<1>3. CASE PoW
  BY <1>1, <1>3, MineGrows DEF NumbersAccounted
<1>4. CASE ~RemoteUnit /\ ~PoW
  <2>1. UNCHANGED <<made, remote, mine>>
    BY <1>4 DEF Next, WorkerStep, HandlerStep, PushInfo, TakeInfo, SelectTips,
       SpuriousWakeup, Wake, Pick, SelectDone, PushTip, BroadcastUnit, Receive, Check, Scan,
       ScanHit, ScanEnd, PushRemoteTip, GetAllRows, GetAllTips, envVars
  <2> QED
    BY <1>1, <2>1 DEF NumbersAccounted
<1> QED
  BY <1>2, <1>3, <1>4

LEMMA AccountStep ==
    ASSUME Basic, Next
    PROVE  InfosAccounted'
<1> USE DEF Basic, InfosAccounted, Working
<1>1. /\ submitted \in Nat /\ infos \in Nat /\ dropped \in Nat
      /\ Cardinality(mine) \in Nat
  BY MineFinite, DagAssumption DEF TypeOK
<1>2. CASE RemoteUnit \/ PushInfo
  BY <1>1, <1>2 DEF RemoteUnit, PushInfo, envVars, infoVars, wVars
<1>3. CASE TakeInfo
  BY <1>1, <1>3 DEF TakeInfo, envVars
<1>4. CASE SelectTips \/ SpuriousWakeup \/ Wake \/ Pick
  BY <1>1, <1>4 DEF SelectTips, SpuriousWakeup, Wake, Pick, envVars, infoVars
<1>5. CASE SelectDone
  <2>1. /\ wpc = "pick" /\ UNCHANGED <<submitted, infos, mine>>
        /\ \/ wpc' = "idle" /\ dropped' = dropped + 1
           \/ wpc' = "pow" /\ dropped' = dropped
    BY <1>5 DEF SelectDone, envVars
  <2> QED
    BY <1>1, <2>1
<1>6. CASE PoW
  BY <1>1, <1>6, MineGrows DEF PoW, infoVars
<1>7. CASE PushTip \/ BroadcastUnit
  BY <1>1, <1>7 DEF PushTip, BroadcastUnit, envVars, infoVars
<1>8. ASSUME NEW h \in Handlers, Receive(h) \/ GetAllRows(h) \/ HandlerStep(h)
      PROVE  InfosAccounted'
  <2>1. UNCHANGED <<submitted, infos, dropped, mine>>
    BY <1>8 DEF Receive, GetAllRows, HandlerStep, Check, Scan, ScanHit, ScanEnd,
                PushRemoteTip, GetAllTips, envVars, infoVars
  <2>2. wpc' = wpc \/ (wpc = "wait" /\ wpc' = "woken")
    <3>1. CASE PushRemoteTip(h)
      BY <3>1 DEF PushRemoteTip, Notified
    <3>2. CASE ~PushRemoteTip(h)
      BY <1>8, <3>2 DEF Receive, GetAllRows, HandlerStep, Check, Scan, ScanHit, ScanEnd,
                        GetAllTips, wVars
    <3> QED
      BY <3>1, <3>2
  <2> QED
    BY <1>1, <2>1, <2>2
<1> QED
  BY <1>2, <1>3, <1>4, <1>5, <1>6, <1>7, <1>8 DEF Next, WorkerStep

(* A bounded sequence is a sequence, and its elements are of the set.      *)
LEMMA SeqOfSeq ==
    ASSUME NEW S, NEW n \in Nat, NEW s \in SeqOf(S, n)
    PROVE  s \in Seq(S) /\ Range(s) \subseteq S
<1>1. PICK m \in 0 .. n : s \in [1 .. m -> S]
  BY DEF SeqOf
<1>2. m \in Nat
  BY <1>1
<1>3. s \in Seq(S)
  BY <1>1, <1>2, SeqDef
<1> QED
  BY <1>3, RangeOfSeq

(* A place or none: a unit that is not in the pool has no copy there.      *)
LEMMA NoCopies ==
    ASSUME NEW s, NEW u, u \notin Range(s)
    PROVE  Copies(s, u) = 0
<1>1. {i \in DOMAIN s : s[i] = u} = {}
  BY DEF Range
<1> QED
  BY <1>1, FS_EmptySet DEF Copies

(* The units, the rows and the tips a node starts with.                    *)
LEMMA InitFacts ==
    ASSUME Init
    PROVE  /\ made \in Unit /\ made \in Nat /\ made <= 1 + MaxEarlier
           /\ 1 .. made \subseteq Unit
           /\ approves \in [Unit \cup {Forged} -> SUBSET Unit]
           /\ \A u \in Unit : approves[u] \subseteq 1 .. u - 1
           /\ table \in Tables(Unit) /\ Stored(table) = loaded /\ loaded \subseteq 1 .. made
           /\ tips \in Seq(Unit) /\ Range(tips) \subseteq 1 .. made
           /\ \A u \in Unit : Copies(tips, u) <= 1 \/ Copies(tips, u) <= Cardinality(Handlers)
<1>1. made \in 1 .. 1 + MaxEarlier /\ MaxEarlier \in Nat /\ MaxFound \in Nat
  BY DagAssumption DEF Init
<1>2. made \in Nat /\ made <= 1 + MaxEarlier /\ 1 \in 1 .. made
  BY <1>1
<1>3. made \in Unit /\ 1 .. made \subseteq Unit
  BY <1>1, DagAssumption DEF Unit
<1>4. PICK f \in EarlierUnits(made) :
          approves = [u \in Unit \cup {Forged} |-> IF u \in 1 .. made THEN f[u] ELSE {}]
  BY DEF Init
<1>5. /\ f \in [1 .. made -> SUBSET (1 .. made)] /\ f[1] = {}
      /\ \A u \in 2 .. made : f[u] \subseteq 1 .. u - 1
  BY DEF EarlierUnits, Genesis
<1>6. approves \in [Unit \cup {Forged} -> SUBSET Unit]
  <2>1. \A u \in 1 .. made : f[u] \in SUBSET Unit
    BY <1>3, <1>5
  <2> QED
    BY <1>4, <2>1
<1>7. ASSUME NEW u \in Unit PROVE approves[u] \subseteq 1 .. u - 1
  <2>1. CASE u = 1
    BY <1>2, <1>4, <1>5, <2>1
  <2>2. CASE u \in 2 .. made
    BY <1>2, <1>4, <1>5, <2>2
  <2>3. CASE u \notin 1 .. made
    BY <1>4, <2>3
  <2> QED
    BY <1>2, <2>1, <2>2, <2>3
<1>8. PICK rows \in EarlierRows(made), found \in FoundTips(made) :
          /\ table = LoadedInFull(Unit, approves, selfWeight, rows)
          /\ loaded = Range(rows)
          /\ tips = IF NothingHere(rows, found) THEN <<Genesis>> ELSE found
  BY DEF Init
<1>9. /\ rows \in Seq(1 .. made) /\ Range(rows) \subseteq 1 .. made
      /\ found \in Seq(1 .. made) /\ Range(found) \subseteq 1 .. made
  BY <1>1, <1>2, SeqOfSeq DEF EarlierRows, FoundTips
<1>10. rows \in Seq(Unit) /\ found \in Seq(Unit)
  BY <1>3, <1>9, SeqMonotonic
<1>11. table \in Tables(Unit) /\ Stored(table) = loaded
  <2>1. selfWeight \in Counts(Unit)
    BY UnitFacts DEF Counts
  <2> QED
    BY <1>8, <1>10, <2>1, LoadedInFullStores
<1>12. ASSUME NEW u \in Unit
       PROVE  Copies(found, u) <= 1 \/ Copies(found, u) <= Cardinality(Handlers)
  <2>1. CASE u \in 1 .. made
    BY <2>1 DEF FoundTips
  <2>2. CASE u \notin 1 .. made
    BY <1>9, <2>2, NoCopies
  <2> QED
    BY <2>1, <2>2
<1>13. ASSUME NEW u \in Unit PROVE Copies(<<Genesis>>, u) <= 1
  <2> DEFINE P == {i \in DOMAIN <<Genesis>> : <<Genesis>>[i] = u}
  <2>1. P \in SUBSET {1} /\ IsFiniteSet({1}) /\ Cardinality({1}) = 1
    BY FS_Singleton
  <2>2. Cardinality(P) <= 1
    <3> HIDE DEF P
    <3> QED
      BY <2>1, FS_Subset
  <2> QED
    BY <2>2 DEF Copies
<1>14. <<Genesis>> \in Seq(Unit) /\ Range(<<Genesis>>) \subseteq 1 .. made
  BY <1>2, UnitFacts DEF Range, Genesis
<1>15. /\ tips \in Seq(Unit) /\ Range(tips) \subseteq 1 .. made
       /\ \A u \in Unit : Copies(tips, u) <= 1 \/ Copies(tips, u) <= Cardinality(Handlers)
  BY <1>8, <1>9, <1>10, <1>12, <1>13, <1>14
<1> QED
  BY <1>2, <1>3, <1>6, <1>7, <1>8, <1>9, <1>11, <1>15

LEMMA BasicInit == Init => Basic
<1> SUFFICES ASSUME Init PROVE Basic
  OBVIOUS
<1>1. TypeOK
  <2>1. /\ hpc \in [Handlers -> {"idle", "check", "verified", "scan", "push", "tips"}]
        /\ hunit \in [Handlers -> Unit \cup {Forged}]
        /\ \A h \in Handlers : hpc[h] \in {"verified", "scan", "push"} => hunit[h] # Forged
    BY DEF Init
  <2>2. hpos \in [Handlers -> Nat \ {0}] /\ hseen \in [Handlers -> SUBSET Unit]
    BY DEF Init
  <2>3. /\ approves \in [Unit \cup {Forged} -> SUBSET Unit]
        /\ table \in Tables(Unit) /\ tips \in Seq(Unit)
        /\ made \in Unit /\ loaded \subseteq Unit
    BY InitFacts
  <2>4. wtips \in Seq(Unit) /\ wunit \in Unit
    BY UnitFacts, EmptySeq DEF Init
  <2>5. /\ remote \in 0 .. MaxRemote
        /\ submitted \in 0 .. MaxInfos /\ infos \in Nat /\ dropped \in Nat
        /\ syncs \in 0 .. MaxSyncs
    BY DagAssumption DEF Init
  <2>6. mine \subseteq Unit /\ wire \subseteq Unit /\ known \subseteq Unit
    BY InitFacts DEF Init
  <2>7. /\ lock \in {NoOne, Worker} \cup Handlers
        /\ wpc \in {"idle", "select", "wait", "woken", "pick", "pow", "push", "broadcast"}
    BY DEF Init
  <2> QED
    BY <2>1, <2>2, <2>3, <2>4, <2>5, <2>6, <2>7 DEF TypeOK
<1>2. LockOwner
  BY DagAssumption DEF Init, LockOwner
<1>3. mine = {} /\ Cardinality(mine) = 0
  BY FS_EmptySet DEF Init
<1>4. InfosAccounted
  BY <1>3 DEF Init, InfosAccounted, Working
<1>5. NumbersAccounted
  <2>1. made \in Nat /\ made <= 1 + MaxEarlier /\ remote = 0 /\ MaxEarlier \in Nat
    BY InitFacts, DagAssumption DEF Init
  <2> QED
    BY <1>3, <2>1 DEF NumbersAccounted
<1> QED
  BY <1>1, <1>2, <1>4, <1>5 DEF Basic

LEMMA BasicNext == Basic /\ [Next]_vars => Basic'
<1> SUFFICES ASSUME Basic, [Next]_vars PROVE Basic'
  OBVIOUS
<1>1. CASE Next
  BY <1>1, TypeStep, LockStep, NumberStep, AccountStep DEF Basic
<1>2. CASE UNCHANGED vars
  BY <1>2 DEF Basic, TypeOK, LockOwner, InfosAccounted, NumbersAccounted, Working,
              vars, envVars, poolVars, infoVars, wVars, hVars
<1> QED
  BY <1>1, <1>2

LEMMA BasicInvariant == Spec => []Basic
BY BasicInit, BasicNext, PTL DEF Spec

(* Every variable of the node keeps its type; in particular the tips of    *)
(* the pool are units whose signature and proof of work were verified      *)
(* (dag.cpp:98-150), and the account of the infos leaves a number for      *)
(* every new unit.                                                         *)
THEOREM TypeCorrect == Spec => []TypeOK
BY BasicInvariant, PTL DEF Basic

(* m_tips_pool_lock is held by the one thread that is in a section of      *)
(* several steps, and by no other (dag.cpp:132-145, 185-206).              *)
THEOREM PoolExclusive == Spec => []LockOwner
BY BasicInvariant, PTL DEF Basic

(* No info is lost outside creatUnit's own "false" and none becomes two    *)
(* units, whatever the schedule (dag.cpp:61-93, 228-233).                  *)
THEOREM InfosNeverLost == Spec => []InfosAccounted
BY BasicInvariant, PTL DEF Basic

----------------------------------------------------------------------------
(* What a step does to the pool and to the database, as sets.              *)

LEMMA StoredFacts ==
    ASSUME TypeOK
    PROVE  Stored(table) \subseteq Unit /\ Range(wtips) \subseteq Unit
BY RangeOfSeq DEF TypeOK, Tables, Stored

(* A tip that the worker takes out of the pool is stored afterwards, and   *)
(* selected if it was not stored before.                                   *)
LEMMA PickFacts ==
    ASSUME Basic, Pick
    PROVE  \E u \in Range(tips) :
              /\ Range(tips') \subseteq Range(tips)
              /\ Range(tips) \subseteq Range(tips') \cup {u}
              /\ Stored(table)' = Stored(table) \cup {u}
              /\ table'.rows = IF u \in Stored(table) THEN table.rows ELSE Append(table.rows, u)
              /\ Range(wtips) \subseteq Range(wtips')
              /\ Range(wtips') \subseteq Range(wtips) \cup {u}
              /\ u \in Stored(table) \cup Range(wtips')
<1>1. TypeOK
  BY DEF Basic
<1>2. PICK i \in 1 .. Len(tips) :
          /\ IF VerifyTip(tips[i])
             THEN Push(tips[i]) /\ wtips' = Append(wtips, tips[i])
             ELSE UNCHANGED <<table, wtips>>
          /\ Erase(i)
  BY <1>1, TipsFacts DEF Pick
<1> DEFINE u == tips[i]
<1>3. u \in Unit /\ u \in Range(tips)
  BY <1>1, TipsFacts
<1>4. Range(tips') \subseteq Range(tips) /\ Range(tips) \subseteq Range(tips') \cup {u}
  BY <1>1, <1>2, EraseFacts
<1>5. CASE VerifyTip(u)
  <2>1. Push(u) /\ wtips' = Append(wtips, u)
    BY <1>2, <1>5
  <2>2. Range(wtips') = Range(wtips) \cup {u}
    BY <1>1, <1>3, <2>1, AppendRange DEF TypeOK
  <2>3. /\ table'.rows = IF u \in Stored(table) THEN table.rows ELSE Append(table.rows, u)
        /\ Stored(table)' = Stored(table) \cup {u}
    BY <1>1, <1>3, <2>1, PushFacts
  <2> QED
    BY <1>3, <1>4, <2>2, <2>3
<1>6. CASE ~VerifyTip(u)
  <2>1. u \in Stored(table) /\ UNCHANGED <<table, wtips>>
    BY <1>2, <1>6 DEF VerifyTip
  <2>2. Stored(table)' = Stored(table)
    BY <2>1 DEF Stored
  <2> QED
    BY <1>3, <1>4, <2>1, <2>2
<1> QED
  BY <1>5, <1>6

(* A tip that a scan takes out of the pool is stored afterwards, and the   *)
(* unit at hand approves it.                                               *)
LEMMA ScanHitFacts ==
    ASSUME Basic, NEW h \in Handlers, ScanHit(h)
    PROVE  \E u \in Range(tips) :
              /\ Range(tips') \subseteq Range(tips)
              /\ Range(tips) \subseteq Range(tips') \cup {u}
              /\ Stored(table)' = Stored(table) \cup {u}
              /\ table'.rows = IF u \in Stored(table) THEN table.rows ELSE Append(table.rows, u)
              /\ u \in approves[hunit[h]]
<1>1. TypeOK
  BY DEF Basic
<1> DEFINE i == Min(Hits(h))
<1>2. i \in 1 .. Len(tips) /\ tips[i] \in approves[hunit[h]]
  BY <1>1, HitFacts DEF ScanHit
<1>3. tips[i] \in Unit /\ tips[i] \in Range(tips)
  BY <1>1, <1>2, TipsFacts
<1>4. Push(tips[i]) /\ Erase(i)
  BY DEF ScanHit
<1>5. /\ Range(tips') \subseteq Range(tips)
      /\ Range(tips) \subseteq Range(tips') \cup {tips[i]}
  BY <1>1, <1>2, <1>4, EraseFacts
<1>6. /\ table'.rows = IF tips[i] \in Stored(table) THEN table.rows
                       ELSE Append(table.rows, tips[i])
      /\ Stored(table)' = Stored(table) \cup {tips[i]}
  BY <1>1, <1>3, <1>4, PushFacts
<1> QED
  BY <1>2, <1>3, <1>5, <1>6

LEMMA WorkerPushes ==
    ASSUME Basic, PushTip
    PROVE  /\ wpc = "push" /\ wpc' = "broadcast"
           /\ Range(tips') = Range(tips) \cup {wunit}
           /\ UNCHANGED <<wtips, wunit, table, lock, envVars, infoVars, hVars>>
BY PushTipFacts DEF PushTip, Basic, TypeOK

LEMMA HandlerPushes ==
    ASSUME Basic, NEW h \in Handlers, PushRemoteTip(h)
    PROVE  /\ hunit[h] \in Unit
           /\ Range(tips') = Range(tips) \cup {hunit[h]}
<1>1. hunit[h] \in Unit
  BY DEF PushRemoteTip, Basic, TypeOK
<1> QED
  BY <1>1, PushTipFacts DEF PushRemoteTip, Basic

(* The other steps leave the pool and the database alone.                  *)
Still == UNCHANGED <<table, tips>>

LEMMA StillFacts ==
    ASSUME Still
    PROVE  Stored(table)' = Stored(table) /\ Held' = Held /\ Range(tips') = Range(tips)
BY DEF Still, Stored, Held

LEMMA StillSteps ==
    ASSUME Next, ~Pick, ~PushTip,
           \A h \in Handlers : ~ScanHit(h) /\ ~PushRemoteTip(h)
    PROVE  Still
BY DEF Next, WorkerStep, HandlerStep, RemoteUnit, PushInfo, TakeInfo, SelectTips,
       SpuriousWakeup, Wake, SelectDone, PoW, BroadcastUnit, Receive, Check, Scan,
       ScanEnd, GetAllRows, GetAllTips, poolVars, Still

(* Every unit held before a step is held after it.                         *)
LEMMA HeldStep ==
    ASSUME Basic, Next
    PROVE  Stored(table) \subseteq Stored(table)' /\ Held \subseteq Held'
<1>1. CASE Pick
  BY <1>1, PickFacts DEF Held
<1>2. CASE PushTip
  BY <1>2, WorkerPushes DEF Held, Stored
<1>3. ASSUME NEW h \in Handlers, ScanHit(h)
      PROVE  Stored(table) \subseteq Stored(table)' /\ Held \subseteq Held'
  BY <1>3, ScanHitFacts DEF Held
<1>4. ASSUME NEW h \in Handlers, PushRemoteTip(h)
      PROVE  Stored(table) \subseteq Stored(table)' /\ Held \subseteq Held'
  BY <1>4, HandlerPushes DEF PushRemoteTip, Held, Stored
<1> QED
  BY <1>1, <1>2, <1>3, <1>4, StillSteps, StillFacts

(* No interleaving of selections, scans and duplicates makes the node      *)
(* forget a unit it held (dag.cpp:132-145, 190-205).                       *)
THEOREM NeverForgets == Spec => NothingForgotten
<1>1. Basic /\ [Next]_vars => [Held \subseteq Held']_vars
  BY HeldStep
<1> QED
  BY <1>1, BasicInvariant, PTL DEF Spec, NothingForgotten

----------------------------------------------------------------------------
(* Causality.                                                              *)

(* The hashes a unit holds never change, nor does the past.                *)
LEMMA ApprovesStep ==
    ASSUME Basic, Next
    PROVE  /\ made <= made' /\ mine \subseteq mine' /\ loaded' = loaded
           /\ \A u \in 1 .. made : approves'[u] = approves[u]
<1>1. made \in Nat /\ made \in Unit
  BY UnitFacts DEF Basic, TypeOK
<1>2. CASE RemoteUnit
  BY <1>1, <1>2 DEF RemoteUnit, Basic, TypeOK
<1>3. CASE PoW
  BY <1>1, <1>3 DEF PoW, Basic, TypeOK
<1>4. CASE ~RemoteUnit /\ ~PoW
  <2>1. UNCHANGED <<approves, made, mine, loaded>>
    BY <1>4 DEF Next, WorkerStep, HandlerStep, PushInfo, TakeInfo, SelectTips,
       SpuriousWakeup, Wake, Pick, SelectDone, PushTip, BroadcastUnit, Receive, Check, Scan,
       ScanHit, ScanEnd, PushRemoteTip, GetAllRows, GetAllTips, envVars
  <2> QED
    BY <1>1, <2>1
<1> QED
  BY <1>2, <1>3, <1>4

(* What is held after a step was held before, or was about to be.          *)
LEMMA HeldSource ==
    ASSUME Basic, Next
    PROVE  Held' \subseteq Held \cup Carried
<1>1. CASE Pick
  BY <1>1, PickFacts DEF Held
<1>2. CASE PushTip
  BY <1>2, WorkerPushes DEF Held, Stored, Carried
<1>3. ASSUME NEW h \in Handlers, ScanHit(h)
      PROVE  Held' \subseteq Held \cup Carried
  BY <1>3, ScanHitFacts DEF Held
<1>4. ASSUME NEW h \in Handlers, PushRemoteTip(h)
      PROVE  Held' \subseteq Held \cup Carried
  <2>1. hunit[h] \in Carried
    BY <1>4 DEF PushRemoteTip, Carried
  <2>2. Stored(table)' = Stored(table)
    BY <1>4 DEF PushRemoteTip, Stored
  <2> QED
    BY <1>4, <2>1, <2>2, HandlerPushes DEF Held
<1> QED
  BY <1>1, <1>2, <1>3, <1>4, StillSteps, StillFacts

(* Everything the node holds or carries has been made.                     *)
LEMMA HoldingMade ==
    ASSUME Basic, Causal
    PROVE  Held \cup Carried \subseteq 1 .. made
<1>1. wunit \in Unit /\ made \in Nat
  BY UnitFacts DEF Basic, TypeOK
<1>2. \A h \in Handlers : hpc[h] \in {"scan", "push"} => hunit[h] \in Unit
  BY DEF Basic, TypeOK
<1>3. ASSUME NEW u \in Carried PROVE u \in 1 .. made
  <2>1. CASE u = wunit
    BY <1>1, <2>1, UnitFacts DEF Causal
  <2>2. CASE u # wunit
    <3>1. PICK h \in Handlers : hpc[h] \in {"scan", "push"} /\ u = hunit[h]
      BY <2>2 DEF Carried
    <3>2. u \in Unit /\ u <= made
      BY <1>2, <3>1 DEF Causal
    <3> QED
      BY <1>1, <3>2, UnitFacts
  <2> QED
    BY <2>1, <2>2
<1> QED
  BY <1>3 DEF Causal

LEMMA CausalStep ==
    ASSUME Basic, Causal, Next
    PROVE  Causal'
<1>1. /\ made \in Nat /\ made' \in Nat /\ made <= made'
      /\ Unit \subseteq Nat \ {0}
      /\ made \in Unit
  BY ApprovesStep, TypeStep, UnitFacts DEF Basic, TypeOK
<1>2. Held' \subseteq 1 .. made'
  BY <1>1, HeldSource, HoldingMade
<1>3. (wire \cup known)' \subseteq 1 .. made'
  <2>1. CASE RemoteUnit
    BY <1>1, <2>1 DEF RemoteUnit, Causal
  <2>2. CASE PoW
    BY <1>1, <2>2 DEF PoW, Causal
  <2>3. CASE BroadcastUnit
    <3>1. wunit \in 1 .. made
      BY <1>1 DEF Basic, TypeOK, Causal
    <3> QED
      BY <1>1, <2>3, <3>1 DEF BroadcastUnit, Causal
  <2>4. ASSUME NEW h \in Handlers, GetAllTips(h)
        PROVE  (wire \cup known)' \subseteq 1 .. made'
    BY <1>1, <2>4 DEF GetAllTips, Causal, Held
  <2>5. CASE ~RemoteUnit /\ ~PoW /\ ~BroadcastUnit /\ \A h \in Handlers : ~GetAllTips(h)
    <3>1. UNCHANGED <<wire, known>>
      BY <2>5 DEF Next, WorkerStep, HandlerStep, PushInfo, TakeInfo, SelectTips,
         SpuriousWakeup, Wake, Pick, SelectDone, PushTip, Receive, Check, Scan,
         ScanHit, ScanEnd, PushRemoteTip, GetAllRows, envVars
    <3> QED
      BY <1>1, <3>1 DEF Causal
  <2> QED
    BY <2>1, <2>2, <2>3, <2>4, <2>5
<1>4. wunit' <= made'
  <2>1. wunit \in Nat
    BY <1>1 DEF Basic, TypeOK
  <2>2. CASE PoW
    BY <1>1, <2>2 DEF PoW
  <2>3. CASE BroadcastUnit
    BY <1>1, <2>3 DEF BroadcastUnit, Genesis
  <2>4. CASE ~PoW /\ ~BroadcastUnit
    <3>1. UNCHANGED wunit
      BY <2>4 DEF Next, WorkerStep, HandlerStep, RemoteUnit, PushInfo, TakeInfo, SelectTips,
         SpuriousWakeup, Wake, Pick, SelectDone, PushTip, Receive, Check, Scan,
         ScanHit, ScanEnd, PushRemoteTip, GetAllRows, GetAllTips, wVars
    <3> QED
      BY <1>1, <2>1, <3>1 DEF Causal
  <2> QED
    BY <2>2, <2>3, <2>4
<1>5. \A g \in Handlers : hunit'[g] <= made' /\ hseen'[g] \subseteq 1 .. made'
  <2>1. Unit \cup {Forged} \subseteq Nat
    BY <1>1 DEF Forged
  <2>2. /\ hunit \in [Handlers -> Unit \cup {Forged}]
        /\ hseen \in [Handlers -> SUBSET Unit]
    BY DEF Basic, TypeOK
  <2>3. \A g \in Handlers : hunit[g] <= made' /\ hseen[g] \subseteq 1 .. made'
    <3>1. ASSUME NEW g \in Handlers PROVE hunit[g] <= made'
      <4>1. hunit[g] \in Nat /\ hunit[g] <= made
        BY <2>1, <2>2 DEF Causal
      <4> QED
        BY <1>1, <4>1
    <3>2. ASSUME NEW g \in Handlers PROVE hseen[g] \subseteq 1 .. made'
      BY <1>1 DEF Causal
    <3> QED
      BY <3>1, <3>2
  <2>4. Forged <= made'
    BY <1>1 DEF Forged
  <2>5. ASSUME NEW h \in Handlers, Receive(h)
        PROVE  \A g \in Handlers : hunit'[g] <= made' /\ hseen'[g] \subseteq 1 .. made'
    <3>1. PICK u \in wire \cup {Forged} : hunit' = [hunit EXCEPT ![h] = u] /\ UNCHANGED hseen
      BY <2>5 DEF Receive
    <3>2. u <= made'
      BY <1>1, <2>4 DEF Causal
    <3> QED
      BY <2>2, <2>3, <3>1, <3>2
  <2>6. ASSUME NEW h \in Handlers, Check(h) \/ PushRemoteTip(h)
        PROVE  \A g \in Handlers : hunit'[g] <= made' /\ hseen'[g] \subseteq 1 .. made'
    <3>1. hunit' \in {hunit, [hunit EXCEPT ![h] = Forged]} /\ UNCHANGED hseen
      BY <2>6 DEF Check, PushRemoteTip
    <3> QED
      BY <2>2, <2>3, <2>4, <3>1
  <2>7. ASSUME NEW h \in Handlers, GetAllRows(h) \/ GetAllTips(h)
        PROVE  \A g \in Handlers : hunit'[g] <= made' /\ hseen'[g] \subseteq 1 .. made'
    <3>1. /\ hseen' \in {[hseen EXCEPT ![h] = Stored(table)], [hseen EXCEPT ![h] = {}]}
          /\ UNCHANGED hunit
      BY <2>7 DEF GetAllRows, GetAllTips
    <3>2. Stored(table) \subseteq 1 .. made'
      BY <1>1 DEF Causal, Held
    <3> QED
      BY <2>2, <2>3, <3>1, <3>2
  <2>8. CASE \A h \in Handlers : /\ ~Receive(h) /\ ~Check(h) /\ ~PushRemoteTip(h)
                                 /\ ~GetAllRows(h) /\ ~GetAllTips(h)
    <3>1. UNCHANGED <<hunit, hseen>>
      BY <2>8 DEF Next, WorkerStep, HandlerStep, RemoteUnit, PushInfo, TakeInfo, SelectTips,
         SpuriousWakeup, Wake, Pick, SelectDone, PoW, PushTip, BroadcastUnit, Scan,
         ScanHit, ScanEnd, hVars
    <3> QED
      BY <2>3, <3>1
  <2> QED
    BY <2>5, <2>6, <2>7, <2>8
<1>6. \A u \in Unit : approves'[u] \subseteq 1 .. u - 1
  <2>1. CASE RemoteUnit
    <3>1. PICK S \in SUBSET known : approves' = [approves EXCEPT ![made + 1] = S]
      BY <2>1 DEF RemoteUnit
    <3>2. S \subseteq 1 .. (made + 1) - 1
      BY <1>1 DEF Causal
    <3>3. approves \in [Unit \cup {Forged} -> SUBSET Unit]
      BY DEF Basic, TypeOK
    <3> QED
      BY <3>1, <3>2, <3>3 DEF Causal
  <2>2. CASE PoW
    <3>1. Range(wtips) \subseteq 1 .. made
      BY DEF Causal, Held
    <3> QED
      BY <1>1, <2>2, <3>1 DEF PoW, Basic, TypeOK, Causal
  <2>3. CASE ~RemoteUnit /\ ~PoW
    <3>1. UNCHANGED approves
      BY <2>3 DEF Next, WorkerStep, HandlerStep, PushInfo, TakeInfo, SelectTips,
         SpuriousWakeup, Wake, Pick, SelectDone, PushTip, BroadcastUnit, Receive, Check, Scan,
         ScanHit, ScanEnd, PushRemoteTip, GetAllRows, GetAllTips, envVars
    <3> QED
      BY <3>1 DEF Causal
  <2> QED
    BY <2>1, <2>2, <2>3
<1>7. Range(wtips') \subseteq Stored(table)'
  <2>1. CASE Pick
    BY <2>1, PickFacts DEF Causal
  <2>2. CASE PoW
    <3>1. Range(wtips') = {}
      BY <2>2 DEF PoW, Range
    <3> QED
      BY <3>1
  <2>3. CASE ~Pick /\ ~PoW
    <3>1. UNCHANGED wtips
      BY <2>3 DEF Next, WorkerStep, HandlerStep, RemoteUnit, PushInfo, TakeInfo, SelectTips,
         SpuriousWakeup, Wake, SelectDone, PushTip, BroadcastUnit, Receive, Check, Scan,
         ScanHit, ScanEnd, PushRemoteTip, GetAllRows, GetAllTips, wVars
    <3> QED
      BY <3>1, HeldStep DEF Causal
  <2> QED
    BY <2>1, <2>2, <2>3
<1> QED
  BY <1>2, <1>3, <1>4, <1>5, <1>6, <1>7 DEF Causal

(* The table the node started with stays in it, and nothing from it is     *)
(* taken in hand.                                                          *)
LEMMA NewStep ==
    ASSUME Basic, Causal, NewAtHand, Next
    PROVE  NewAtHand'
<1>1. loaded' = loaded
  BY ApprovesStep
<1>2. loaded \subseteq Stored(table)'
  BY HeldStep DEF NewAtHand
<1>3. wpc' = "push" => wunit' \notin loaded
  <2>1. CASE PoW
    <3>1. wunit' = made + 1 /\ made \in Nat
      BY <2>1, UnitFacts DEF PoW, Basic, TypeOK
    <3>2. loaded \subseteq 1 .. made
      BY DEF NewAtHand, Causal, Held
    <3> QED
      BY <3>1, <3>2
  <2>2. CASE ~PoW
    <3>1. wpc' = "push" => wpc = "push" /\ wunit' = wunit
      BY <2>2 DEF Next, WorkerStep, HandlerStep, RemoteUnit, PushInfo, TakeInfo, SelectTips,
         SpuriousWakeup, Wake, Pick, SelectDone, PushTip, BroadcastUnit, Receive, Check, Scan,
         ScanHit, ScanEnd, PushRemoteTip, Notified, GetAllRows, GetAllTips, wVars
    <3> QED
      BY <3>1 DEF NewAtHand
  <2> QED
    BY <2>1, <2>2
<1>4. ASSUME NEW g \in Handlers, hpc'[g] \in {"check", "verified", "scan", "push"}
      PROVE  hunit'[g] \notin loaded
  <2>1. ASSUME NEW h \in Handlers, Receive(h) PROVE hunit'[g] \notin loaded
    <3>1. PICK u \in wire \cup {Forged} : ~IsStored(u) /\ hunit' = [hunit EXCEPT ![h] = u]
      BY <2>1 DEF Receive
    <3>2. u \notin loaded
      BY <3>1 DEF IsStored, NewAtHand
    <3>3. hpc' = [hpc EXCEPT ![h] = "check"]
      BY <2>1 DEF Receive
    <3> QED
      BY <1>4, <3>1, <3>2, <3>3 DEF NewAtHand, Basic, TypeOK
  <2>2. CASE ~\E h \in Handlers : Receive(h)
    <3>1. hpc[g] \in {"check", "verified", "scan", "push"} /\ hunit'[g] = hunit[g]
      <4>1. CASE \E h \in Handlers : Check(h)
        BY <1>4, <4>1 DEF Check, Basic, TypeOK
      <4>2. CASE \E h \in Handlers : PushRemoteTip(h)
        BY <1>4, <4>2 DEF PushRemoteTip, Basic, TypeOK
      <4>3. CASE \E h \in Handlers : Scan(h) \/ ScanHit(h) \/ ScanEnd(h) \/ GetAllRows(h) \/ GetAllTips(h)
        BY <1>4, <4>3 DEF Scan, ScanHit, ScanEnd, GetAllRows, GetAllTips, Basic, TypeOK
      <4>4. CASE WorkerStep \/ RemoteUnit \/ PushInfo \/ SpuriousWakeup
        BY <1>4, <4>4 DEF WorkerStep, RemoteUnit, PushInfo, TakeInfo, SelectTips,
           SpuriousWakeup, Wake, Pick, SelectDone, PoW, PushTip, BroadcastUnit, hVars
      <4> QED
        BY <2>2, <4>1, <4>2, <4>3, <4>4 DEF Next, HandlerStep
    <3> QED
      BY <3>1 DEF NewAtHand
  <2> QED
    BY <2>1, <2>2
<1> QED
  BY <1>1, <1>2, <1>3, <1>4 DEF NewAtHand

(* What the node carries is new to it.                                     *)
LEMMA CarriedIsFresh == ASSUME NewAtHand PROVE Carried \subseteq Fresh
BY DEF NewAtHand, Carried, Fresh

----------------------------------------------------------------------------
(* Approval.                                                               *)

(* What the node holds or carries it goes on holding or carrying.          *)
LEMMA HoldingStep ==
    ASSUME Basic, Next
    PROVE  Held \cup Carried \subseteq (Held \cup Carried)' /\ Fresh \subseteq Fresh'
<1>1. Held \subseteq Held'
  BY HeldStep
<1>2. ASSUME wpc = "push" PROVE wunit \in (Held \cup Carried)'
  <2>1. CASE PushTip
    BY <2>1, WorkerPushes DEF Held
  <2>2. CASE ~PushTip
    <3>1. wpc' = "push" /\ wunit' = wunit
      BY <1>2, <2>2 DEF Next, WorkerStep, HandlerStep, RemoteUnit, PushInfo, TakeInfo, SelectTips,
         SpuriousWakeup, Wake, Pick, SelectDone, PoW, BroadcastUnit, Receive, Check, Scan,
         ScanHit, ScanEnd, PushRemoteTip, Notified, GetAllRows, GetAllTips, wVars
    <3> QED
      BY <3>1 DEF Carried
  <2> QED
    BY <2>1, <2>2
<1>3. ASSUME NEW h \in Handlers, hpc[h] \in {"scan", "push"}
      PROVE  hunit[h] \in (Held \cup Carried)'
  <2>1. CASE PushRemoteTip(h)
    BY <2>1, HandlerPushes DEF Held
  <2>2. CASE ~PushRemoteTip(h)
    <3>1. hpc'[h] \in {"scan", "push"} /\ hunit'[h] = hunit[h]
      BY <1>3, <2>2 DEF Next, WorkerStep, HandlerStep, RemoteUnit, PushInfo, TakeInfo, SelectTips,
         SpuriousWakeup, Wake, Pick, SelectDone, PoW, PushTip, BroadcastUnit, Receive, Check, Scan,
         ScanHit, ScanEnd, PushRemoteTip, GetAllRows, GetAllTips, hVars, Basic, TypeOK
    <3> QED
      BY <3>1 DEF Carried
  <2> QED
    BY <2>1, <2>2
<1>4. Held \cup Carried \subseteq (Held \cup Carried)'
  BY <1>1, <1>2, <1>3 DEF Carried
<1>5. loaded' = loaded
  BY ApprovesStep
<1> QED
  BY <1>4, <1>5 DEF Fresh

(* Selected tips stay selected until the unit that approves them is made.  *)
Selected == IF wpc \in {"pick", "pow"} THEN Range(wtips) ELSE {}

LEMMA SelectedStep ==
    ASSUME Basic, Next, NEW r \in Selected
    PROVE  r \in Selected' \/ \E u \in Carried' : r \in approves'[u]
<1>1. CASE Pick
  BY <1>1, PickFacts DEF Selected, Pick
<1>2. CASE SelectDone
  <2>1. wtips # << >>
    <3>1. ASSUME wtips = << >> PROVE FALSE
      BY <3>1 DEF Selected, Range
    <3> QED
      BY <3>1
  <2> QED
    BY <1>2, <2>1 DEF Selected, SelectDone, NothingSelected
<1>3. CASE PoW
  <2>1. made + 1 \in Unit
    BY <1>3, NextUnit DEF PoW, Basic
  <2>2. approves'[made + 1] = Range(wtips) /\ wpc' = "push" /\ wunit' = made + 1
    BY <1>3, <2>1 DEF PoW, Basic, TypeOK
  <2> QED
    BY <2>2 DEF Selected, Carried
<1>4. CASE ~Pick /\ ~SelectDone /\ ~PoW
  <2>1. wpc' = wpc /\ wtips' = wtips
    BY <1>4 DEF Selected, Next, WorkerStep, HandlerStep, RemoteUnit, PushInfo, TakeInfo, SelectTips,
       SpuriousWakeup, Wake, PushTip, BroadcastUnit, Receive, Check, Scan,
       ScanHit, ScanEnd, PushRemoteTip, Notified, GetAllRows, GetAllTips, wVars
  <2> QED
    BY <2>1 DEF Selected
<1> QED
  BY <1>1, <1>2, <1>3, <1>4

(* A unit enters the database because it is selected or approved.          *)
LEMMA StoredSource ==
    ASSUME Basic, Next, NEW r \in Stored(table)', r \notin Stored(table)
    PROVE  r \in Selected' \/ \E u \in Carried : r \in approves[u]
<1>1. CASE Pick
  <2>1. r \in Range(wtips') /\ wpc' = "pick"
    BY <1>1, PickFacts DEF Pick
  <2> QED
    BY <2>1 DEF Selected
<1>2. CASE PushTip
  BY <1>2, WorkerPushes DEF Stored
<1>3. ASSUME NEW h \in Handlers, ScanHit(h)
      PROVE  \E u \in Carried : r \in approves[u]
  <2>1. r \in approves[hunit[h]] /\ hpc[h] = "scan"
    BY <1>3, ScanHitFacts DEF ScanHit
  <2> QED
    BY <2>1 DEF Carried
<1>4. ASSUME NEW h \in Handlers, PushRemoteTip(h) PROVE FALSE
  BY <1>4 DEF PushRemoteTip, Stored
<1> QED
  BY <1>1, <1>2, <1>3, <1>4, StillSteps, StillFacts

(* ApprovedHere in terms of Selected.                                      *)
LEMMA ApprovedHereMeans ==
    ApprovedHere <=> \A r \in Stored(table) \ loaded :
                         r \in Selected \/ \E u \in Fresh : r \in approves[u]
BY DEF ApprovedHere, Selected

LEMMA ApprovedStep ==
    ASSUME Basic, Causal, NewAtHand, NewAtHand', ApprovedHere, Next
    PROVE  ApprovedHere'
<1>1. ASSUME NEW u \in Fresh
      PROVE  u \in Fresh' /\ approves'[u] = approves[u]
  BY <1>1, HoldingStep, HoldingMade, ApprovesStep DEF Fresh
<1>2. Carried \subseteq Fresh /\ Carried' \subseteq Fresh'
  <2>1. Carried \subseteq Fresh
    BY CarriedIsFresh
  <2>2. Carried' \subseteq Fresh'
    BY DEF NewAtHand, Carried, Fresh
  <2> QED
    BY <2>1, <2>2
<1>3. loaded' = loaded
  BY ApprovesStep
<1>4. ASSUME NEW r \in Stored(table)' \ loaded
      PROVE  r \in Selected' \/ \E u \in Fresh' : r \in approves'[u]
  <2>1. CASE r \in Selected
    BY <1>2, <2>1, SelectedStep
  <2>2. CASE \E u \in Fresh : r \in approves[u]
    BY <1>1, <2>2
  <2>3. CASE r \notin Stored(table)
    BY <1>1, <1>2, <2>3, StoredSource
  <2> QED
    BY <2>1, <2>2, <2>3, ApprovedHereMeans
<1> QED
  BY <1>3, <1>4 DEF ApprovedHere, Selected

(* The youngest of the units that are new to the node is approved by none  *)
(* of them, so it is outside the database, or the worker has just selected *)
(* it.                                                                     *)
LEMMA YoungestIsOpen ==
    ASSUME Basic, Causal, ApprovedHere
    PROVE  SomethingToApprove
<1> SUFFICES ASSUME Fresh # {} PROVE SomethingToApprove
  BY DEF SomethingToApprove
<1>1. Fresh \subseteq 1 .. made /\ made \in Nat
  BY HoldingMade, UnitFacts DEF Fresh, Basic, TypeOK
<1>2. PICK m \in Fresh : \A u \in Fresh : u <= m
  BY <1>1, MaxOfInterval
<1>3. CASE m \notin Stored(table)
  BY <1>2, <1>3 DEF SomethingToApprove, Held, Fresh
<1>4. CASE m \in Selected
  <2>1. wtips # << >>
    <3>1. ASSUME wtips = << >> PROVE FALSE
      BY <1>4, <3>1 DEF Selected, Range
    <3> QED
      BY <3>1
  <2> QED
    BY <1>4, <2>1 DEF SomethingToApprove, Selected
<1>5. ASSUME NEW u \in Fresh, m \in approves[u] PROVE FALSE
  <2>1. u \in Unit
    <3>1. u \in 1 .. made /\ made \in Unit
      BY <1>1 DEF Basic, TypeOK
    <3> QED
      BY <3>1, DagAssumption DEF Unit
  <2>2. m \in 1 .. u - 1 /\ u <= m
    BY <1>2, <1>5, <2>1 DEF Causal
  <2> QED
    BY <2>1, <2>2, UnitFacts
<1>6. m \notin loaded
  BY DEF Fresh
<1> QED
  BY <1>2, <1>3, <1>4, <1>5, <1>6, ApprovedHereMeans

LEMMA WaitStep ==
    ASSUME Basic, NewAtHand, SomethingToApprove, WaitJustified, Next
    PROVE  WaitJustified'
<1> SUFFICES ASSUME wpc' = "wait"
             PROVE  /\ tips' = << >>
                    /\ (\E h \in Handlers : hpc'[h] = "push") \/ Stored(table)' = loaded'
  BY DEF WaitJustified
<1>1. CASE SelectTips
  <2>1. /\ wpc = "select" /\ tips = << >> /\ lock = NoOne
        /\ UNCHANGED <<tips, hpc, table, loaded>>
    BY <1>1 DEF SelectTips, Unlocked, hVars, envVars
  <2>2. CASE Fresh = {}
    <3>1. Stored(table) = loaded
      BY <2>2 DEF Fresh, Held, NewAtHand
    <3>2. Stored(table)' = Stored(table)
      BY <2>1 DEF Stored
    <3> QED
      BY <2>1, <3>1, <3>2
  <2>3. CASE Fresh # {}
    <3>1. Carried # {}
      BY <2>1, <2>3 DEF SomethingToApprove, Range
    <3>2. PICK h \in Handlers : hpc[h] \in {"scan", "push"}
      BY <2>1, <3>1 DEF Carried
    <3>3. hpc[h] # "scan"
      BY <2>1, DagAssumption DEF Basic, LockOwner
    <3> QED
      BY <2>1, <3>2, <3>3
  <2> QED
    BY <2>2, <2>3
<1>2. CASE ~SelectTips
  <2>1. /\ wpc = "wait"
        /\ ~Pick /\ ~PushTip /\ \A h \in Handlers : ~PushRemoteTip(h)
    BY <1>2 DEF Next, WorkerStep, HandlerStep, RemoteUnit, PushInfo, TakeInfo,
       SpuriousWakeup, Wake, Pick, SelectDone, PoW, PushTip, BroadcastUnit, Receive, Check, Scan,
       ScanHit, ScanEnd, PushRemoteTip, Notified, GetAllRows, GetAllTips, wVars
  <2>2. tips = << >>
    BY <2>1 DEF WaitJustified
  <2>3. \A g \in Handlers : ~ScanHit(g)
    <3>1. ASSUME NEW g \in Handlers, ScanHit(g) PROVE FALSE
      <4>1. Min(Hits(g)) \in 1 .. Len(tips)
        BY <3>1, HitFacts DEF ScanHit, Basic
      <4> QED
        BY <2>2, <4>1
    <3> QED
      BY <3>1
  <2>4. tips' = << >> /\ Stored(table)' = Stored(table)
    BY <2>1, <2>2, <2>3, StillSteps, StillFacts DEF Still
  <2>5. CASE \E h \in Handlers : hpc[h] = "push"
    <3>1. PICK h \in Handlers : hpc[h] = "push"
      BY <2>5
    <3>2. hpc'[h] = "push"
      BY <2>1, <2>3, <3>1 DEF Next, WorkerStep, HandlerStep, RemoteUnit, PushInfo, TakeInfo,
         SelectTips, SpuriousWakeup, Wake, SelectDone, PoW, BroadcastUnit, Receive, Check, Scan,
         ScanEnd, GetAllRows, GetAllTips, hVars, Basic, TypeOK
    <3> QED
      BY <2>4, <3>2
  <2>6. CASE Stored(table) = loaded
    <3>1. loaded' = loaded
      BY ApprovesStep
    <3> QED
      BY <2>4, <2>6, <3>1
  <2> QED
    BY <2>1, <2>5, <2>6 DEF WaitJustified
<1> QED
  BY <1>1, <1>2

----------------------------------------------------------------------------
(* The order of the rows.                                                  *)

(* The rows stay, or one unit that is not among them is added at the end.  *)
LEMMA RowsStep ==
    ASSUME Basic, Next
    PROVE  \/ table'.rows = table.rows
           \/ \E u \in Unit \ Stored(table) : table'.rows = Append(table.rows, u)
<1>1. Range(tips) \subseteq Unit
  BY TipsFacts DEF Basic
<1>2. CASE Pick
  BY <1>1, <1>2, PickFacts
<1>3. CASE PushTip
  BY <1>3, WorkerPushes
<1>4. ASSUME NEW h \in Handlers, ScanHit(h)
      PROVE  \/ table'.rows = table.rows
             \/ \E u \in Unit \ Stored(table) : table'.rows = Append(table.rows, u)
  BY <1>1, <1>4, ScanHitFacts
<1>5. ASSUME NEW h \in Handlers, PushRemoteTip(h) PROVE table'.rows = table.rows
  BY <1>5 DEF PushRemoteTip
<1> QED
  BY <1>2, <1>3, <1>4, <1>5, StillSteps DEF Still

(* A unit enters mine when it is made, with the tips selected for it.      *)
LEMMA MineStep ==
    ASSUME Basic, Next
    PROVE  \/ mine' = mine
           \/ /\ mine' = mine \cup {made + 1}
              /\ approves'[made + 1] = Range(wtips)
<1>1. CASE PoW
  <2>1. made + 1 \in Unit
    BY <1>1, NextUnit DEF PoW, Basic
  <2> QED
    BY <1>1, <2>1 DEF PoW, Basic, TypeOK
<1>2. CASE ~PoW
  BY <1>2 DEF Next, WorkerStep, HandlerStep, RemoteUnit, PushInfo, TakeInfo, SelectTips,
     SpuriousWakeup, Wake, Pick, SelectDone, PushTip, BroadcastUnit, Receive, Check, Scan,
     ScanHit, ScanEnd, PushRemoteTip, GetAllRows, GetAllTips, envVars
<1> QED
  BY <1>1, <1>2

LEMMA OrderStep ==
    ASSUME Basic, Causal, OwnInOrder, Next
    PROVE  OwnInOrder'
<1>1. made \in Nat /\ table.rows \in Seq(Unit)
  BY UnitFacts DEF Basic, TypeOK, Tables
<1>2. /\ Len(table.rows) \in Nat /\ DOMAIN table.rows = 1 .. Len(table.rows)
      /\ Stored(table) = {table.rows[i] : i \in 1 .. Len(table.rows)}
  BY <1>1, LenProperties, RangeEquality DEF Stored
<1>3. ASSUME NEW u \in mine'
      PROVE  approves'[u] \subseteq Stored(table) /\ (u \in Stored(table) => u \in mine)
  <2>1. CASE u \in mine
    BY <2>1, ApprovesStep DEF OwnInOrder, Basic, NumbersAccounted
  <2>2. CASE u \notin mine
    <3>1. u = made + 1 /\ approves'[u] = Range(wtips)
      BY <1>3, <2>2, MineStep
    <3>2. u \notin Stored(table)
      BY <1>1, <3>1 DEF Causal, Held
    <3> QED
      BY <3>1, <3>2 DEF Causal
  <2> QED
    BY <2>1, <2>2
<1>4. \A u \in mine' : approves'[u] \subseteq Stored(table)'
  BY <1>3, HeldStep
<1>5. ASSUME NEW i \in 1 .. Len(table.rows), NEW j \in 1 .. Len(table.rows),
             table.rows[j] \in mine', table.rows[i] \in approves'[table.rows[j]]
      PROVE  i < j
  <2>1. table.rows[j] \in mine
    BY <1>2, <1>3, <1>5
  <2>2. approves'[table.rows[j]] = approves[table.rows[j]]
    BY <2>1, ApprovesStep DEF Basic, NumbersAccounted
  <2> QED
    BY <1>2, <1>5, <2>1, <2>2 DEF OwnInOrder
<1>6. CASE table'.rows = table.rows
  BY <1>2, <1>4, <1>5, <1>6 DEF OwnInOrder
<1>7. ASSUME NEW u \in Unit \ Stored(table), table'.rows = Append(table.rows, u)
      PROVE  OwnInOrder'
  <2> DEFINE n == Len(table.rows)
  <2>1. /\ DOMAIN table'.rows = 1 .. n + 1
        /\ \A i \in 1 .. n : table'.rows[i] = table.rows[i]
        /\ table'.rows[n + 1] = u
    <3>1. Append(table.rows, u) \in Seq(Unit) /\ Len(Append(table.rows, u)) = n + 1
      BY <1>1, AppendProperties
    <3> QED
      BY <1>1, <1>7, <3>1, AppendProperties, LenProperties
  <2>2. ASSUME NEW i \in 1 .. n + 1, NEW j \in 1 .. n + 1,
               table'.rows[j] \in mine', table'.rows[i] \in approves'[table'.rows[j]]
        PROVE  i < j
    <3>1. CASE i = n + 1
      BY <1>3, <2>1, <2>2, <3>1
    <3>2. CASE i # n + 1 /\ j = n + 1
      BY <1>2, <3>2
    <3>3. CASE i # n + 1 /\ j # n + 1
      <4>1. i \in 1 .. n /\ j \in 1 .. n
        BY <1>2, <3>3
      <4> QED
        BY <1>5, <2>1, <2>2, <4>1
    <3> QED
      BY <3>1, <3>2, <3>3
  <2> QED
    BY <1>4, <2>1, <2>2 DEF OwnInOrder
<1> QED
  BY <1>6, <1>7, RowsStep

----------------------------------------------------------------------------
(* Copies of a tip.                                                        *)

(* The unit the worker is about to add to the pool is nowhere else.        *)
Private ==
    wpc = "push" => /\ wunit \notin wire \cup Range(tips)
                    /\ \A h \in Handlers : hunit[h] # wunit

(* A unit in the pool is there as it was put there once, with no copy on   *)
(* its way; or each copy, in the pool or on its way, has a thread of its   *)
(* own.                                                                    *)
CopiesAccounted ==
    \A u \in Unit : \/ Copies(tips, u) <= 1 /\ Carriers(u) = 0
                    \/ Copies(tips, u) + Carriers(u) <= Cardinality(Handlers)

CarriersOf(u) == {h \in Handlers : /\ hpc[h] \in {"verified", "scan", "push"}
                                   /\ hunit[h] = u}

(* The places and the threads of a unit are finitely many.                 *)
LEMMA CopiesFinite ==
    ASSUME TypeOK, NEW u \in Unit
    PROVE  /\ IsFiniteSet({i \in DOMAIN tips : tips[i] = u})
           /\ Copies(tips, u) \in Nat /\ (Copies(tips, u) = 0 <=> u \notin Range(tips))
           /\ IsFiniteSet(CarriersOf(u)) /\ Carriers(u) = Cardinality(CarriersOf(u))
           /\ Carriers(u) \in Nat /\ Carriers(u) <= Cardinality(Handlers)
           /\ Cardinality(Handlers) \in Nat
<1> DEFINE P == {i \in DOMAIN tips : tips[i] = u}
<1>1. IsFiniteSet(DOMAIN tips)
  BY TipsFacts, FS_Interval
<1>2. P \in SUBSET DOMAIN tips
  OBVIOUS
<1>3. IsFiniteSet(P)
  BY <1>1, <1>2, FS_Subset
<1>4. P = {} <=> u \notin Range(tips)
  BY DEF Range
<1>5. Copies(tips, u) = Cardinality(P)
  BY DEF Copies
<1>6. CarriersOf(u) \in SUBSET Handlers
  BY DEF CarriersOf
<1>7. Carriers(u) = Cardinality(CarriersOf(u))
  BY DEF Carriers, CarriersOf
<1> HIDE DEF P
<1>8. Copies(tips, u) \in Nat /\ (Copies(tips, u) = 0 <=> u \notin Range(tips))
  BY <1>3, <1>4, <1>5, FS_CardinalityType, FS_EmptySet
<1>9. IsFiniteSet(Handlers) /\ Cardinality(Handlers) \in Nat
  BY DagAssumption, FS_CardinalityType
<1>10. /\ IsFiniteSet(CarriersOf(u)) /\ Cardinality(CarriersOf(u)) \in Nat
       /\ Cardinality(CarriersOf(u)) <= Cardinality(Handlers)
  BY <1>6, <1>9, FS_Subset, FS_CardinalityType
<1> QED
  BY <1>3, <1>7, <1>8, <1>9, <1>10 DEF P

(* Erasing a tip adds no copy of another.                                  *)
LEMMA CopiesErased ==
    ASSUME TypeOK, TypeOK', NEW i \in 1 .. Len(tips), Erase(i), NEW u \in Unit
    PROVE  Copies(tips, u)' <= Copies(tips, u)
<1> DEFINE P == {j \in DOMAIN tips : tips[j] = u}
           Q == {j \in DOMAIN tips' : tips'[j] = u}
           f == [j \in Q |-> IF j < i THEN j ELSE j + 1]
<1>1. /\ Len(tips) \in Nat /\ DOMAIN tips = 1 .. Len(tips)
      /\ DOMAIN tips' = 1 .. Len(tips) - 1
      /\ \A k \in 1 .. i - 1 : tips'[k] = tips[k]
      /\ \A k \in i .. Len(tips) - 1 : tips'[k] = tips[k + 1]
  <2>1. tips \in Seq(Unit) /\ tips' = RemoveAt(tips, i)
    BY DEF TypeOK, Erase
  <2>2. /\ tips' \in Seq(Unit) /\ Len(tips') = Len(tips) - 1
        /\ \A k \in 1 .. i - 1 : tips'[k] = tips[k]
        /\ \A k \in i .. Len(tips) - 1 : tips'[k] = tips[k + 1]
    BY <2>1, RemoveAtPlaces
  <2> QED
    BY <2>2, TipsFacts, LenProperties
<1>2. ASSUME NEW j \in Q PROVE f[j] \in P
  <2>1. j \in 1 .. Len(tips) - 1 /\ tips'[j] = u
    BY <1>1, <1>2
  <2>2. CASE j < i
    BY <1>1, <2>1, <2>2
  <2>3. CASE ~(j < i)
    BY <1>1, <2>1, <2>3
  <2> QED
    BY <2>2, <2>3
<1>3. \A j, k \in Q : f[j] = f[k] => j = k
  BY <1>1
<1>4. f \in Injection(Q, P)
  <2>1. f \in [Q -> P]
    BY <1>2
  <2> QED
    BY <2>1, <1>3 DEF Injection, IsInjective
<1>5. IsFiniteSet(P) /\ Copies(tips, u) = Cardinality(P) /\ Copies(tips, u)' = Cardinality(Q)
  BY CopiesFinite DEF Copies
<1> HIDE DEF f, P, Q
<1> QED
  BY <1>4, <1>5, FS_Injection

(* A unit that is added to the pool has one copy more, the others as many. *)
LEMMA CopiesAdded ==
    ASSUME TypeOK, NEW e \in Unit, tips' = Append(tips, e), NEW u \in Unit
    PROVE  Copies(tips, u)' = IF u = e THEN Copies(tips, u) + 1 ELSE Copies(tips, u)
<1> DEFINE P == {j \in DOMAIN tips : tips[j] = u}
           Q == {j \in DOMAIN tips' : tips'[j] = u}
           n == Len(tips) + 1
<1>1. /\ Len(tips) \in Nat /\ DOMAIN tips = 1 .. Len(tips)
      /\ DOMAIN tips' = 1 .. n
      /\ \A k \in 1 .. Len(tips) : tips'[k] = tips[k]
      /\ tips'[n] = e
  <2>1. tips \in Seq(Unit)
    BY DEF TypeOK
  <2>2. /\ tips' \in Seq(Unit) /\ Len(tips') = n
        /\ \A k \in 1 .. Len(tips) : tips'[k] = tips[k]
        /\ tips'[n] = e
    BY <2>1, AppendProperties
  <2> QED
    BY <2>2, TipsFacts, LenProperties
<1>2. n \notin P
  BY <1>1
<1>3. Q = IF u = e THEN P \cup {n} ELSE P
  BY <1>1
<1>4. IsFiniteSet(P) /\ Copies(tips, u) = Cardinality(P) /\ Copies(tips, u)' = Cardinality(Q)
  BY CopiesFinite DEF Copies
<1> HIDE DEF P, Q, n
<1>5. IsFiniteSet(P) => Cardinality(P \cup {n}) = Cardinality(P) + 1
  BY <1>2, FS_AddElement
<1> QED
  BY <1>3, <1>4, <1>5

(* The worker's unit is new when it is made, and stays out of sight until  *)
(* the worker itself pushes it.                                            *)
LEMMA PrivateStep ==
    ASSUME Basic, Causal, Private, Next
    PROVE  Private'
<1>1. CASE PoW
  <2>1. /\ wunit' = made + 1 /\ made \in Nat
        /\ UNCHANGED <<wire, tips, hunit>>
    BY <1>1, UnitFacts DEF PoW, poolVars, hVars, Basic, TypeOK
  <2>2. wire \cup Range(tips) \subseteq 1 .. made
    BY DEF Causal, Held
  <2>3. \A h \in Handlers : hunit[h] <= made
    BY DEF Causal
  <2> QED
    BY <2>1, <2>2, <2>3 DEF Private
<1>2. CASE ~PoW
  <2> SUFFICES ASSUME wpc' = "push"
               PROVE  /\ wunit' \notin wire' \cup Range(tips')
                      /\ \A h \in Handlers : hunit'[h] # wunit'
    BY DEF Private
  <2>1. wpc = "push" /\ wunit' = wunit /\ ~PushTip /\ ~BroadcastUnit
    BY <1>2 DEF Next, WorkerStep, HandlerStep, RemoteUnit, PushInfo, TakeInfo, SelectTips,
       SpuriousWakeup, Wake, Pick, SelectDone, PushTip, BroadcastUnit, Receive, Check, Scan,
       ScanHit, ScanEnd, PushRemoteTip, Notified, GetAllRows, GetAllTips, wVars
  <2>2. wunit \notin wire \cup Range(tips) /\ \A h \in Handlers : hunit[h] # wunit
    BY <2>1 DEF Private
  <2>3. wunit \in Unit /\ wunit <= made /\ made \in Nat /\ wunit \in Nat
    BY UnitFacts DEF Causal, Basic, TypeOK
  <2>4. wunit # Forged
    BY <2>3, UnitFacts
  <2>5. wunit \notin wire'
    <3>1. wire' = wire \/ wire' = wire \cup {made + 1}
      BY <1>2, <2>1 DEF Next, WorkerStep, HandlerStep, RemoteUnit, PushInfo, TakeInfo, SelectTips,
         SpuriousWakeup, Wake, Pick, SelectDone, PushTip, BroadcastUnit, Receive, Check, Scan,
         ScanHit, ScanEnd, PushRemoteTip, GetAllRows, GetAllTips, envVars
    <3> QED
      BY <2>2, <2>3, <3>1
  <2>6. \A h \in Handlers : hunit'[h] # wunit
    <3>1. CASE \E h \in Handlers : Receive(h)
      BY <2>2, <2>4, <3>1 DEF Receive, Basic, TypeOK
    <3>2. CASE \E h \in Handlers : Check(h) \/ PushRemoteTip(h)
      BY <2>2, <2>4, <3>2 DEF Check, PushRemoteTip, Basic, TypeOK
    <3>3. CASE ~\E h \in Handlers : Receive(h) \/ Check(h) \/ PushRemoteTip(h)
      BY <2>2, <3>3 DEF Next, WorkerStep, HandlerStep, RemoteUnit, PushInfo, TakeInfo, SelectTips,
         SpuriousWakeup, Wake, Pick, SelectDone, PoW, PushTip, BroadcastUnit, Scan,
         ScanHit, ScanEnd, GetAllRows, GetAllTips, hVars
    <3> QED
      BY <3>1, <3>2, <3>3
  <2>7. wunit \notin Range(tips')
    <3>1. ASSUME NEW h \in Handlers, PushRemoteTip(h) PROVE Range(tips') = Range(tips) \cup {hunit[h]}
      BY <3>1, PushTipFacts, UnitFacts DEF PushRemoteTip, Basic, TypeOK
    <3>2. ASSUME NEW h \in Handlers, ScanHit(h) PROVE Range(tips') \subseteq Range(tips)
      BY <3>2, HitFacts, EraseFacts DEF ScanHit, Basic
    <3>3. CASE ~\E h \in Handlers : PushRemoteTip(h) \/ ScanHit(h)
      BY <2>1, <2>2, <3>3, StillSteps DEF Still, Pick
    <3> QED
      BY <2>2, <3>1, <3>2, <3>3
  <2> QED
    BY <2>1, <2>5, <2>6, <2>7
<1> QED
  BY <1>1, <1>2

(* The same after a step.                                                  *)
LEMMA CopiesFiniteNext ==
    ASSUME TypeOK', NEW u \in Unit
    PROVE  /\ Copies(tips, u)' \in Nat /\ Carriers(u)' \in Nat
           /\ Carriers(u)' <= Cardinality(Handlers)
           /\ Carriers(u)' = Cardinality(CarriersOf(u)')
<1>1. tips' \in Seq(Unit)
  BY DEF TypeOK
<1>2. Len(tips') \in Nat /\ DOMAIN tips' = 1 .. Len(tips')
  BY <1>1, LenProperties
<1>3. IsFiniteSet(DOMAIN tips')
  BY <1>2, FS_Interval
<1>4. {i \in DOMAIN tips' : tips'[i] = u} \in SUBSET DOMAIN tips'
  OBVIOUS
<1>5. IsFiniteSet({i \in DOMAIN tips' : tips'[i] = u})
  BY <1>3, <1>4, FS_Subset
<1>6. Copies(tips, u)' = Cardinality({i \in DOMAIN tips' : tips'[i] = u})
  BY DEF Copies
<1>7. Carriers(u)' = Cardinality(CarriersOf(u)')
  BY DEF Carriers, CarriersOf
<1>8. CarriersOf(u)' \in SUBSET Handlers
  BY DEF CarriersOf
<1>9. /\ Cardinality(CarriersOf(u)') \in Nat
      /\ Cardinality(CarriersOf(u)') <= Cardinality(Handlers)
  BY <1>8, DagAssumption, FS_Subset, FS_CardinalityType
<1> QED
  BY <1>5, <1>6, <1>7, <1>9, FS_CardinalityType

(* Steps after which no unit has more copies and none has more carriers.   *)
LEMMA CopiesFewer ==
    ASSUME TypeOK, TypeOK', CopiesAccounted, NEW u \in Unit,
           Copies(tips, u)' <= Copies(tips, u), CarriersOf(u)' \subseteq CarriersOf(u)
    PROVE  \/ Copies(tips, u)' <= 1 /\ Carriers(u)' = 0
           \/ Copies(tips, u)' + Carriers(u)' <= Cardinality(Handlers)
<1>1. /\ IsFiniteSet(CarriersOf(u)) /\ Carriers(u) = Cardinality(CarriersOf(u))
      /\ Copies(tips, u) \in Nat /\ Carriers(u) \in Nat /\ Cardinality(Handlers) \in Nat
  BY CopiesFinite
<1>2. Copies(tips, u)' \in Nat /\ Carriers(u)' \in Nat /\ Carriers(u)' = Cardinality(CarriersOf(u)')
  BY CopiesFiniteNext
<1>3. Cardinality(CarriersOf(u)') <= Cardinality(CarriersOf(u))
  <2>1. CarriersOf(u)' \in SUBSET CarriersOf(u)
    OBVIOUS
  <2> QED
    BY <1>1, <2>1, FS_Subset
<1> QED
  BY <1>1, <1>2, <1>3 DEF CopiesAccounted

LEMMA CopiesStep ==
    ASSUME Basic, Basic', Causal, Private, CopiesAccounted, Next
    PROVE  CopiesAccounted'
<1> SUFFICES ASSUME NEW u \in Unit
             PROVE  \/ Copies(tips, u)' <= 1 /\ Carriers(u)' = 0
                    \/ Copies(tips, u)' + Carriers(u)' <= Cardinality(Handlers)
  BY DEF CopiesAccounted
<1>1. TypeOK /\ TypeOK'
  BY DEF Basic
<1>2. /\ Copies(tips, u) \in Nat /\ (Copies(tips, u) = 0 <=> u \notin Range(tips))
      /\ IsFiniteSet(CarriersOf(u)) /\ Carriers(u) = Cardinality(CarriersOf(u))
      /\ Carriers(u) \in Nat /\ Carriers(u) <= Cardinality(Handlers)
      /\ Cardinality(Handlers) \in Nat
  BY <1>1, CopiesFinite
<1>3. /\ Copies(tips, u)' \in Nat /\ Carriers(u)' \in Nat /\ Carriers(u)' <= Cardinality(Handlers)
      /\ Carriers(u)' = Cardinality(CarriersOf(u)')
  BY <1>1, CopiesFiniteNext
<1>4. \A h \in Handlers : h \in CarriersOf(u) <=> /\ hpc[h] \in {"verified", "scan", "push"}
                                                  /\ hunit[h] = u
  BY DEF CarriersOf
<1>5. CASE Pick
  <2>1. PICK i \in 1 .. Len(tips) : Erase(i)
    BY <1>1, <1>5, TipsFacts DEF Pick
  <2>2. UNCHANGED <<hpc, hunit>>
    BY <1>5 DEF Pick, hVars
  <2> QED
    BY <1>1, <2>1, <2>2, CopiesErased, CopiesFewer DEF CarriersOf
<1>6. CASE \E h \in Handlers : ScanHit(h)
  <2>1. PICK i \in 1 .. Len(tips) : Erase(i)
    BY <1>1, <1>6, HitFacts DEF ScanHit
  <2>2. UNCHANGED <<hpc, hunit>>
    BY <1>6 DEF ScanHit
  <2> QED
    BY <1>1, <2>1, <2>2, CopiesErased, CopiesFewer DEF CarriersOf
<1>7. CASE PushTip
  <2>1. /\ tips' = Append(tips, wunit) /\ wunit \in Unit /\ wpc = "push"
        /\ UNCHANGED <<hpc, hunit>>
    BY <1>1, <1>7 DEF PushTip, hVars, TypeOK
  <2>2. Copies(tips, u)' = IF u = wunit THEN Copies(tips, u) + 1 ELSE Copies(tips, u)
    BY <1>1, <2>1, CopiesAdded
  <2>3. CarriersOf(u)' = CarriersOf(u)
    BY <2>1 DEF CarriersOf
  <2>4. CASE u = wunit
    <3>1. Copies(tips, u) = 0 /\ CarriersOf(u) = {}
      BY <1>2, <2>1, <2>4 DEF Private, CarriersOf
    <3> QED
      BY <1>3, <2>2, <2>3, <2>4, <3>1, FS_EmptySet
  <2>5. CASE u # wunit
    BY <1>1, <1>2, <2>2, <2>3, <2>5, CopiesFewer
  <2> QED
    BY <2>4, <2>5
<1>8. ASSUME NEW h \in Handlers, PushRemoteTip(h)
      PROVE  \/ Copies(tips, u)' <= 1 /\ Carriers(u)' = 0
             \/ Copies(tips, u)' + Carriers(u)' <= Cardinality(Handlers)
  <2>1. /\ tips' = Append(tips, hunit[h]) /\ hunit[h] \in Unit /\ hpc[h] = "push"
        /\ hpc' = [hpc EXCEPT ![h] = "idle"] /\ hunit' = [hunit EXCEPT ![h] = Forged]
    BY <1>1, <1>8 DEF PushRemoteTip, TypeOK
  <2>2. Copies(tips, u)' = IF u = hunit[h] THEN Copies(tips, u) + 1 ELSE Copies(tips, u)
    BY <1>1, <2>1, CopiesAdded
  <2>3. CarriersOf(u)' = CarriersOf(u) \ {h}
    BY <1>1, <2>1 DEF CarriersOf, TypeOK
  <2>4. CASE u = hunit[h]
    <3>1. h \in CarriersOf(u)
      BY <2>1, <2>4 DEF CarriersOf
    <3>2. Cardinality(CarriersOf(u) \ {h}) = Cardinality(CarriersOf(u)) - 1
      BY <1>2, <3>1, FS_RemoveElement
    <3>3. Cardinality(CarriersOf(u)) # 0
      BY <1>2, <3>1, FS_EmptySet
    <3> QED
      BY <1>2, <1>3, <2>2, <2>3, <2>4, <3>2, <3>3 DEF CopiesAccounted
  <2>5. CASE u # hunit[h]
    BY <1>1, <1>2, <2>2, <2>3, <2>5, CopiesFewer
  <2> QED
    BY <2>4, <2>5
<1>9. ASSUME NEW h \in Handlers, Check(h)
      PROVE  \/ Copies(tips, u)' <= 1 /\ Carriers(u)' = 0
             \/ Copies(tips, u)' + Carriers(u)' <= Cardinality(Handlers)
  <2>1. tips' = tips
    BY <1>9 DEF Check, poolVars
  <2>2. Copies(tips, u)' = Copies(tips, u)
    BY <2>1 DEF Copies
  <2>3. CASE ~Rejected(hunit[h]) /\ hunit[h] = u
    <3>1. Copies(tips, u) = 0
      BY <1>2, <2>3 DEF Rejected
    <3> QED
      BY <1>2, <1>3, <2>2, <3>1
  <2>4. CASE Rejected(hunit[h]) \/ hunit[h] # u
    <3>1. \/ hpc' = [hpc EXCEPT ![h] = "idle"] /\ hunit' = [hunit EXCEPT ![h] = Forged]
          \/ hpc' = [hpc EXCEPT ![h] = "verified"] /\ UNCHANGED hunit /\ hunit[h] # u
      BY <1>9, <2>4 DEF Check
    <3>2. CarriersOf(u)' \subseteq CarriersOf(u)
      BY <1>1, <3>1, UnitFacts DEF CarriersOf, TypeOK
    <3> QED
      BY <1>1, <1>2, <2>2, <3>2, CopiesFewer
  <2> QED
    BY <2>3, <2>4
<1>10. CASE /\ ~Pick /\ ~PushTip
            /\ \A h \in Handlers : ~ScanHit(h) /\ ~PushRemoteTip(h) /\ ~Check(h)
  <2>1. tips' = tips
    BY <1>10, StillSteps DEF Still
  <2>2. Copies(tips, u)' = Copies(tips, u)
    BY <2>1 DEF Copies
  <2>3. CarriersOf(u)' \subseteq CarriersOf(u)
    <3>1. CASE \E h \in Handlers : Receive(h) \/ GetAllRows(h) \/ Scan(h) \/ ScanEnd(h) \/ GetAllTips(h)
      BY <1>1, <3>1 DEF Receive, GetAllRows, Scan, ScanEnd, GetAllTips, CarriersOf, TypeOK
    <3>2. CASE ~\E h \in Handlers : Receive(h) \/ GetAllRows(h) \/ Scan(h) \/ ScanEnd(h) \/ GetAllTips(h)
      <4>1. UNCHANGED <<hpc, hunit>>
        BY <1>10, <3>2 DEF Next, WorkerStep, HandlerStep, RemoteUnit, PushInfo, TakeInfo, SelectTips,
           SpuriousWakeup, Wake, SelectDone, PoW, BroadcastUnit, hVars
      <4> QED
        BY <4>1 DEF CarriersOf
    <3> QED
      BY <3>1, <3>2
  <2> QED
    BY <1>1, <1>2, <2>2, <2>3, CopiesFewer
<1> QED
  BY <1>5, <1>6, <1>7, <1>8, <1>9, <1>10

----------------------------------------------------------------------------
LEMMA InvInit == Init => IInv
<1> SUFFICES ASSUME Init PROVE IInv
  OBVIOUS
<1>1. /\ made \in Nat /\ 1 \in 1 .. made
      /\ Range(tips) \subseteq 1 .. made
      /\ Stored(table) = loaded /\ loaded \subseteq 1 .. made
      /\ \A u \in Unit : approves[u] \subseteq 1 .. u - 1
  BY InitFacts, UnitFacts
<1>2. Causal
  <2>1. wire \cup known \cup Held \subseteq 1 .. made
    BY <1>1 DEF Init, Held
  <2>2. wunit <= made
    BY <1>1 DEF Init, Genesis
  <2>3. \A h \in Handlers : hunit[h] <= made /\ hseen[h] \subseteq 1 .. made
    BY <1>1 DEF Init, Forged
  <2>4. Range(wtips) \subseteq Stored(table)
    BY DEF Init, Range
  <2> QED
    BY <1>1, <2>1, <2>2, <2>3, <2>4 DEF Causal
<1>3. NewAtHand
  BY <1>1 DEF Init, NewAtHand
<1>4. ApprovedHere
  BY <1>1 DEF ApprovedHere
<1>5. OwnInOrder
  BY DEF Init, OwnInOrder
<1> QED
  BY <1>2, <1>3, <1>4, <1>5, BasicInit DEF IInv

LEMMA InvNext == IInv /\ [Next]_vars => IInv'
<1> SUFFICES ASSUME IInv, [Next]_vars PROVE IInv'
  OBVIOUS
<1>1. CASE Next
  BY <1>1, BasicNext, CausalStep, NewStep, ApprovedStep, OrderStep DEF IInv
<1>2. CASE UNCHANGED vars
  <2>1. Basic'
    BY <1>2, BasicNext DEF IInv
  <2> QED
    BY <1>2, <2>1 DEF IInv, Causal, NewAtHand, ApprovedHere, OwnInOrder, Held, Carried, Fresh,
                      Stored, vars, envVars, poolVars, infoVars, wVars, hVars
<1> QED
  BY <1>1, <1>2

LEMMA InvInvariant == Spec => []IInv
BY InvInit, InvNext, PTL DEF Spec

(* Whatever a node starts with: approval by a unit that is thrown away     *)
(* never moves a tip into the database, so each row added since the start  *)
(* has an approver that is held, or about to be, and is not from before    *)
(* the start (dag.cpp:61-81, 98-149).                                      *)
THEOREM OnlyApprovedStored == Spec => []ApprovedHere
BY InvInvariant, PTL DEF IInv

(* A unit of this node is stored after the units it approves               *)
(* (dag.cpp:66-81).                                                        *)
THEOREM OwnUnitsInOrder == Spec => []OwnInOrder
BY InvInvariant, PTL DEF IInv

(* Once the node holds a unit it did not start with in its table, the pool *)
(* of tips never dries up for good (dag.cpp:98-149, 180-212).              *)
THEOREM NeverOutOfTips == Spec => []SomethingToApprove
<1>1. IInv => SomethingToApprove
  BY YoungestIsOpen DEF IInv
<1> QED
  BY <1>1, InvInvariant, PTL

(* No notification is lost: the worker never sleeps without a handler that *)
(* is about to wake it, unless not a single row has been added to those    *)
(* the node started with (dag.cpp:30, 152-154, 185-189).                   *)
THEOREM NoLostWakeup == Spec => []WaitJustified
<1>1. Init => WaitJustified
  BY DEF Init, WaitJustified
<1>2. IInv /\ WaitJustified /\ [Next]_vars => WaitJustified'
  <2> SUFFICES ASSUME IInv, WaitJustified, [Next]_vars PROVE WaitJustified'
    OBVIOUS
  <2>1. CASE Next
    BY <2>1, WaitStep, YoungestIsOpen DEF IInv
  <2>2. CASE UNCHANGED vars
    BY <2>2 DEF WaitJustified, Stored, vars, envVars, poolVars, wVars, hVars
  <2> QED
    BY <2>1, <2>2
<1> QED
  BY <1>1, <1>2, InvInvariant, PTL DEF Spec

(* Racing network threads put a unit into the pool at most once each       *)
(* (dag.cpp:108-115, 148).                                                 *)
THEOREM CopiesPerThread == Spec => []CopiesBounded
<1>1. Init => Private /\ CopiesAccounted
  <2> SUFFICES ASSUME Init PROVE Private /\ CopiesAccounted
    OBVIOUS
  <2>1. Private
    BY DEF Init, Private
  <2>2. ASSUME NEW u \in Unit
        PROVE  /\ Carriers(u) = 0
               /\ Copies(tips, u) <= 1 \/ Copies(tips, u) <= Cardinality(Handlers)
    <3>1. {h \in Handlers : hpc[h] \in {"verified", "scan", "push"} /\ hunit[h] = u} = {}
      BY DEF Init
    <3>2. Carriers(u) = 0
      BY <3>1, FS_EmptySet DEF Carriers
    <3> QED
      BY <3>2, InitFacts
  <2>3. \A u \in Unit : Copies(tips, u) \in Nat
    BY BasicInit, CopiesFinite DEF Basic
  <2> QED
    BY <2>1, <2>2, <2>3 DEF CopiesAccounted
<1>2. IInv /\ IInv' /\ Private /\ CopiesAccounted /\ [Next]_vars => (Private /\ CopiesAccounted)'
  <2> SUFFICES ASSUME IInv, IInv', Private, CopiesAccounted, [Next]_vars
               PROVE  (Private /\ CopiesAccounted)'
    OBVIOUS
  <2>1. CASE Next
    BY <2>1, PrivateStep, CopiesStep DEF IInv
  <2>2. CASE UNCHANGED vars
    BY <2>2 DEF Private, CopiesAccounted, Copies, Carriers, vars, envVars, poolVars, wVars, hVars
  <2> QED
    BY <2>1, <2>2
<1>3. IInv /\ CopiesAccounted => CopiesBounded
  <2> SUFFICES ASSUME IInv, CopiesAccounted, NEW u \in Unit, Copies(tips, u) > 1
               PROVE  Copies(tips, u) + Carriers(u) <= Cardinality(Handlers)
    BY DEF CopiesBounded
  <2>1. Copies(tips, u) \in Nat
    BY CopiesFinite DEF IInv, Basic
  <2> QED
    BY <2>1 DEF CopiesAccounted
<1> QED
  BY <1>1, <1>2, <1>3, InvInvariant, PTL DEF Spec
=============================================================================
