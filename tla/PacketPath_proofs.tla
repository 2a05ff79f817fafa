---------------------------- MODULE PacketPath_proofs ----------------------------
(* The composed firewall, for any number of packets, requests, rules and nodes: it uses the *)
(* pool and the rules as ConnPool and FWRules say, so what is proved of them holds here,    *)
(* and with it that a switch to DROP closes the door.                                       *)
EXTENDS PacketPath, ConnPool_proofs

RulesThms == INSTANCE FWRules_proofs WITH Key <- Packet

--------------------------------------------------------------------------------
(* The rules in PacketPath are those of FWRules_proofs. *)

\* What the proofs about the rules assume of the constants holds here.
LEMMA RulesConstants ==
    /\ NoCell \notin Cell /\ NoName \notin Name /\ NoAdmin \notin Admin
    /\ NoRule \notin RulesThms!RuleValue
    /\ CoverSets \subseteq SUBSET Packet
  BY PathAssumption DEF Rules!RuleValue, RulesThms!RuleValue, Rules!Action, RulesThms!Action

\* Both instances of FWRules start alike.
LEMMA SameInit == Rules!RulesInit => RulesThms!RulesInit
  BY DEF Rules!RulesInit, RulesThms!RulesInit, Rules!NotForming, RulesThms!NotForming

\* A step of the one instance is a step of the other.
LEMMA SameNext == Rules!RulesNext => RulesThms!RulesNext
<1> USE DEF Rules!Serving, RulesThms!Serving, Rules!CanRead, RulesThms!CanRead,
            Rules!CanReadInSoftirq, RulesThms!CanReadInSoftirq,
            Rules!CanWrite, RulesThms!CanWrite, Rules!Positions, RulesThms!Positions,
            Rules!NotForming, RulesThms!NotForming, Rules!Named, RulesThms!Named,
            Rules!Granted, RulesThms!Granted, Rules!FormDone, RulesThms!FormDone,
            Rules!Insert, RulesThms!Insert, Rules!InsertAt, RulesThms!InsertAt
<1>1. ASSUME NEW a \in Admin, NEW c, NEW r, NEW after,
             Rules!AppendAtHead(a, c, r, after) \/ Rules!AppendAfter(a, c, r, after)
      PROVE  RulesThms!AppendAtHead(a, c, r, after) \/ RulesThms!AppendAfter(a, c, r, after)
  <2>1. CASE Rules!AppendAtHead(a, c, r, after)
    BY <2>1, Zenon DEF Rules!AppendAtHead, RulesThms!AppendAtHead
  <2>2. CASE Rules!AppendAfter(a, c, r, after)
    BY <2>2, Zenon DEF Rules!AppendAfter, RulesThms!AppendAfter
  <2> QED
    BY <1>1, <2>1, <2>2
<1>2. ASSUME NEW a \in Admin, NEW n, Rules!RemoveStart(a, n) PROVE RulesThms!RemoveStart(a, n)
  BY <1>2, Zenon DEF Rules!RemoveStart, RulesThms!RemoveStart, Rules!Unlinks, RulesThms!Unlinks
<1>3. ASSUME NEW a \in Admin, Rules!FormHead(a) PROVE RulesThms!FormHead(a)
  BY <1>3, Zenon DEF Rules!FormHead, RulesThms!FormHead, Rules!Head1, RulesThms!Head1
<1>4. ASSUME NEW a \in Admin, Rules!RemoveOne(a) PROVE RulesThms!RemoveOne(a)
  BY <1>4, Zenon DEF Rules!RemoveOne, RulesThms!RemoveOne, Rules!RemoveAt, RulesThms!RemoveAt
<1>5. ASSUME NEW a \in Admin, Rules!RemoveDone(a) PROVE RulesThms!RemoveDone(a)
  BY <1>5, Zenon DEF Rules!RemoveDone, RulesThms!RemoveDone
<1>6. ASSUME NEW a \in Admin, Rules!FormAllFWRules(a) PROVE RulesThms!FormAllFWRules(a)
  BY <1>6, Zenon DEF Rules!FormAllFWRules, RulesThms!FormAllFWRules
<1>7. ASSUME NEW a \in Admin, Rules!FormFaults(a) PROVE RulesThms!FormFaults(a)
  BY <1>7, Zenon DEF Rules!FormFaults, RulesThms!FormFaults
<1>8. ASSUME NEW k \in Packet, Rules!MatchKills(k) PROVE RulesThms!MatchKills(k)
  BY <1>8, Zenon DEF Rules!MatchKills, RulesThms!MatchKills, Rules!Matched, RulesThms!Matched
<1>9. ASSUME NEW a \in Admin, NEW n, Rules!AppendFails(a, n) PROVE RulesThms!AppendFails(a, n)
  BY <1>9, Zenon DEF Rules!AppendFails, RulesThms!AppendFails
<1>10. ASSUME NEW a \in Admin, Rules!WaitToWrite(a) PROVE RulesThms!WaitToWrite(a)
  BY <1>10, Zenon DEF Rules!WaitToWrite, RulesThms!WaitToWrite
<1>11. ASSUME NEW a \in Admin, Rules!FormOverruns(a) PROVE RulesThms!FormOverruns(a)
  BY <1>11, Zenon
  DEF Rules!FormOverruns, RulesThms!FormOverruns, Rules!CountsFewer, RulesThms!CountsFewer,
      Rules!Head1, RulesThms!Head1, Rules!RuleValue, RulesThms!RuleValue, Rules!Action,
      RulesThms!Action
<1>12. \A a \in Admin : Rules!Request(a) => RulesThms!Request(a)
  BY <1>1, <1>2, <1>3, <1>9, <1>10, Zenon
  DEF Rules!Request, RulesThms!Request, Rules!RuleValue, RulesThms!RuleValue, Rules!Action,
      RulesThms!Action
<1>13. \A a \in Admin : Rules!Serve(a) => RulesThms!Serve(a)
  BY <1>4, <1>5, <1>6, <1>7, <1>11, Zenon DEF Rules!Serve, RulesThms!Serve
<1> QED
  BY <1>8, <1>12, <1>13, Zenon DEF Rules!RulesNext, RulesThms!RulesNext

\* The rules' invariant is kept by what is a step of the rules.
LEMMA RulesKept ==
    ASSUME RulesThms!RulesInv, Rules!RulesNext \/ UNCHANGED rulesVars
    PROVE  RulesThms!RulesInv'
<1>1. RulesThms!RulesInv /\ [RulesThms!RulesNext]_(RulesThms!ruleVars) => RulesThms!RulesInv'
  BY RulesConstants, RulesThms!RulesNextInv
<1> QED
  BY <1>1, SameNext DEF rulesVars, RulesThms!ruleVars

--------------------------------------------------------------------------------
(* The inductive invariant *)

PathInv == PathTypeOK /\ PoolInv /\ RulesThms!RulesInv

\* A context in a hook has a packet, with a key of the pool.
LEMMA PacketKey ==
    ASSUME PathTypeOK, NEW c \in Ctx, stage[c] # "none"
    PROVE  packet[c] \in Packet /\ KeyOf[packet[c]] \in Key
  BY PathAssumption DEF PathTypeOK

\* A rule that is being removed covers packets whose keys the pool may be told to erase.
LEMMA CondemnedKeys ==
    ASSUME RulesThms!RulesInv, NEW cell \in condemned
    PROVE  KeysOf(rule[cell].covers) \in EraseSets
<1>1. rule[cell] \in RulesThms!RuleValue
  BY DEF RulesThms!RulesInv, RulesThms!RulesTypeOK, RulesThms!ListSound
<1>2. rule[cell].covers \in CoverSets
  BY <1>1 DEF RulesThms!RuleValue
<1> QED
  BY <1>2, PathAssumption

\* What the hooks, the requests and the timer do to the pool is a step of the pool.
LEMMA StepsOfPool ==
    ASSUME PathInv, PathNext
    PROVE  PoolNext \/ UNCHANGED poolVars
<1>1. ASSUME NEW c \in Ctx, NEW p \in Packet, NEW rt \in Routes, Arrive(c, p, rt)
      PROVE  UNCHANGED poolVars
  BY <1>1 DEF Arrive
<1>2. ASSUME NEW c \in Ctx, EnterHook(c) PROVE PoolNext
  <2>1. KeyOf[packet[c]] \in Key
    BY <1>2, PacketKey DEF EnterHook, PathInv
  <2> QED
    BY <1>2, <2>1 DEF EnterHook, PoolNext, PoolStep
<1>3. ASSUME NEW c \in Ctx,
             HasConn(c) \/ Known(c) \/ NatUnknown(c) \/ MatchKills(c) \/ AddConn(c)
             \/ AddConnReturns(c) \/ DropDefault(c)
      PROVE  PoolNext
  <2>1. Work(c)
    BY <1>3 DEF HasConn, Known, NatUnknown, MatchKills, AddConn, AddConnReturns, DropDefault, Work
  <2> QED
    BY <2>1 DEF PoolNext, PoolStep
<1>4. ASSUME NEW c \in Ctx, NoMatch(c) PROVE UNCHANGED poolVars
  BY <1>4 DEF NoMatch
<1>5. ASSUME NEW c \in Ctx, MatchPanics(c) PROVE PoolNext
  <2>1. Panic
    BY <1>5, PathAssumption DEF MatchPanics, Panic
  <2> QED
    BY <2>1 DEF PoolNext, PoolStep
<1>6. ASSUME NEW a \in Admin, Edit(a) \/ WaitForRules(a) \/ DelRuleDone(a)
      PROVE  UNCHANGED poolVars
  BY <1>6 DEF Edit, AddRule, AddRuleFails, DelRule, WaitForRules, DelRuleDone
<1>7. ASSUME NEW a \in Admin, NEW cell \in Cell, DelRuleOne(a, cell) PROVE PoolNext
  <2>1. EraseConnRelated(KeysOf(rule[cell].covers)) /\ KeysOf(rule[cell].covers) \in EraseSets
    BY <1>7, CondemnedKeys DEF DelRuleOne, PathInv
  <2> QED
    BY <2>1 DEF PoolNext, PoolStep
<1>8. ASSUME NEW a \in Admin, DealWithSetAction(a) PROVE PoolNext \/ UNCHANGED poolVars
  <2>1. MaxPorts \in EraseSets
    BY PathAssumption
  <2> QED
    BY <1>8, <2>1 DEF DealWithSetAction, PoolNext, PoolStep
<1>9. ASSUME NEW a \in Admin, NEW act \in Rules!Action, SetAction(a, act) PROVE UNCHANGED poolVars
  BY <1>9 DEF SetAction
<1>10. ASSUME Timer \/ Clock \/ PoolFaults PROVE PoolNext
  BY <1>10 DEF Timer, Clock, PoolFaults, PoolNext, PoolStep
<1> QED
  BY <1>1, <1>2, <1>3, <1>4, <1>5, <1>6, <1>7, <1>8, <1>9, <1>10
  DEF PathNext, Hook, Scan, Serve

\* What they do to the rules is a step of the rules.
LEMMA StepsOfRules ==
    ASSUME PathInv, PathNext
    PROVE  Rules!RulesNext \/ UNCHANGED rulesVars
<1>1. ASSUME NEW c \in Ctx, MatchKills(c) PROVE Rules!RulesNext
  <2>1. packet[c] \in Packet
    BY <1>1, PacketKey DEF MatchKills, InMain, PathInv
  <2> QED
    BY <1>1, <2>1 DEF MatchKills, Rules!RulesNext
<1>2. ASSUME NEW c \in Ctx, Hook(c), ~MatchKills(c) PROVE UNCHANGED rulesVars
  BY <1>2 DEF Hook, EnterHook, HasConn, Known, NatUnknown, Scan, NoMatch, MatchPanics, AddConn,
              AddConnReturns, DropDefault, InPath
<1>3. ASSUME NEW a \in Admin, Edit(a) \/ WaitForRules(a) PROVE Rules!RulesNext
  BY <1>3
  DEF Edit, AddRule, AddRuleFails, DelRule, WaitForRules, Rules!RulesNext, Rules!Request
<1>4. ASSUME NEW a \in Admin, NEW cell \in Cell, DelRuleOne(a, cell) PROVE Rules!RulesNext
  BY <1>4 DEF DelRuleOne, Rules!RulesNext, Rules!Serve
<1>5. ASSUME NEW a \in Admin, DelRuleDone(a) PROVE Rules!RulesNext
  BY <1>5 DEF DelRuleDone, Rules!RulesNext, Rules!Serve
<1>6. ASSUME NEW a \in Admin, DealWithSetAction(a) PROVE UNCHANGED rulesVars
  BY <1>6 DEF DealWithSetAction
<1>7. ASSUME NEW a \in Admin, NEW act \in Rules!Action, SetAction(a, act) PROVE UNCHANGED rulesVars
  BY <1>7 DEF SetAction
<1>8. ASSUME NEW c \in Ctx, NEW p \in Packet, NEW rt \in Routes, Arrive(c, p, rt)
      PROVE  UNCHANGED rulesVars
  BY <1>8 DEF Arrive, InPath
<1>9. ASSUME Timer \/ Clock \/ PoolFaults PROVE UNCHANGED rulesVars
  BY <1>9 DEF Timer, Clock, PoolFaults, InPath
<1> QED
  BY <1>1, <1>2, <1>3, <1>4, <1>5, <1>6, <1>7, <1>8, <1>9 DEF PathNext, Serve

\* The work of a pool call is that of a packet, or leaves the context idle.
LEMMA MoveTyped ==
    ASSUME PathTypeOK, TypeOK, NEW c \in Ctx, stage[c] # "none",
           NEW st \in {After(stage[c], route[c]), "none"}, MoveTo(c, st),
           pc' = [pc EXCEPT ![c] = "idle"], pkt' = [pkt EXCEPT ![c] = NoKey],
           DEFAULT_ACTION' = DEFAULT_ACTION, settling' = settling
    PROVE  PathTypeOK'
<1>1. st \in {"none", "pre", "nat", "post"} /\ route[c] \in Routes /\ packet[c] \in Packet
  BY DEF After, PathTypeOK
<1>2. /\ stage' \in [Ctx -> {"none", "pre", "nat", "post"}]
      /\ route' \in [Ctx -> Routes \cup {"none"}]
      /\ packet' \in [Ctx -> Packet \cup {NoPacket}]
      /\ action' \in [Ctx -> Rules!Action] /\ scanned' \in [Ctx -> BOOLEAN]
  BY <1>1 DEF MoveTo, PathTypeOK, Rules!Action
<1>3. \A d \in Ctx : stage'[d] # "none" => packet'[d] \in Packet /\ route'[d] \in Routes
  BY <1>1 DEF MoveTo, PathTypeOK
<1>4. ASSUME NEW d \in Ctx, pc'[d] # "idle"
      PROVE  stage'[d] # "none" /\ pkt'[d] = KeyOf[packet'[d]]
  <2>1. d # c
    BY <1>4 DEF TypeOK
  <2>2. pc'[d] = pc[d] /\ pkt'[d] = pkt[d]
    BY <2>1 DEF TypeOK
  <2>3. stage'[d] = stage[d] /\ packet'[d] = packet[d]
    BY <2>1 DEF MoveTo, PathTypeOK
  <2> QED
    BY <1>4, <2>2, <2>3 DEF PathTypeOK
<1> QED
  BY <1>2, <1>3, <1>4 DEF PathTypeOK

\* A step that leaves the hooks' variables alone, and calls nobody in.
LEMMA StayTyped ==
    ASSUME PathTypeOK, TypeOK,
           DEFAULT_ACTION' \in Rules!Action, settling' \subseteq Admin, UNCHANGED <<stage, route, packet>>,
           action' \in [Ctx -> Rules!Action], scanned' \in [Ctx -> BOOLEAN],
           \A d \in Ctx : pc'[d] # "idle" => pc[d] # "idle" /\ pkt'[d] = pkt[d]
    PROVE  PathTypeOK'
  BY DEF PathTypeOK

\* Every step keeps the types of the hooks' variables.
LEMMA PathTyped ==
    ASSUME PathInv, PathNext
    PROVE  PathTypeOK'
<1> USE DEF PathInv, PoolInv
<1>1. ASSUME NEW c \in Ctx, NEW p \in Packet, NEW rt \in Routes, Arrive(c, p, rt)
      PROVE  PathTypeOK'
  BY <1>1 DEF Arrive, PathTypeOK, InPath, adminVars, poolVars, contexts
<1>2. ASSUME NEW c \in Ctx, EnterHook(c) PROVE PathTypeOK'
  <2>1. /\ pc' = [pc EXCEPT ![c] = "lookup"] /\ pkt' = [pkt EXCEPT ![c] = KeyOf[packet[c]]]
        /\ stage[c] # "none"
    BY <1>2 DEF EnterHook, Call, Goto
  <2>2. /\ action' \in [Ctx -> Rules!Action]
        /\ UNCHANGED <<stage, route, packet, scanned, DEFAULT_ACTION, settling>>
    BY <1>2 DEF EnterHook, InPath, adminVars, PathTypeOK
  <2>3. ASSUME NEW d \in Ctx, pc'[d] # "idle"
        PROVE  stage'[d] # "none" /\ pkt'[d] = KeyOf[packet'[d]]
    <3>1. CASE d = c
      BY <2>1, <2>2, <3>1 DEF TypeOK
    <3>2. CASE d # c
      BY <2>1, <2>2, <2>3, <3>2 DEF TypeOK, PathTypeOK
    <3> QED
      BY <3>1, <3>2
  <2> QED
    BY <2>2, <2>3 DEF PathTypeOK
<1>3. ASSUME NEW c \in Ctx, HasConn(c) \/ AddConn(c) PROVE PathTypeOK'
  <2>1. /\ pkt' = pkt
        /\ \E to : pc[c] # "idle" /\ pc' = [pc EXCEPT ![c] = to]
    BY <1>3 DEF HasConn, AddConn, LookupHit, LookupMiss, Refresh, Alloc, Goto
  <2>2. UNCHANGED <<DEFAULT_ACTION, settling, stage, route, packet, action, scanned>>
    BY <1>3 DEF HasConn, AddConn, InPath, adminVars, pathVars
  <2>3. \A d \in Ctx : pc'[d] # "idle" => pc[d] # "idle"
    BY <2>1 DEF TypeOK
  <2> QED
    BY <2>1, <2>2, <2>3, StayTyped DEF PathTypeOK
<1>4. ASSUME NEW c \in Ctx,
             Known(c) \/ NatUnknown(c) \/ MatchKills(c) \/ AddConnReturns(c) \/ DropDefault(c)
      PROVE  PathTypeOK'
  <2>1. /\ pc[c] # "idle" /\ pc' = [pc EXCEPT ![c] = "idle"] /\ pkt' = [pkt EXCEPT ![c] = NoKey]
        /\ \E st \in {After(stage[c], route[c]), "none"} : MoveTo(c, st)
        /\ DEFAULT_ACTION' = DEFAULT_ACTION /\ settling' = settling
    BY <1>4 DEF Known, NatUnknown, MatchKills, AddConnReturns, DropDefault, Use, Reject,
                AllocFails, Link, Return, Goto, Accept, Drop, InPath, adminVars
  <2>2. stage[c] # "none"
    BY <2>1 DEF PathTypeOK
  <2> QED
    BY <2>1, <2>2, MoveTyped
<1>5. ASSUME NEW c \in Ctx, NoMatch(c) PROVE PathTypeOK'
  <2>1. UNCHANGED <<pc, pkt, DEFAULT_ACTION, settling, stage, route, packet, action>>
    BY <1>5 DEF NoMatch, InPath, adminVars, poolVars, contexts
  <2>2. scanned' \in [Ctx -> BOOLEAN]
    BY <1>5 DEF NoMatch, PathTypeOK
  <2> QED
    BY <2>1, <2>2, StayTyped DEF PathTypeOK
<1>6. ASSUME UNCHANGED <<pc, pkt, stage, route, packet, action, scanned>>,
             DEFAULT_ACTION' \in Rules!Action, settling' \subseteq Admin
      PROVE  PathTypeOK'
  BY <1>6, StayTyped DEF PathTypeOK
<1>7. ASSUME NEW c \in Ctx, MatchPanics(c) PROVE PathTypeOK'
  BY <1>6, <1>7 DEF MatchPanics, InPath, adminVars, pathVars, contexts, PathTypeOK
<1>8. ASSUME NEW a \in Admin, Edit(a) \/ WaitForRules(a) \/ DelRuleDone(a) PROVE PathTypeOK'
  BY <1>6, <1>8
  DEF Edit, AddRule, AddRuleFails, DelRule, WaitForRules, DelRuleDone, OffPath, adminVars,
      pathVars, poolVars, contexts, PathTypeOK
<1>9. ASSUME NEW a \in Admin, NEW cell \in Cell, DelRuleOne(a, cell) PROVE PathTypeOK'
  BY <1>6, <1>9 DEF DelRuleOne, EraseConnRelated, OffPath, adminVars, pathVars, contexts, PathTypeOK
<1>10. ASSUME NEW a \in Admin, DealWithSetAction(a) PROVE PathTypeOK'
  BY <1>6, <1>10
  DEF DealWithSetAction, EraseConnRelated, OffPath, pathVars, poolVars, contexts, PathTypeOK
<1>11. ASSUME NEW a \in Admin, NEW act \in Rules!Action, SetAction(a, act) PROVE PathTypeOK'
  BY <1>6, <1>11 DEF SetAction, OffPath, pathVars, poolVars, contexts, PathTypeOK
<1>12. ASSUME Timer \/ Clock \/ PoolFaults PROVE PathTypeOK'
  BY <1>6, <1>12
  DEF Timer, Clock, PoolFaults, TimerFire, Tick, WalkFaults, IndexFaults, OffPath, InPath,
      adminVars, pathVars, contexts, PathTypeOK
<1> QED
  BY <1>1, <1>2, <1>3, <1>4, <1>5, <1>7, <1>8, <1>9, <1>10, <1>11, <1>12
  DEF PathNext, Hook, Scan, Serve

\* The invariant is inductive.
LEMMA PathInvariant == PathSpec => []PathInv
<1>1. PathInit => PathInv
  <2> SUFFICES ASSUME PathInit PROVE PathInv
    OBVIOUS
  <2>1. PathTypeOK
    BY DEF PathInit, PoolInit, PathTypeOK, Rules!Action
  <2>2. PoolInv
    BY InitInv DEF PathInit
  <2>3. RulesThms!RulesInv
    BY SameInit, RulesConstants, RulesThms!RulesInitInv DEF PathInit
  <2> QED
    BY <2>1, <2>2, <2>3 DEF PathInv
<1>2. PathInv /\ [PathNext]_vars => PathInv'
  <2> SUFFICES ASSUME PathInv, [PathNext]_vars PROVE PathInv'
    OBVIOUS
  <2>1. CASE PathNext
    <3>1. PathTypeOK'
      BY <2>1, PathTyped
    <3>2. PoolInv'
      BY <2>1, StepsOfPool, NextInv DEF PathInv
    <3>3. RulesThms!RulesInv'
      BY <2>1, StepsOfRules, RulesKept DEF PathInv
    <3> QED
      BY <3>1, <3>2, <3>3 DEF PathInv
  <2>2. CASE UNCHANGED vars
    <3>1. PathTypeOK'
      BY <2>2 DEF vars, poolVars, contexts, adminVars, pathVars, PathInv, PathTypeOK
    <3>2. PoolInv'
      BY <2>2, NextInv DEF vars, PathInv
    <3>3. RulesThms!RulesInv'
      BY <2>2, RulesKept DEF vars, PathInv
    <3> QED
      BY <3>1, <3>2, <3>3 DEF PathInv
  <2> QED
    BY <2>1, <2>2
<1> QED
  BY <1>1, <1>2, PTL DEF PathSpec

--------------------------------------------------------------------------------
(* The theorems *)

\* Every variable has its type, and a context that the pool serves has its packet in a hook.
THEOREM PathTypes == PathSpec => []PathTypeOK
<1>1. PathInv => PathTypeOK
  BY DEF PathInv
<1> QED
  BY <1>1, PathInvariant, PTL

\* Whatever packets, requests and the timer do, the pool sees a behaviour of ConnPool.
THEOREM PathUsesPool == PathSpec => ImplementsPool
<1>1. PathInit => PoolInit
  BY DEF PathInit
<1>2. PathInv /\ [PathNext]_vars => [PoolNext]_poolVars
  BY StepsOfPool DEF vars
<1> QED
  BY <1>1, <1>2, PathInvariant, PTL DEF PathSpec, PoolSpec, ImplementsPool

\* And the rules see a behaviour of FWRules.
THEOREM PathUsesRules == PathSpec => ImplementsRules
<1>1. PathInit => Rules!RulesInit
  BY DEF PathInit
<1>2. PathInv /\ [PathNext]_vars => [Rules!RulesNext]_(Rules!ruleVars)
  BY StepsOfRules DEF vars, rulesVars, Rules!ruleVars
<1> QED
  BY <1>1, <1>2, PathInvariant, PTL DEF PathSpec, Rules!RulesSpec, ImplementsRules

--------------------------------------------------------------------------------
(* After a switch to DROP *)

\* No step but EnterHook makes a straggler, and that only where the default is to accept.
LEMMA NoNewStraggler ==
    ASSUME PathInv, PathNext, DEFAULT_ACTION = "drop", NEW d \in Ctx, d \in Stragglers'
    PROVE  d \in Stragglers
<1> USE DEF PathInv, PoolInv
<1>1. InMain(d)' /\ action'[d] = "accept" /\ pc'[d] \in {"lookup", "miss", "link"}
  BY DEF Stragglers
<1>2. CASE UNCHANGED <<stage, action>> /\ pc'[d] = pc[d]
  BY <1>1, <1>2 DEF Stragglers, InMain
<1>3. ASSUME NEW c \in Ctx, NEW p \in Packet, NEW rt \in Routes, Arrive(c, p, rt)
      PROVE  d \in Stragglers
  BY <1>1, <1>3 DEF Arrive, Stragglers, InMain, PathTypeOK, poolVars, contexts
<1>4. ASSUME NEW c \in Ctx, EnterHook(c) PROVE d \in Stragglers
  BY <1>1, <1>4 DEF EnterHook, Call, Goto, Stragglers, InMain, PathTypeOK, TypeOK
<1>5. ASSUME NEW c \in Ctx, HasConn(c) \/ AddConn(c) PROVE d \in Stragglers
  <2>1. /\ UNCHANGED <<stage, action>>
        /\ \E to : /\ pc' = [pc EXCEPT ![c] = to]
                   /\ pc[c] \in {"lookup", "miss"} \/ to = "use"
    BY <1>5 DEF HasConn, AddConn, LookupHit, LookupMiss, Refresh, Alloc, Goto, pathVars
  <2> QED
    BY <1>1, <2>1 DEF Stragglers, InMain, TypeOK
<1>6. ASSUME NEW c \in Ctx,
             Known(c) \/ NatUnknown(c) \/ MatchKills(c) \/ AddConnReturns(c) \/ DropDefault(c)
      PROVE  d \in Stragglers
  <2>1. pc' = [pc EXCEPT ![c] = "idle"] /\ \E st : MoveTo(c, st)
    BY <1>6 DEF Known, NatUnknown, MatchKills, AddConnReturns, DropDefault, Use, Reject,
                AllocFails, Link, Goto, Accept, Drop
  <2>2. d # c
    BY <1>1, <2>1 DEF TypeOK
  <2>3. pc'[d] = pc[d] /\ stage'[d] = stage[d] /\ action'[d] = action[d]
    BY <2>1, <2>2 DEF MoveTo, TypeOK, PathTypeOK
  <2> QED
    BY <1>1, <2>3 DEF Stragglers, InMain
<1>7. ASSUME NEW c \in Ctx, NoMatch(c) \/ MatchPanics(c) PROVE d \in Stragglers
  BY <1>2, <1>7 DEF NoMatch, MatchPanics, poolVars, contexts, pathVars
<1>8. ASSUME NEW a \in Admin, Edit(a) \/ WaitForRules(a) \/ DelRuleDone(a)
      PROVE  d \in Stragglers
  BY <1>2, <1>8
  DEF Edit, AddRule, AddRuleFails, DelRule, WaitForRules, DelRuleDone, OffPath, pathVars,
      poolVars, contexts
<1>9. ASSUME NEW a \in Admin, NEW cell \in Cell, DelRuleOne(a, cell) PROVE d \in Stragglers
  BY <1>2, <1>9 DEF DelRuleOne, EraseConnRelated, OffPath, pathVars, contexts
<1>10. ASSUME NEW a \in Admin, DealWithSetAction(a) PROVE d \in Stragglers
  BY <1>2, <1>10 DEF DealWithSetAction, EraseConnRelated, OffPath, pathVars, poolVars, contexts
<1>11. ASSUME NEW a \in Admin, NEW act \in Rules!Action, SetAction(a, act) PROVE d \in Stragglers
  BY <1>2, <1>11 DEF SetAction, OffPath, pathVars, poolVars, contexts
<1>12. ASSUME Timer \/ Clock \/ PoolFaults PROVE d \in Stragglers
  BY <1>2, <1>12
  DEF Timer, Clock, PoolFaults, TimerFire, Tick, WalkFaults, IndexFaults, OffPath, pathVars, contexts
<1> QED
  BY <1>3, <1>4, <1>5, <1>6, <1>7, <1>8, <1>9, <1>10, <1>11, <1>12
  DEF PathNext, Hook, Scan, Serve

\* A link is made on the way of a packet that hook_main lets through.
LEMMA LinkersAreStragglers ==
    ASSUME PathInv, PathNext, NEW c \in Ctx, Link(c)
    PROVE  c \in Stragglers
<1> USE DEF PathInv, PoolInv
<1>1. pc[c] = "link" /\ pc'[c] = "idle" /\ slab'[ptr[c]] = "linked" /\ slab[ptr[c]] = "fresh"
  BY DEF Link, Goto, TypeOK, FreshOwned
<1>2. \E d \in Ctx : AddConnReturns(d) /\ pc[d] = "link" /\ pc' = [pc EXCEPT ![d] = "idle"]
  <2> SUFFICES ASSUME \A d \in Ctx : AddConnReturns(d) => ~Link(d)
               PROVE  FALSE
    BY DEF AddConnReturns, Link, Goto
  <2>1. ASSUME slab' = slab PROVE FALSE
    BY <1>1, <2>1
  <2>2. ASSUME pc' = pc PROVE FALSE
    BY <1>1, <2>2
  <2>3. ASSUME NEW d \in Ctx, Hook(d) PROVE FALSE
    BY <1>1, <2>1, <2>2, <2>3
    DEF Hook, EnterHook, Call, Goto, HasConn, LookupHit, LookupMiss, Refresh, Known, Use,
        NatUnknown, Reject, Scan, NoMatch, MatchPanics, MatchKills, AddConn, Alloc,
        AddConnReturns, AllocFails, DropDefault, nodes, poolVars, TypeOK
  <2> QED
    BY <2>2, <2>3
    DEF PathNext, Arrive, Edit, AddRule, AddRuleFails, DelRule, WaitForRules, Serve, DelRuleOne,
        DelRuleDone, DealWithSetAction, SetAction, Timer, Clock, PoolFaults, TimerFire, Tick,
        WalkFaults, IndexFaults, EraseConnRelated, poolVars, contexts
<1>3. PICK d \in Ctx : AddConnReturns(d) /\ pc[d] = "link" /\ pc' = [pc EXCEPT ![d] = "idle"]
  BY <1>2
<1>4. d = c
  BY <1>1, <1>3 DEF TypeOK
<1> QED
  BY <1>3, <1>4 DEF AddConnReturns, Stragglers

\* Once the default action is to drop, only packets already past its read bring in a
\* connection, and there are never more of them.
THEOREM DoorCloses == PathSpec => DropClosesTheDoor
<1> DEFINE Closes ==
               DEFAULT_ACTION = "drop" /\ DEFAULT_ACTION' = "drop" =>
                   /\ Stragglers' \subseteq Stragglers
                   /\ \A k \in Key : LinkedOf(k) = {} /\ LinkedOf(k)' # {} =>
                          \E c \in Stragglers : pc[c] = "link" /\ pkt[c] = k
<1>1. ASSUME PathInv, [PathNext]_vars PROVE [Closes]_vars
  <2> SUFFICES ASSUME PathNext, DEFAULT_ACTION = "drop"
               PROVE  /\ Stragglers' \subseteq Stragglers
                      /\ \A k \in Key : LinkedOf(k) = {} /\ LinkedOf(k)' # {} =>
                             \E c \in Stragglers : pc[c] = "link" /\ pkt[c] = k
    BY <1>1
  <2>1. Stragglers' \subseteq Stragglers
    BY <1>1, NoNewStraggler DEF Stragglers
  <2>2. ASSUME NEW k \in Key, LinkedOf(k) = {}, LinkedOf(k)' # {}
        PROVE  \E c \in Stragglers : pc[c] = "link" /\ pkt[c] = k
    <3>1. PICK c \in Ctx : Link(c) /\ pkt[c] = k
      BY <1>1, <2>2, StepsOfPool, LinkAdmits DEF PathInv
    <3> QED
      BY <1>1, <3>1, LinkersAreStragglers DEF Link, Goto
  <2> QED
    BY <2>1, <2>2
<1>2. [][Closes]_vars <=> DropClosesTheDoor
  BY DEF DropClosesTheDoor
<1> HIDE DEF Closes
<1> QED
  BY <1>1, <1>2, PathInvariant, PTL DEF PathSpec
================================================================================
