---------------------------- MODULE FeishuBotsProofs ---------------------------
(***************************************************************************)
(* Proofs about FeishuBots for any number of projects, app ids, secrets,   *)
(* requests, fetches and restarts: types, that rows, connections, owners,  *)
(* secrets and tokens agree, and that no request is left behind a lock or  *)
(* a row that is gone.                                                     *)
(***************************************************************************)
EXTENDS FeishuBots, TLAPS

USE FeishuBotsAssumption

-----------------------------------------------------------------------------
(* Type correctness *)

RequestType ==
  /\ requests \in [Requests -> RequestStates]
  /\ \A r \in Requests : HoldsWhatItNeeds(requests[r])

CacheType ==
  /\ tokens \in [Projects -> Bots \cup {NoBot}]
  /\ late \subseteq Projects
  /\ fetches \in [Fetches -> FetchStates]

SupervisorType ==
  /\ clients \in [Projects -> Bots \cup {NoBot}]
  /\ states \in [Projects -> States]
  /\ owner \in [Apps -> Projects \cup {NoOne}]
  /\ deserted \subseteq Projects

RestType ==
  /\ config \in [Projects -> Bots \cup {NoBot}]
  /\ locks \in [Projects -> Requests \cup {NoOne}]
  /\ raced \subseteq Projects
  /\ unchecked \subseteq Projects /\ served \in 0..MaxRequests /\ restarts \in 0..MaxRestarts

\* TypeOK, by the parts of the state, before a step and after it.
LEMMA TypeParts ==
  /\ TypeOK <=> RequestType /\ CacheType /\ SupervisorType /\ RestType
  /\ TypeOK' <=> RequestType' /\ CacheType' /\ SupervisorType' /\ RestType'
BY DEF TypeOK, RequestType, CacheType, SupervisorType, RestType

\* A request that is over is well typed.
LEMMA IdleType == Idle \in RequestStates /\ HoldsWhatItNeeds(Idle)
BY DEF Idle, RequestStates, HoldsWhatItNeeds, Given

\* Replacing one request by a well-typed one keeps the requests well typed.
LEMMA OneRequest ==
  ASSUME RequestType, NEW r \in Requests, NEW q \in RequestStates, HoldsWhatItNeeds(q),
         requests' = [requests EXCEPT ![r] = q]
  PROVE  RequestType'
BY DEF RequestType

\* Advancing a request to a step that needs no more than it holds.
LEMMA GotoType ==
  ASSUME RequestType, NEW r \in Requests, NEW pc \in {"save", "read", "drop", "stop"},
         requests[r].pc # "idle", pc = "read" => requests[r].pc = "reload",
         pc = "save" => requests[r].pc = "check", Goto(r, pc)
  PROVE  RequestType'
<1> DEFINE q == [requests[r] EXCEPT !.pc = pc]
<1>1. q \in RequestStates /\ HoldsWhatItNeeds(q)
  BY DEF RequestType, RequestStates, HoldsWhatItNeeds
<1>2. requests' = [requests EXCEPT ![r] = q]
  BY DEF Goto, RequestType
<1> HIDE DEF q
<1> QED
  BY <1>1, <1>2, OneRequest

\* A request that ends or gives up, and what is known of its project then.
LEMMA EndType ==
  ASSUME TypeOK, NEW r \in Requests, End(r) \/ GiveUp(r)
  PROVE  RequestType' /\ raced' \subseteq Projects
<1>1. requests' = [requests EXCEPT ![r] = Idle] /\ raced' \subseteq Projects
  BY DEF End, GiveUp, TypeOK
<1> QED
  BY <1>1, IdleType, OneRequest, TypeParts

\* A request that begins.
LEMMA BeginType ==
  ASSUME TypeOK, NEW r \in Requests, NEW p \in Projects, NEW rec \in RequestStates,
         HoldsWhatItNeeds(rec), Begin(r, p, rec)
  PROVE  RequestType' /\ raced' \subseteq Projects /\ served' \in 0..MaxRequests
<1> DEFINE beside == InFlight(p)
           f(s) == IF s = r THEN [rec EXCEPT !.alone = (beside = {})]
                   ELSE IF s \in beside THEN [requests[s] EXCEPT !.alone = FALSE]
                   ELSE requests[s]
<1>1. ASSUME NEW q \in RequestStates, HoldsWhatItNeeds(q), NEW b \in BOOLEAN
      PROVE  [q EXCEPT !.alone = b] \in RequestStates /\ HoldsWhatItNeeds([q EXCEPT !.alone = b])
  BY <1>1 DEF RequestStates, HoldsWhatItNeeds
<1>2. (beside = {}) \in BOOLEAN
  OBVIOUS
<1>3. \A s \in Requests : f(s) \in RequestStates /\ HoldsWhatItNeeds(f(s))
  <2> TAKE s \in Requests
  <2> HIDE DEF beside
  <2>1. requests[s] \in RequestStates /\ HoldsWhatItNeeds(requests[s])
    BY DEF TypeOK
  <2>2. CASE s = r
    BY <2>2, <1>1, <1>2
  <2>3. CASE s # r
    BY <2>1, <2>3, <1>1
  <2> QED
    BY <2>2, <2>3
<1>4. requests' = [s \in Requests |-> f(s)]
  BY DEF Begin
<1>5. RequestType'
  <2> HIDE DEF f
  <2> QED
    BY <1>3, <1>4 DEF RequestType
<1>6. raced' \subseteq Projects /\ served' \in 0..MaxRequests
  BY DEF Begin, TypeOK
<1> QED
  BY <1>5, <1>6

\* A request that has committed.
LEMMA CommittedType ==
  ASSUME TypeOK, NEW r \in Requests, NEW pc \in {"refresh", "drop"}, NEW row,
         requests[r].pc # "idle", requests' = Committed(r, pc, row)
  PROVE  RequestType'
<1> DEFINE p == requests[r].project
           f(s) == LET q == requests[s]
                   IN IF s = r THEN [Idle EXCEPT !.pc = pc, !.project = p, !.alone = q.alone]
                      ELSE [q EXCEPT !.current = @ /\ ~Overtaken(q, p, row),
                                     !.replaced = @ \/ (row = NoBot /\ q.project = p)]
<1>1. ASSUME NEW s \in Requests
      PROVE  f(s) \in RequestStates /\ HoldsWhatItNeeds(f(s))
  <2>1. requests[s] \in RequestStates /\ HoldsWhatItNeeds(requests[s])
    BY DEF TypeOK
  <2>2. CASE s = r
    <3> DEFINE q == requests[r]
               i == [Idle EXCEPT !.pc = pc, !.project = p, !.alone = q.alone]
    <3>1. f(s) = i
      BY <2>2
    <3>2. p \in Projects /\ q.alone \in BOOLEAN
      BY <2>1, <2>2 DEF RequestStates, HoldsWhatItNeeds
    <3>3. i \in RequestStates
      <4> HIDE DEF p, q
      <4> QED
        BY <3>2, IdleType DEF RequestStates
    <3>4. HoldsWhatItNeeds(i)
      <4> HIDE DEF p, q
      <4> QED
        BY <3>2 DEF HoldsWhatItNeeds, Idle
    <3> QED
      BY <3>1, <3>3, <3>4
  <2>3. CASE s # r
    <3> DEFINE q == requests[s]
               b == q.current /\ ~Overtaken(q, p, row)
               c == q.replaced \/ (row = NoBot /\ q.project = p)
    <3>1. b \in BOOLEAN /\ c \in BOOLEAN
      BY <2>1 DEF RequestStates
    <3>2. f(s) = [q EXCEPT !.current = b, !.replaced = c]
      BY <2>3
    <3> HIDE DEF b, c, f
    <3> QED
      BY <2>1, <3>1, <3>2 DEF RequestStates, HoldsWhatItNeeds
  <2> QED
    BY <2>2, <2>3
<1>2. requests' = [s \in Requests |-> f(s)]
  BY DEF Committed
<1> HIDE DEF f
<1> QED
  BY <1>1, <1>2 DEF RequestType

\* Stopping and starting keep the supervisor well typed.
LEMMA SupervisorSteps ==
  ASSUME TypeOK, NEW p \in Projects,
         StopRuntime(p) \/ \E bot \in Bots : StartOne(p, bot)
  PROVE  SupervisorType'
<1>1. OwnerWithout(p) \in [Apps -> Projects \cup {NoOne}] /\ DesertedBy(p) \subseteq Projects
  BY DEF OwnerWithout, DesertedBy, TypeOK
<1>2. {"active", "inactive", "error"} \subseteq States
  BY DEF States
<1>3. CASE StopRuntime(p)
  BY <1>1, <1>2, <1>3 DEF StopRuntime, TypeOK, SupervisorType
<1>4. ASSUME NEW bot \in Bots, StartOne(p, bot)
      PROVE  SupervisorType'
  <2>1. bot.app \in Apps
    BY DEF Bots
  <2>2. CASE Share(p, bot)
    BY <1>2, <2>2 DEF Share, TypeOK, SupervisorType
  <2>3. CASE Connect(p, bot)
    BY <1>1, <1>2, <2>1, <2>3 DEF Connect, TypeOK, SupervisorType
  <2>4. CASE FailToConnect(p, bot)
    BY <1>1, <1>2, <2>1, <2>4 DEF FailToConnect, TypeOK, SupervisorType
  <2> QED
    BY <1>4, <2>2, <2>3, <2>4 DEF StartOne
<1> QED
  BY <1>3, <1>4

\* What a session holds stays well typed when the row changes.
LEMMA OutdatedType ==
  ASSUME TypeOK, NEW p \in Projects
  PROVE  Outdated(p) \in [Fetches -> FetchStates]
<1> SUFFICES ASSUME NEW f \in Fetches, fetches[f].project = p
             PROVE  [fetches[f] EXCEPT !.fresh = FALSE] \in FetchStates
  BY DEF Outdated, TypeOK
<1>1. fetches[f] \in FetchStates /\ fetches[f] # NoFetch
  BY DEF TypeOK, NoFetch
<1> QED
  BY <1>1 DEF FetchStates

\* Dropping a token keeps the cache well typed.
LEMMA InvalidateType ==
  ASSUME TypeOK, NEW p \in Projects, Invalidate(p), UNCHANGED fetches
  PROVE  CacheType'
BY DEF Invalidate, TypeOK, CacheType

\* Starting every connection again.
LEMMA StartAllType ==
  ASSUME TypeOK, StartAll, deserted' = {}
  PROVE  SupervisorType'
<1> DEFINE with == {p \in Projects : config[p] # NoBot}
<1>1. PICK connected \in SUBSET with :
        /\ clients' = [p \in Projects |-> IF p \in connected THEN config[p] ELSE NoBot]
        /\ owner' = [a \in Apps |->
             IF \E p \in connected : config[p].app = a
             THEN CHOOSE p \in connected : config[p].app = a ELSE NoOne]
        /\ \E failed \in SUBSET (with \ connected) :
             /\ \A p \in with \ (connected \cup failed) :
                  \E q \in connected : config[q].app = config[p].app
             /\ states' = [p \in Projects |->
                  IF p \notin with THEN "inactive"
                  ELSE IF p \in failed THEN "error" ELSE "active"]
  BY DEF StartAll
<1>2. ASSUME NEW a \in Apps, \E p \in connected : config[p].app = a
      PROVE  (CHOOSE p \in connected : config[p].app = a) \in Projects
  BY <1>2
<1>3. owner' \in [Apps -> Projects \cup {NoOne}]
  BY <1>1, <1>2
<1>4. states' \in [Projects -> States]
  BY <1>1 DEF States
<1> QED
  BY <1>1, <1>3, <1>4 DEF SupervisorType, TypeOK

\* The bots that a save may write.
LEMMA WrittenType ==
  ASSUME TypeOK, NEW r \in Requests, requests[r].pc = "save"
  PROVE  Written(r) \subseteq Bots
<1>1. /\ requests[r] \in RequestStates /\ HoldsWhatItNeeds(requests[r])
      /\ config[requests[r].project] \in Bots \cup {NoBot}
  BY DEF TypeOK, HoldsWhatItNeeds
<1>2. requests[r].secret \in Secrets \/ requests[r].secret = "kept"
  BY <1>1 DEF RequestStates, Given
<1> QED
  BY <1>1, <1>2 DEF Written, Bots, HoldsWhatItNeeds

LEMMA TypeInit == Init => TypeOK
<1> SUFFICES ASSUME Init PROVE TypeOK
  OBVIOUS
<1>1. RequestType
  BY IdleType DEF Init, RequestType
<1>2. CacheType
  BY DEF Init, CacheType, FetchStates
<1>3. SupervisorType
  BY DEF Init, SupervisorType, States
<1>4. RestType
  <2>1. served \in 0..MaxRequests /\ restarts \in 0..MaxRestarts
    BY DEF Init
  <2>2. unchecked \subseteq Projects
    BY DEF Init
  <2> QED
    BY <2>1, <2>2 DEF Init, RestType
<1> QED
  BY <1>1, <1>2, <1>3, <1>4, TypeParts

\* A save, from its reading to its reload.
LEMMA SaveTypes ==
  ASSUME TypeOK, NEW r \in Requests,
         \/ SaveChecks(r) \/ SaveCommits(r) \/ SaveFails(r)
         \/ SaveRefreshes(r) \/ RefreshFails(r)
         \/ \E p \in Projects, form \in Forms : SaveBegins(r, p, form)
  PROVE  TypeOK'
<1> USE TypeParts
<1>0. requests[r] \in RequestStates /\ HoldsWhatItNeeds(requests[r])
  BY DEF TypeOK
<1>1. CASE SaveCommits(r)
  <2> DEFINE p == requests[r].project
  <2>0. p \in Projects
    BY <1>0, <1>1 DEF SaveCommits, HoldsWhatItNeeds
  <2>1. RequestType'
    BY <1>1, CommittedType DEF SaveCommits
  <2>2. config' \in [Projects -> Bots \cup {NoBot}]
    BY <1>1, WrittenType DEF SaveCommits, TypeOK
  <2>3. fetches' \in [Fetches -> FetchStates]
    BY <1>1, <2>0, OutdatedType DEF SaveCommits, TypeOK
  <2>4. unchecked' \subseteq Projects
    BY <1>1, <2>0 DEF SaveCommits, TypeOK
  <2> QED
    BY <1>1, <2>1, <2>2, <2>3, <2>4
    DEF SaveCommits, RestType, CacheType, SupervisorType, supervisor
<1>2. CASE SaveFails(r) \/ RefreshFails(r)
  BY <1>2, EndType
  DEF SaveFails, RefreshFails, RestType, CacheType, SupervisorType, cache, supervisor
<1>3. CASE SaveRefreshes(r)
  <2> DEFINE p == requests[r].project
             q == [requests[r] EXCEPT !.pc = "reload", !.bot = config[p], !.replaced = FALSE]
  <2>1. p \in Projects /\ config[p] \in Bots
    BY <1>0, <1>3 DEF SaveRefreshes, HoldsWhatItNeeds, TypeOK
  <2>2. q \in RequestStates /\ HoldsWhatItNeeds(q)
    BY <1>0, <2>1 DEF RequestStates, HoldsWhatItNeeds
  <2>3. requests' = [requests EXCEPT ![r] = q]
    BY <1>3 DEF SaveRefreshes, TypeOK
  <2>4. RequestType'
    <3> HIDE DEF q
    <3> QED
      BY <2>2, <2>3, OneRequest
  <2>5. CacheType'
    BY <1>3, <2>1, InvalidateType DEF SaveRefreshes
  <2> QED
    BY <1>3, <2>4, <2>5 DEF SaveRefreshes, RestType, SupervisorType, supervisor
<1>4. ASSUME NEW p \in Projects, NEW form \in Forms, SaveBegins(r, p, form)
      PROVE  TypeOK'
  <2> DEFINE q == [Idle EXCEPT !.pc = "check", !.project = p, !.bot = config[p],
                               !.app = form.app, !.secret = form.secret]
  <2>1. form.app \in Apps /\ form.secret \in Given /\ config[p] \in Bots \cup {NoBot}
    BY DEF TypeOK
  <2>2. config[p] = NoBot => form.secret \in Secrets
    BY <1>4, <2>1 DEF SaveBegins, Given
  <2>3. q \in RequestStates /\ HoldsWhatItNeeds(q)
    BY <2>1, <2>2, IdleType DEF RequestStates, HoldsWhatItNeeds, Idle
  <2>4. Begin(r, p, q)
    BY <1>4 DEF SaveBegins
  <2>5. RequestType' /\ raced' \subseteq Projects /\ served' \in 0..MaxRequests
    <3> HIDE DEF q
    <3> QED
      BY <2>3, <2>4, BeginType
  <2> QED
    BY <1>4, <2>5
    DEF SaveBegins, RestType, CacheType, SupervisorType, cache, supervisor
<1>5. CASE SaveChecks(r)
  <2>1. RequestType'
    BY <1>5, GotoType DEF SaveChecks
  <2> QED
    BY <1>5, <2>1
    DEF SaveChecks, RestType, CacheType, SupervisorType, cache, supervisor
<1> QED
  BY <1>1, <1>2, <1>3, <1>4, <1>5

\* A reload.
LEMMA ReloadTypes ==
  ASSUME TypeOK, NEW r \in Requests,
         ReloadStops(r) \/ ReloadReads(r) \/ ReloadFindsNothing(r) \/ ReloadStarts(r)
  PROVE  TypeOK'
<1> USE TypeParts
<1> DEFINE p == requests[r].project
<1>0. /\ requests[r] \in RequestStates /\ HoldsWhatItNeeds(requests[r])
      /\ p \in Projects /\ requests[r].bot \in Bots \cup {NoBot}
  BY DEF TypeOK, HoldsWhatItNeeds, RequestStates, ReloadStops, ReloadReads, ReloadFindsNothing,
         ReloadStarts
<1>1. CASE ReloadStops(r)
  <2>1. RequestType'
    BY <1>1, GotoType DEF ReloadStops
  <2>2. SupervisorType'
    BY <1>0, <1>1, SupervisorSteps DEF ReloadStops
  <2> QED
    BY <1>0, <1>1, <2>1, <2>2 DEF ReloadStops, RestType, CacheType, cache
<1>2. CASE ReloadReads(r)
  <2>1. PICK bot \in Bots : requests' = [requests EXCEPT ![r].pc = "start", ![r].bot = bot]
    BY <1>0, <1>2 DEF ReloadReads, HoldsWhatItNeeds, TypeOK
  <2> DEFINE q == [requests[r] EXCEPT !.pc = "start", !.bot = bot]
  <2>2. q \in RequestStates /\ HoldsWhatItNeeds(q)
    BY <1>0 DEF RequestStates, HoldsWhatItNeeds
  <2>3. requests' = [requests EXCEPT ![r] = q]
    BY <2>1 DEF TypeOK
  <2>4. RequestType'
    <3> HIDE DEF q
    <3> QED
      BY <2>2, <2>3, OneRequest
  <2> QED
    BY <1>2, <2>4 DEF ReloadReads, RestType, CacheType, SupervisorType, cache, supervisor
<1>3. CASE ReloadFindsNothing(r)
  BY <1>0, <1>3, EndType
  DEF ReloadFindsNothing, RestType, CacheType, SupervisorType, cache, supervisor
<1>4. CASE ReloadStarts(r)
  <2>1. requests[r].bot \in Bots
    BY <1>0, <1>4 DEF ReloadStarts, HoldsWhatItNeeds
  <2>2. SupervisorType'
    BY <1>0, <1>4, <2>1, SupervisorSteps DEF ReloadStarts
  <2>3. CacheType'
    BY <1>0, <1>4, InvalidateType DEF ReloadStarts
  <2> QED
    BY <1>0, <1>4, <2>2, <2>3, EndType DEF ReloadStarts, RestType
<1> QED
  BY <1>1, <1>2, <1>3, <1>4

\* A deletion.
LEMMA DeleteTypes ==
  ASSUME TypeOK, NEW r \in Requests,
         \/ DeleteCommits(r) \/ DeleteFails(r) \/ DeleteDrops(r) \/ DeleteStops(r)
         \/ \E p \in Projects : DeleteBegins(r, p)
  PROVE  TypeOK'
<1> USE TypeParts
<1>0. requests[r] \in RequestStates /\ HoldsWhatItNeeds(requests[r])
  BY DEF TypeOK
<1>1. CASE DeleteCommits(r)
  <2>1. requests[r].pc = "delete" /\ requests[r].project \in Projects
    BY <1>0, <1>1 DEF DeleteCommits, HoldsWhatItNeeds
  <2>2. RequestType' /\ config' \in [Projects -> Bots \cup {NoBot}]
    BY <1>1, <2>1, CommittedType, GotoType DEF DeleteCommits, RestType
  <2>3. fetches' \in [Fetches -> FetchStates]
    BY <1>1, <2>1, OutdatedType DEF DeleteCommits, TypeOK
  <2>4. unchecked' \subseteq Projects
    BY <1>1 DEF DeleteCommits, TypeOK
  <2> QED
    BY <1>1, <2>2, <2>3, <2>4
    DEF DeleteCommits, RestType, CacheType, SupervisorType, supervisor
<1>2. CASE DeleteStops(r)
  <2>1. SupervisorType'
    BY <1>0, <1>2, SupervisorSteps DEF DeleteStops, HoldsWhatItNeeds
  <2> QED
    BY <1>2, <2>1, EndType DEF DeleteStops, RestType, CacheType, cache
<1>3. ASSUME NEW p \in Projects, DeleteBegins(r, p)
      PROVE  TypeOK'
  <2> DEFINE q == [Idle EXCEPT !.pc = IF config[p] = NoBot THEN "drop" ELSE "delete",
                               !.project = p]
  <2>1. q \in RequestStates /\ HoldsWhatItNeeds(q)
    BY IdleType DEF RequestStates, HoldsWhatItNeeds, Idle
  <2>2. Begin(r, p, q)
    BY <1>3 DEF DeleteBegins
  <2>3. RequestType' /\ raced' \subseteq Projects /\ served' \in 0..MaxRequests
    <3> HIDE DEF q
    <3> QED
      BY <2>1, <2>2, BeginType
  <2> QED
    BY <1>3, <2>3
    DEF DeleteBegins, RestType, CacheType, SupervisorType, cache, supervisor
<1>4. CASE DeleteFails(r)
  BY <1>4, EndType DEF DeleteFails, RestType, CacheType, SupervisorType, cache, supervisor
<1>5. CASE DeleteDrops(r)
  <2>1. requests[r].project \in Projects
    BY <1>0, <1>5 DEF DeleteDrops, HoldsWhatItNeeds
  <2>2. RequestType'
    BY <1>5, GotoType DEF DeleteDrops
  <2>3. CacheType'
    BY <1>5, <2>1, InvalidateType DEF DeleteDrops
  <2> QED
    BY <1>5, <2>2, <2>3 DEF DeleteDrops, RestType, SupervisorType, supervisor
<1> QED
  BY <1>1, <1>2, <1>3, <1>4, <1>5

\* Tokens, and the restart.
LEMMA OtherTypes ==
  ASSUME TypeOK,
         \/ \E f \in Fetches, p \in Projects : DispatchLoads(f, p)
         \/ \E f \in Fetches : FetchBegins(f) \/ FetchEnds(f) \/ DispatchEnds(f)
         \/ \E p \in Projects : TokenExpires(p)
         \/ Restart
  PROVE  TypeOK'
<1> USE TypeParts
<1>1. ASSUME NEW f \in Fetches, NEW p \in Projects, DispatchLoads(f, p)
      PROVE  TypeOK'
  <2>1. [pc |-> "loaded", project |-> p, bot |-> config[p], fresh |-> TRUE] \in FetchStates
    BY <1>1 DEF DispatchLoads, FetchStates, TypeOK
  <2>2. CacheType'
    BY <1>1, <2>1 DEF DispatchLoads, CacheType
  <2> QED
    BY <1>1, <2>2
    DEF DispatchLoads, RestType, SupervisorType, RequestType, supervisor
<1>2. ASSUME NEW f \in Fetches, FetchBegins(f)
      PROVE  TypeOK'
  <2> DEFINE q == fetches[f]
             now == [q EXCEPT !.bot = config[q.project], !.fresh = TRUE]
  <2>0. q \in FetchStates \ {NoFetch}
    <3>1. fetches[f].pc = "loaded"
      BY <1>2 DEF FetchBegins
    <3> QED
      BY <3>1 DEF NoFetch, TypeOK
  <2>1. q \in FetchStates \ {NoFetch} /\ config[q.project] \in Bots
    BY <1>2, <2>0 DEF FetchBegins, FetchStates, TypeOK
  <2>2. [q EXCEPT !.pc = "asked"] \in FetchStates /\ [now EXCEPT !.pc = "asked"] \in FetchStates
    BY <2>1 DEF FetchStates
  <2>3. CacheType'
    <3>1. \/ fetches' = [fetches EXCEPT ![f] = [q EXCEPT !.pc = "asked"]]
          \/ fetches' = [fetches EXCEPT ![f] = [now EXCEPT !.pc = "asked"]]
      BY <1>2 DEF FetchBegins
    <3>2. UNCHANGED <<tokens, late>>
      BY <1>2 DEF FetchBegins
    <3> HIDE DEF q, now
    <3> QED
      BY <2>2, <3>1, <3>2 DEF CacheType
  <2> QED
    BY <1>2, <2>3 DEF FetchBegins, RestType, SupervisorType, RequestType, supervisor
<1>3. ASSUME NEW f \in Fetches, FetchEnds(f)
      PROVE  TypeOK'
  <2>1. fetches[f] \in FetchStates \ {NoFetch}
    BY <1>3 DEF FetchEnds, NoFetch, TypeOK
  <2>2. /\ fetches[f].project \in Projects /\ fetches[f].bot \in Bots
        /\ [fetches[f] EXCEPT !.pc = "loaded"] \in FetchStates
    BY <2>1 DEF FetchStates
  <2>3. fetches' = [fetches EXCEPT ![f] = [fetches[f] EXCEPT !.pc = "loaded"]]
    BY <1>3 DEF FetchEnds
  <2>4. CacheType'
    BY <1>3, <2>2, <2>3 DEF FetchEnds, CacheType
  <2> QED
    BY <1>3, <2>4 DEF FetchEnds, RestType, SupervisorType, RequestType, supervisor
<1>6. ASSUME NEW f \in Fetches, DispatchEnds(f)
      PROVE  TypeOK'
  BY <1>6
  DEF DispatchEnds, CacheType, FetchStates, RestType, SupervisorType, RequestType, supervisor
<1>4. ASSUME NEW p \in Projects, TokenExpires(p)
      PROVE  TypeOK'
  BY <1>4, InvalidateType DEF TokenExpires, RestType, SupervisorType, RequestType, supervisor
<1>5. CASE Restart
  <2>1. SupervisorType'
    BY <1>5, StartAllType DEF Restart
  <2>2. RequestType'
    BY <1>5, IdleType DEF Restart, RequestType
  <2>3. CacheType'
    BY <1>5 DEF Restart, CacheType, FetchStates
  <2> QED
    BY <1>5, <2>1, <2>2, <2>3 DEF Restart, RestType
<1> QED
  BY <1>1, <1>2, <1>3, <1>4, <1>5, <1>6

LEMMA TypeStep == TypeOK /\ [Next]_vars => TypeOK'
<1> SUFFICES ASSUME TypeOK, [Next]_vars PROVE TypeOK'
  OBVIOUS
<1>1. CASE UNCHANGED vars
  BY <1>1 DEF vars, supervisor, cache, TypeOK
<1>2. CASE Next
  BY <1>2, SaveTypes, ReloadTypes, DeleteTypes, OtherTypes DEF Next, Proceed
<1> QED
  BY <1>1, <1>2

\* Every reachable state is well typed: a request holds what its step needs, and an
\* app id is owned by a project or by nobody.
THEOREM TypeCorrect == Spec => []TypeOK
BY TypeInit, TypeStep, PTL DEF Spec

-----------------------------------------------------------------------------
(* Connections and owners *)

\* Closing a connection takes its app id from its owner and from nobody else.
LEMMA OwnerWithoutIs ==
  ASSUME TypeOK, OwnersAreConnected, NEW p \in Projects
  PROVE  /\ OwnerWithout(p) \in [Apps -> Projects \cup {NoOne}]
         /\ \A a \in Apps : OwnerWithout(p)[a] = IF owner[a] = p THEN NoOne ELSE owner[a]
<1>1. CASE clients[p] = NoBot
  BY <1>1 DEF OwnerWithout, OwnersAreConnected, TypeOK
<1>2. CASE clients[p] # NoBot
  <2>1. clients[p].app \in Apps
    BY <1>2 DEF TypeOK, Bots
  <2> QED
    BY <1>2, <2>1 DEF OwnerWithout, OwnersAreConnected, TypeOK
<1> QED
  BY <1>1, <1>2

\* A stopped project owns nothing.
LEMMA StopKeepsOwners ==
  ASSUME TypeOK, OwnersAreConnected, NEW p \in Projects, StopRuntime(p)
  PROVE  OwnersAreConnected'
BY OwnerWithoutIs DEF StopRuntime, OwnersAreConnected, TypeOK

\* Sharing changes no owner, connecting makes one, and failing takes one away.
LEMMA StartKeepsOwners ==
  ASSUME TypeOK, OwnersAreConnected, NEW p \in Projects, NEW bot \in Bots, StartOne(p, bot)
  PROVE  OwnersAreConnected'
<1>0. bot.app \in Apps /\ bot # NoBot
  BY DEF Bots
<1>1. CASE Share(p, bot)
  BY <1>1 DEF Share, OwnersAreConnected
<1>2. CASE Connect(p, bot)
  <2> SUFFICES ASSUME NEW q \in Projects, NEW a \in Apps
               PROVE  owner'[a] = q <=> clients'[q] # NoBot /\ clients'[q].app = a
    BY DEF OwnersAreConnected
  <2>1. owner'[a] = IF a = bot.app THEN p ELSE OwnerWithout(p)[a]
    BY <1>0, <1>2, OwnerWithoutIs DEF Connect
  <2>2. clients'[q] = IF q = p THEN bot ELSE clients[q]
    BY <1>2 DEF Connect, TypeOK
  <2>3. owner[a] = q <=> clients[q] # NoBot /\ clients[q].app = a
    BY DEF OwnersAreConnected
  <2>4. OwnerWithout(p)[a] = IF owner[a] = p THEN NoOne ELSE owner[a]
    BY OwnerWithoutIs
  <2>5. owner[bot.app] \in {NoOne, p}
    BY <1>2 DEF Connect
  <2> QED
    BY <1>0, <2>1, <2>2, <2>3, <2>4, <2>5
<1>3. CASE FailToConnect(p, bot)
  BY <1>3, OwnerWithoutIs DEF FailToConnect, OwnersAreConnected, TypeOK
<1> QED
  BY <1>1, <1>2, <1>3 DEF StartOne

\* After a start of everything, those who connected own the app ids.
LEMMA StartAllKeepsOwners ==
  ASSUME TypeOK, StartAll
  PROVE  OwnersAreConnected'
<1> DEFINE with == {p \in Projects : config[p] # NoBot}
           served0(connected, a) == CHOOSE p \in connected : config[p].app = a
<1>1. PICK connected \in SUBSET with :
        /\ \A p, q \in connected : p # q => config[p].app # config[q].app
        /\ clients' = [p \in Projects |-> IF p \in connected THEN config[p] ELSE NoBot]
        /\ owner' = [a \in Apps |->
             IF \E p \in connected : config[p].app = a THEN served0(connected, a) ELSE NoOne]
        /\ \E failed \in SUBSET (with \ connected) :
             /\ \A p \in with \ (connected \cup failed) :
                  \E q \in connected : config[q].app = config[p].app
             /\ states' = [p \in Projects |->
                  IF p \notin with THEN "inactive"
                  ELSE IF p \in failed THEN "error" ELSE "active"]
  BY DEF StartAll
<1> SUFFICES ASSUME NEW q \in Projects, NEW a \in Apps
             PROVE  owner'[a] = q <=> clients'[q] # NoBot /\ clients'[q].app = a
  BY DEF OwnersAreConnected
<1>2. clients'[q] = IF q \in connected THEN config[q] ELSE NoBot
  BY <1>1
<1>3. CASE \E p \in connected : config[p].app = a
  <2>1. served0(connected, a) \in connected /\ config[served0(connected, a)].app = a
    BY <1>3
  <2>2. owner'[a] = served0(connected, a)
    BY <1>1, <1>3
  <2> HIDE DEF served0
  <2>3. \A p \in connected : config[p].app = a => p = served0(connected, a)
    BY <1>1, <2>1
  <2> QED
    BY <1>2, <2>1, <2>2, <2>3
<1>4. CASE ~ \E p \in connected : config[p].app = a
  <2>1. owner'[a] = NoOne
    BY <1>1, <1>4
  <2> QED
    BY <1>2, <1>4, <2>1
<1> QED
  BY <1>3, <1>4

LEMMA OwnersInit == Init => OwnersAreConnected
BY DEF Init, OwnersAreConnected

LEMMA OwnersStep == TypeOK /\ OwnersAreConnected /\ [Next]_vars => OwnersAreConnected'
<1> SUFFICES ASSUME TypeOK, OwnersAreConnected, [Next]_vars PROVE OwnersAreConnected'
  OBVIOUS
<1>1. ASSUME NEW r \in Requests, ReloadStops(r) \/ DeleteStops(r)
      PROVE  OwnersAreConnected'
  <2>1. requests[r].project \in Projects
    BY <1>1 DEF ReloadStops, DeleteStops, TypeOK, HoldsWhatItNeeds
  <2> QED
    BY <1>1, <2>1, StopKeepsOwners DEF ReloadStops, DeleteStops
<1>2. ASSUME NEW r \in Requests, ReloadStarts(r)
      PROVE  OwnersAreConnected'
  <2>1. requests[r].project \in Projects /\ requests[r].bot \in Bots
    BY <1>2 DEF ReloadStarts, TypeOK, HoldsWhatItNeeds
  <2> QED
    BY <1>2, <2>1, StartKeepsOwners DEF ReloadStarts
<1>3. CASE Restart
  BY <1>3, StartAllKeepsOwners DEF Restart
<1>4. CASE UNCHANGED supervisor
  BY <1>4 DEF supervisor, OwnersAreConnected
<1>5. ASSUME NEW r \in Requests,
             \/ SaveChecks(r) \/ SaveCommits(r) \/ SaveFails(r)
             \/ SaveRefreshes(r) \/ RefreshFails(r)
             \/ ReloadReads(r) \/ ReloadFindsNothing(r)
             \/ DeleteCommits(r) \/ DeleteFails(r) \/ DeleteDrops(r)
             \/ \E p \in Projects :
                  DeleteBegins(r, p) \/ \E form \in Forms : SaveBegins(r, p, form)
      PROVE  UNCHANGED supervisor
  BY <1>5 DEF SaveChecks, SaveCommits, SaveFails, SaveRefreshes, RefreshFails, ReloadReads,
              ReloadFindsNothing, DeleteCommits, DeleteFails, DeleteDrops, DeleteBegins,
              SaveBegins
<1>6. ASSUME \/ \E f \in Fetches, p \in Projects : DispatchLoads(f, p)
             \/ \E f \in Fetches : FetchBegins(f) \/ FetchEnds(f) \/ DispatchEnds(f)
             \/ \E p \in Projects : TokenExpires(p)
      PROVE  UNCHANGED supervisor
  BY <1>6 DEF DispatchLoads, FetchBegins, FetchEnds, DispatchEnds, TokenExpires
<1>7. CASE UNCHANGED vars
  BY <1>4, <1>7 DEF vars
<1> QED
  BY <1>1, <1>2, <1>3, <1>4, <1>5, <1>6, <1>7 DEF Next, Proceed

\* Whatever saves and deletions overlap, connections are refused or the server
\* restarts: app ids are owned by the projects connected with them, so no app id ever
\* has two connections.
THEOREM OneConnectionPerApp == Spec => []OwnersAreConnected
BY TypeInit, TypeStep, OwnersInit, OwnersStep, PTL DEF Spec

-----------------------------------------------------------------------------
(* Tokens *)

\* Request r has yet to drop the token of p, and will: its row was not deleted since.
WillDrop(r, p) ==
  /\ requests[r].project = p
  /\ requests[r].pc = "drop" \/ (requests[r].pc = "refresh" /\ ~requests[r].replaced)

\* TokensFollowConfig, without the requests whose refresh may fail: they drop nothing,
\* but the deletion that makes them fail drops the token.
Dropped(p) ==
  \/ tokens[p] \in {NoBot, config[p]} \/ p \in late
  \/ \E r \in Requests : WillDrop(r, p)

\* A command whose row did not change since it was loaded holds the row as it is.
FreshRows ==
  \A f \in Fetches : fetches[f] # NoFetch /\ fetches[f].fresh
                    => fetches[f].bot = config[fetches[f].project]

TokensInOrder == \A p \in Projects : Dropped(p)

LEMMA TokensImplied == TypeOK /\ TokensInOrder => TokensFollowConfig
BY DEF TokensInOrder, Dropped, WillDrop, TokensFollowConfig, InFlight

\* A project whose row and token a step leaves alone stays in order if those who will
\* drop its token stay where they are.
LEMMA OthersInOrder ==
  ASSUME TokensInOrder, NEW p \in Projects,
         tokens'[p] = tokens[p], config'[p] = config[p], p \in late => p \in late',
         \A r \in Requests : WillDrop(r, p) => WillDrop(r, p)'
  PROVE  Dropped(p)'
<1>1. Dropped(p)
  BY DEF TokensInOrder
<1>2. CASE \E r \in Requests : WillDrop(r, p)
  <2>1. PICK r \in Requests : WillDrop(r, p)
    BY <1>2
  <2>2. WillDrop(r, p)'
    BY <2>1
  <2> QED
    BY <2>2 DEF Dropped
<1>3. CASE tokens[p] \in {NoBot, config[p]} \/ p \in late
  BY <1>3 DEF Dropped
<1> QED
  BY <1>1, <1>2, <1>3 DEF Dropped

\* A project whose token a step drops is in order.
LEMMA InvalidatedInOrder ==
  ASSUME TypeOK, NEW p \in Projects, Invalidate(p)
  PROVE  /\ Dropped(p)'
         /\ \A q \in Projects \ {p} : tokens'[q] = tokens[q] /\ (q \in late => q \in late')
BY DEF Invalidate, Dropped, TypeOK

\* A step that moves only one request, which is not about to drop a token or is done
\* with it, keeps those who will.
LEMMA MovesKeepWillDrop ==
  ASSUME TypeOK, NEW r \in Requests, NEW p \in Projects, ~WillDrop(r, p),
         \A s \in Requests \ {r} : requests'[s] = requests[s]
  PROVE  \A s \in Requests : WillDrop(s, p) => WillDrop(s, p)'
BY DEF WillDrop

\* So does a commit, but for the project whose row it deletes.
LEMMA CommitsKeepWillDrop ==
  ASSUME TypeOK, NEW r \in Requests, NEW p \in Projects, NEW pc, NEW row,
         requests[r].pc \in {"save", "delete"}, row = NoBot => p # requests[r].project,
         requests' = Committed(r, pc, row)
  PROVE  \A s \in Requests : WillDrop(s, p) => WillDrop(s, p)'
<1> SUFFICES ASSUME NEW s \in Requests, WillDrop(s, p)
             PROVE  WillDrop(s, p)'
  OBVIOUS
<1>1. s # r
  BY DEF WillDrop
<1>2. requests'[s] = [requests[s] EXCEPT
        !.current = @ /\ ~Overtaken(requests[s], requests[r].project, row),
        !.replaced = @ \/ (row = NoBot /\ requests[s].project = requests[r].project)]
  BY <1>1 DEF Committed
<1>3. requests[s] \in RequestStates
  BY DEF TypeOK
<1>4. /\ requests'[s].pc = requests[s].pc /\ requests'[s].project = requests[s].project
      /\ requests'[s].replaced
           = (requests[s].replaced \/ (row = NoBot /\ requests[s].project = requests[r].project))
  BY <1>2, <1>3 DEF RequestStates
<1> QED
  BY <1>4 DEF WillDrop

\* And the beginning of a request.
LEMMA BeginsKeepWillDrop ==
  ASSUME TypeOK, NEW r \in Requests, NEW p \in Projects, NEW q \in Projects, NEW rec,
         Begin(r, q, rec)
  PROVE  \A s \in Requests : WillDrop(s, p) => WillDrop(s, p)'
<1> SUFFICES ASSUME NEW s \in Requests, WillDrop(s, p)
             PROVE  WillDrop(s, p)'
  OBVIOUS
<1>1. s # r /\ requests[s] \in RequestStates
  BY DEF WillDrop, Begin, TypeOK
<1>2. requests'[s] \in {requests[s], [requests[s] EXCEPT !.alone = FALSE]}
  BY <1>1 DEF Begin
<1>3. /\ requests'[s].pc = requests[s].pc /\ requests'[s].project = requests[s].project
      /\ requests'[s].replaced = requests[s].replaced
  BY <1>1, <1>2 DEF RequestStates
<1> QED
  BY <1>3 DEF WillDrop

LEMMA TokensInit == Init => TokensInOrder /\ FreshRows
BY DEF Init, TokensInOrder, Dropped, FreshRows

\* When the row of p changes, those who have loaded it hold an old one.
LEMMA ChangeKeepsFresh ==
  ASSUME TypeOK, FreshRows, NEW p \in Projects, fetches' = Outdated(p),
         \A q \in Projects \ {p} : config'[q] = config[q]
  PROVE  FreshRows'
<1> SUFFICES ASSUME NEW f \in Fetches, fetches'[f] # NoFetch, fetches'[f].fresh
             PROVE  fetches'[f].bot = config'[fetches'[f].project]
  BY DEF FreshRows
<1>1. fetches[f] \in FetchStates
  BY DEF TypeOK
<1>2. fetches[f].project # p
  <2> SUFFICES ASSUME fetches[f].project = p PROVE FALSE
    OBVIOUS
  <2>1. fetches'[f] = [fetches[f] EXCEPT !.fresh = FALSE]
    BY DEF Outdated
  <2> QED
    BY <1>1, <2>1 DEF FetchStates, NoFetch
<1>3. fetches'[f] = fetches[f]
  BY <1>2 DEF Outdated
<1>4. fetches[f].project \in Projects \ {p}
  BY <1>1, <1>2, <1>3 DEF FetchStates
<1> QED
  BY <1>3, <1>4 DEF FreshRows

LEMMA FreshStep == TypeOK /\ FreshRows /\ [Next]_vars => FreshRows'
<1> SUFFICES ASSUME TypeOK, FreshRows, [Next]_vars PROVE FreshRows'
  OBVIOUS
<1>1. ASSUME NEW r \in Requests, SaveCommits(r)
      PROVE  FreshRows'
  <2> DEFINE p == requests[r].project
  <2>1. p \in Projects
    BY <1>1 DEF SaveCommits, TypeOK, HoldsWhatItNeeds
  <2>2. PICK row : /\ config' = [config EXCEPT ![p] = row]
                   /\ fetches' = IF row = config[p] THEN fetches ELSE Outdated(p)
    BY <1>1 DEF SaveCommits
  <2>3. \A q \in Projects \ {p} : config'[q] = config[q]
    BY <2>1, <2>2 DEF TypeOK
  <2>4. CASE row = config[p]
    <3>1. config' = config /\ fetches' = fetches
      BY <2>1, <2>2, <2>4 DEF TypeOK
    <3> QED
      BY <3>1 DEF FreshRows
  <2>5. CASE row # config[p]
    BY <2>1, <2>2, <2>3, <2>5, ChangeKeepsFresh
  <2> QED
    BY <2>4, <2>5
<1>2. ASSUME NEW r \in Requests, DeleteCommits(r)
      PROVE  FreshRows'
  <2> DEFINE p == requests[r].project
  <2>1. p \in Projects
    BY <1>2 DEF DeleteCommits, TypeOK, HoldsWhatItNeeds
  <2>2. CASE config' = [config EXCEPT ![p] = NoBot] /\ fetches' = Outdated(p)
    <3>1. \A q \in Projects \ {p} : config'[q] = config[q]
      BY <2>1, <2>2 DEF TypeOK
    <3> QED
      BY <2>1, <2>2, <3>1, ChangeKeepsFresh
  <2>3. CASE UNCHANGED <<config, fetches>>
    BY <2>3 DEF FreshRows
  <2> QED
    BY <1>2, <2>2, <2>3 DEF DeleteCommits
<1>3. ASSUME NEW f \in Fetches, NEW p \in Projects, DispatchLoads(f, p)
      PROVE  FreshRows'
  <2>1. /\ config' = config
        /\ fetches' = [fetches EXCEPT
             ![f] = [pc |-> "loaded", project |-> p, bot |-> config[p], fresh |-> TRUE]]
    BY <1>3 DEF DispatchLoads
  <2> QED
    BY <2>1 DEF FreshRows, TypeOK
<1>4. ASSUME NEW f \in Fetches, FetchBegins(f)
      PROVE  FreshRows'
  <2> DEFINE q == fetches[f]
  <2>1. q \in FetchStates \ {NoFetch} /\ config' = config
    BY <1>4 DEF FetchBegins, NoFetch, TypeOK
  <2>2. PICK read \in {q, [q EXCEPT !.bot = config[q.project], !.fresh = TRUE]} :
          fetches' = [fetches EXCEPT ![f] = [read EXCEPT !.pc = "asked"]]
    BY <1>4 DEF FetchBegins
  <2>3. /\ fetches'[f] = [read EXCEPT !.pc = "asked"]
        /\ \A g \in Fetches \ {f} : fetches'[g] = fetches[g]
    BY <2>2 DEF TypeOK
  <2>4. fetches'[f].fresh => fetches'[f].bot = config[fetches'[f].project]
    <3>1. CASE read = q
      <4>1. /\ fetches'[f].fresh = q.fresh /\ fetches'[f].bot = q.bot
            /\ fetches'[f].project = q.project
        BY <2>1, <2>3, <3>1 DEF FetchStates
      <4> QED
        BY <2>1, <4>1 DEF FreshRows
    <3>2. CASE read = [q EXCEPT !.bot = config[q.project], !.fresh = TRUE]
      BY <2>1, <2>3, <3>2 DEF FetchStates
    <3> QED
      BY <2>2, <3>1, <3>2
  <2> QED
    BY <2>1, <2>3, <2>4 DEF FreshRows
<1>5. ASSUME NEW f \in Fetches, FetchEnds(f)
      PROVE  FreshRows'
  <2>1. fetches[f] \in FetchStates \ {NoFetch} /\ config' = config
    BY <1>5 DEF FetchEnds, NoFetch, TypeOK
  <2>2. /\ fetches'[f] = [fetches[f] EXCEPT !.pc = "loaded"]
        /\ \A g \in Fetches \ {f} : fetches'[g] = fetches[g]
    BY <1>5 DEF FetchEnds, TypeOK
  <2>3. /\ fetches'[f].fresh = fetches[f].fresh /\ fetches'[f].bot = fetches[f].bot
        /\ fetches'[f].project = fetches[f].project
    BY <2>1, <2>2 DEF FetchStates
  <2> QED
    BY <2>1, <2>2, <2>3 DEF FreshRows
<1>6. ASSUME NEW f \in Fetches, DispatchEnds(f)
      PROVE  FreshRows'
  BY <1>6 DEF DispatchEnds, FreshRows, TypeOK
<1>7. CASE Restart
  BY <1>7 DEF Restart, FreshRows
<1>8. CASE UNCHANGED <<config, fetches>>
  BY <1>8 DEF FreshRows
<1>9. ASSUME \/ \E r \in Requests :
                  \/ SaveChecks(r) \/ SaveFails(r) \/ SaveRefreshes(r) \/ RefreshFails(r)
                  \/ ReloadStops(r) \/ ReloadReads(r) \/ ReloadFindsNothing(r)
                  \/ ReloadStarts(r) \/ DeleteFails(r) \/ DeleteDrops(r) \/ DeleteStops(r)
             \/ \E r \in Requests, p \in Projects :
                  DeleteBegins(r, p) \/ \E form \in Forms : SaveBegins(r, p, form)
             \/ \E p \in Projects : TokenExpires(p)
             \/ UNCHANGED vars
      PROVE  UNCHANGED <<config, fetches>>
  BY <1>9 DEF SaveChecks, SaveFails, SaveRefreshes, RefreshFails, ReloadStops, ReloadReads,
              ReloadFindsNothing, ReloadStarts, DeleteFails, DeleteDrops, DeleteStops,
              DeleteBegins, SaveBegins, TokenExpires, vars, cache
<1> QED
  BY <1>1, <1>2, <1>3, <1>4, <1>5, <1>6, <1>7, <1>8, <1>9 DEF Next, Proceed

LEMMA TokensStep == TypeOK /\ FreshRows /\ TokensInOrder /\ [Next]_vars => TokensInOrder'
<1> SUFFICES ASSUME TypeOK, FreshRows, TokensInOrder, [Next]_vars, NEW p \in Projects
             PROVE  Dropped(p)'
  BY DEF TokensInOrder
<1>1. ASSUME NEW r \in Requests, NEW q \in Projects, NEW form \in Forms,
             SaveBegins(r, q, form)
      PROVE  Dropped(p)'
  BY <1>1, OthersInOrder, BeginsKeepWillDrop DEF SaveBegins, cache
<1>2. ASSUME NEW r \in Requests, NEW q \in Projects, DeleteBegins(r, q)
      PROVE  Dropped(p)'
  BY <1>2, OthersInOrder, BeginsKeepWillDrop DEF DeleteBegins, cache
<1>3. ASSUME NEW r \in Requests, SaveCommits(r)
      PROVE  Dropped(p)'
  <2>1. requests[r].pc = "save" /\ requests[r] \in RequestStates
    BY <1>3 DEF SaveCommits, TypeOK
  <2>0. PICK row \in Written(r) : /\ requests' = Committed(r, "refresh", row)
                                 /\ config' = [config EXCEPT ![requests[r].project] = row]
    BY <1>3 DEF SaveCommits
  <2>4. row # NoBot
    BY <2>1, WrittenType
  <2>2. CASE p = requests[r].project
    <3>1. requests'[r] = [Idle EXCEPT !.pc = "refresh", !.project = requests[r].project,
                                      !.alone = requests[r].alone]
      BY <2>0 DEF Committed
    <3>2. WillDrop(r, p)'
      BY <2>2, <3>1 DEF WillDrop, Idle
    <3> QED
      BY <3>2 DEF Dropped
  <2>3. CASE p # requests[r].project
    <3>1. \A s \in Requests : WillDrop(s, p) => WillDrop(s, p)'
      BY <2>0, <2>1, <2>4, CommitsKeepWillDrop
    <3>2. config'[p] = config[p]
      BY <2>0, <2>3 DEF TypeOK
    <3> QED
      BY <1>3, <3>1, <3>2, OthersInOrder DEF SaveCommits
  <2> QED
    BY <2>2, <2>3
<1>4. ASSUME NEW r \in Requests, SaveRefreshes(r) \/ ReloadStarts(r) \/ DeleteDrops(r)
      PROVE  Dropped(p)'
  <2> DEFINE q == requests[r].project
  <2>1. q \in Projects /\ Invalidate(q)
    BY <1>4 DEF SaveRefreshes, ReloadStarts, DeleteDrops, TypeOK, HoldsWhatItNeeds
  <2>2. CASE p # q
    <3>1. ~WillDrop(r, p) /\ \A s \in Requests \ {r} : requests'[s] = requests[s]
      BY <1>4, <2>2 DEF WillDrop, SaveRefreshes, ReloadStarts, DeleteDrops, Goto, End, TypeOK
    <3>2. config' = config
      BY <1>4 DEF SaveRefreshes, ReloadStarts, DeleteDrops
    <3> QED
      BY <2>1, <2>2, <3>1, <3>2, InvalidatedInOrder, MovesKeepWillDrop, OthersInOrder
  <2> QED
    BY <2>1, <2>2, InvalidatedInOrder
<1>5. ASSUME NEW r \in Requests,
             \/ SaveChecks(r) \/ SaveFails(r) \/ RefreshFails(r) \/ ReloadStops(r)
             \/ ReloadReads(r) \/ ReloadFindsNothing(r) \/ DeleteFails(r) \/ DeleteStops(r)
      PROVE  Dropped(p)'
  <2>1. ~WillDrop(r, p)
    BY <1>5 DEF WillDrop, SaveChecks, SaveFails, RefreshFails, ReloadStops, ReloadReads,
                ReloadFindsNothing, DeleteFails, DeleteStops
  <2>2. \A s \in Requests \ {r} : requests'[s] = requests[s]
    BY <1>5 DEF SaveChecks, SaveFails, RefreshFails, ReloadStops, ReloadReads,
                ReloadFindsNothing, DeleteFails, DeleteStops, End, GiveUp, Goto, TypeOK
  <2>3. UNCHANGED <<config, tokens, late>>
    BY <1>5 DEF SaveChecks, SaveFails, RefreshFails, ReloadStops, ReloadReads,
                ReloadFindsNothing, DeleteFails, DeleteStops, cache
  <2> QED
    BY <2>1, <2>2, <2>3, MovesKeepWillDrop, OthersInOrder
<1>6. ASSUME NEW r \in Requests, DeleteCommits(r)
      PROVE  Dropped(p)'
  <2> DEFINE q == requests[r].project
  <2>1. requests[r].pc = "delete" /\ q \in Projects /\ UNCHANGED <<tokens, late>>
    BY <1>6 DEF DeleteCommits, TypeOK, HoldsWhatItNeeds
  <2>2. CASE /\ config' = [config EXCEPT ![q] = NoBot]
             /\ requests' = Committed(r, "drop", NoBot)
    <3>1. CASE p = q
      <4>1. requests'[r] = [Idle EXCEPT !.pc = "drop", !.project = q, !.alone = requests[r].alone]
        BY <2>2 DEF Committed
      <4>2. WillDrop(r, p)'
        BY <3>1, <4>1 DEF WillDrop, Idle
      <4> QED
        BY <4>2 DEF Dropped
    <3>2. CASE p # q
      <4>1. \A s \in Requests : WillDrop(s, p) => WillDrop(s, p)'
        BY <2>1, <2>2, <3>2, CommitsKeepWillDrop
      <4>2. config'[p] = config[p]
        BY <2>2, <3>2 DEF TypeOK
      <4> QED
        BY <2>1, <4>1, <4>2, OthersInOrder
    <3> QED
      BY <3>1, <3>2
  <2>3. CASE Goto(r, "drop") /\ UNCHANGED config
    <3>1. ~WillDrop(r, p) /\ \A s \in Requests \ {r} : requests'[s] = requests[s]
      BY <2>1, <2>3 DEF WillDrop, Goto, TypeOK
    <3> QED
      BY <2>1, <2>3, <3>1, MovesKeepWillDrop, OthersInOrder
  <2> QED
    BY <1>6, <2>2, <2>3 DEF DeleteCommits
<1>7. ASSUME NEW f \in Fetches, FetchEnds(f)
      PROVE  Dropped(p)'
  <2> DEFINE q == fetches[f].project
  <2>1. q \in Projects /\ fetches[f] # NoFetch
    BY <1>7 DEF FetchEnds, FetchStates, NoFetch, TypeOK
  <2>2. CASE p = q
    <3>1. tokens'[p] = fetches[f].bot /\ config' = config
      BY <1>7, <2>1, <2>2 DEF FetchEnds, TypeOK
    <3>2. CASE fetches[f].fresh
      BY <2>1, <2>2, <3>1, <3>2 DEF FreshRows, Dropped
    <3>3. CASE ~fetches[f].fresh
      BY <1>7, <2>2, <3>3 DEF FetchEnds, Dropped
    <3> QED
      BY <3>2, <3>3
  <2>3. CASE p # q
    <3>1. tokens'[p] = tokens[p] /\ (p \in late => p \in late')
      BY <1>7, <2>3 DEF FetchEnds, TypeOK
    <3>2. config' = config /\ requests' = requests
      BY <1>7 DEF FetchEnds
    <3> QED
      BY <3>1, <3>2, OthersInOrder DEF WillDrop
  <2> QED
    BY <2>2, <2>3
<1>8. ASSUME NEW q \in Projects, TokenExpires(q)
      PROVE  Dropped(p)'
  BY <1>8, InvalidatedInOrder, OthersInOrder DEF TokenExpires, WillDrop
<1>9. CASE Restart
  BY <1>9 DEF Restart, Dropped
<1>10. CASE UNCHANGED <<config, tokens, late, requests>>
  BY <1>10, OthersInOrder DEF WillDrop
<1>11. ASSUME \/ \E f \in Fetches, q \in Projects : DispatchLoads(f, q)
              \/ \E f \in Fetches : FetchBegins(f) \/ DispatchEnds(f)
              \/ UNCHANGED vars
       PROVE  UNCHANGED <<config, tokens, late, requests>>
  BY <1>11 DEF DispatchLoads, FetchBegins, DispatchEnds, vars, cache
<1> QED
  BY <1>1, <1>2, <1>3, <1>4, <1>5, <1>6, <1>7, <1>8, <1>9, <1>10, <1>11 DEF Next, Proceed

\* A cached token belongs to the configured bot, a request is about to drop it, or it
\* was asked for with a row that changed before it came: no save, failed refresh or
\* deletion leaves the token of the bot before it, however they overlap.
THEOREM TokensAreOfTheBot == Spec => []TokensFollowConfig
BY TypeInit, TypeStep, FreshStep, TokensInit, TokensStep, TokensImplied, PTL DEF Spec

-----------------------------------------------------------------------------
(* Shared secrets *)

\* What the secret of a save will be.
SecretOf(q) == IF q.secret = "kept" THEN q.bot.secret ELSE q.secret

\* A save that was not overtaken has read the row as it is, and once it has checked
\* its secret fits the rows as they are.
StillFits(q) ==
  q.current =>
    /\ q.pc \in {"check", "save"} => q.bot = config[q.project]
    /\ q.pc = "save" => SecretFits(q.project, q.app, SecretOf(q))

SecretsInOrder == SharedSecretsAgree /\ \A r \in Requests : StillFits(requests[r])

LEMMA SecretsImplied == SecretsInOrder => SharedSecretsAgree
BY DEF SecretsInOrder

\* What StillFits sees of a request.
SameSave(q1, q2) ==
  /\ q1.pc = q2.pc /\ q1.current = q2.current /\ q1.project = q2.project
  /\ q1.bot = q2.bot /\ q1.app = q2.app /\ q1.secret = q2.secret

\* Where the rows stay, the saves that do not move fit as before.
LEMMA FitsAsBefore ==
  ASSUME SecretsInOrder, UNCHANGED <<config, unchecked>>,
         \A r \in Requests : SameSave(requests'[r], requests[r]) \/ StillFits(requests[r])'
  PROVE  SecretsInOrder'
<1>1. SharedSecretsAgree'
  BY DEF SecretsInOrder, SharedSecretsAgree, OneSecret
<1>2. ASSUME NEW r \in Requests, SameSave(requests'[r], requests[r])
      PROVE  StillFits(requests[r])'
  BY <1>2 DEF SecretsInOrder, SameSave, StillFits, SecretFits, SecretOf
<1> QED
  BY <1>1, <1>2 DEF SecretsInOrder

\* So do the saves that a commit does not overtake.
LEMMA CommitsOutdate ==
  ASSUME TypeOK, SecretsInOrder, NEW r \in Requests, NEW pc \in {"refresh", "drop"}, NEW row,
         requests[r].project \in Projects, requests' = Committed(r, pc, row),
         config' = [config EXCEPT ![requests[r].project] = row]
  PROVE  \A s \in Requests : StillFits(requests[s])'
<1> DEFINE p == requests[r].project
<1> SUFFICES ASSUME NEW s \in Requests, requests'[s].current
             PROVE  /\ requests'[s].pc \in {"check", "save"}
                         => requests'[s].bot = config'[requests'[s].project]
                    /\ requests'[s].pc = "save"
                         => SecretFits(requests[s].project, requests[s].app, SecretOf(requests[s]))'
  BY DEF StillFits
<1>1. CASE s = r
  <2>1. requests'[s] = [Idle EXCEPT !.pc = pc, !.project = p, !.alone = requests[s].alone]
    BY <1>1 DEF Committed
  <2> QED
    BY <2>1 DEF Idle
<1>2. CASE s # r
  <2>1. requests'[s] = [requests[s] EXCEPT
          !.current = @ /\ ~Overtaken(requests[s], p, row),
          !.replaced = @ \/ (row = NoBot /\ requests[s].project = p)]
    BY <1>2 DEF Committed
  <2>2. requests[s] \in RequestStates /\ HoldsWhatItNeeds(requests[s])
    BY DEF TypeOK
  <2>3. /\ requests'[s].pc = requests[s].pc /\ requests'[s].bot = requests[s].bot
        /\ requests'[s].project = requests[s].project /\ requests'[s].app = requests[s].app
        /\ requests'[s].secret = requests[s].secret
    BY <2>1, <2>2 DEF RequestStates
  <2>4. requests[s].current /\ ~Overtaken(requests[s], p, row)
    BY <2>1, <2>2 DEF RequestStates
  <2>5. StillFits(requests[s])
    BY DEF SecretsInOrder
  <2>6. \A q \in Projects : config'[q] = IF q = p THEN row ELSE config[q]
    BY DEF TypeOK
  <2>7. requests[s].pc \in {"check", "save"}
          => requests[s].project \in Projects \ {p} /\ requests[s].bot = config[requests[s].project]
    BY <2>2, <2>4, <2>5 DEF Overtaken, HoldsWhatItNeeds, StillFits
  <2>8. requests[s].pc = "save"
          => SecretFits(requests[s].project, requests[s].app, SecretOf(requests[s]))'
    <3> SUFFICES ASSUME requests[s].pc = "save", NEW q \in Projects \ {requests[s].project},
                        config'[q] # NoBot, config'[q].app = requests[s].app
                 PROVE  config'[q].secret = SecretOf(requests[s])
      BY <2>3 DEF SecretFits, SecretOf
    <3>1. q # p
      BY <2>4, <2>6 DEF Overtaken
    <3>2. SecretFits(requests[s].project, requests[s].app, SecretOf(requests[s]))
      BY <2>4, <2>5 DEF StillFits
    <3> QED
      BY <2>6, <3>1, <3>2 DEF SecretFits
  <2> QED
    BY <2>3, <2>6, <2>7, <2>8
<1> QED
  BY <1>1, <1>2

\* When the row of p changes and agrees with the others, or p is marked, all agree.
LEMMA ChangeAgrees ==
  ASSUME TypeOK, SharedSecretsAgree, NEW p \in Projects, NEW row,
         config' = [config EXCEPT ![p] = row], unchecked' \cup {p} = unchecked \cup {p},
         \/ p \in unchecked'
         \/ \A s \in Projects : OneSecret(p, s)' /\ OneSecret(s, p)'
  PROVE  SharedSecretsAgree'
<1> SUFFICES ASSUME NEW q1 \in Projects, NEW q2 \in Projects
             PROVE  OneSecret(q1, q2)' \/ {q1, q2} \cap unchecked' # {}
  BY DEF SharedSecretsAgree
<1>1. CASE q1 = p \/ q2 = p
  BY <1>1
<1>2. CASE q1 # p /\ q2 # p
  <2>1. config'[q1] = config[q1] /\ config'[q2] = config[q2]
    BY <1>2 DEF TypeOK
  <2>2. CASE OneSecret(q1, q2)
    BY <2>1, <2>2 DEF OneSecret
  <2>3. CASE {q1, q2} \cap unchecked # {}
    BY <1>2, <2>3
  <2> QED
    BY <2>2, <2>3 DEF SharedSecretsAgree
<1> QED
  BY <1>1, <1>2

\* A save that was not overtaken writes a secret that fits; one that was is marked.
LEMMA CommitsAgree ==
  ASSUME TypeOK, SecretsInOrder, NEW r \in Requests, SaveCommits(r)
  PROVE  SharedSecretsAgree'
<1>0. PICK q \in RequestStates : q = requests[r]
  BY DEF TypeOK
<1>1. HoldsWhatItNeeds(q) /\ q.pc = "save" /\ StillFits(q)
  BY <1>0 DEF SaveCommits, TypeOK, SecretsInOrder
<1>2. PICK p \in Projects : p = q.project
  BY <1>1 DEF HoldsWhatItNeeds
<1>3. PICK row \in Written(r) : config' = [config EXCEPT ![p] = row]
  BY <1>0, <1>2 DEF SaveCommits
<1>4. unchecked' = IF q.current THEN unchecked \ {p} ELSE unchecked \cup {p}
  BY <1>0, <1>2 DEF SaveCommits
<1>5. CASE q.current
  <2>1. q.bot = config[p] /\ SecretFits(p, q.app, SecretOf(q))
    BY <1>1, <1>2, <1>5 DEF StillFits
  <2>2. row.app = q.app /\ row.secret = SecretOf(q)
    <3>1. CASE q.bot = NoBot
      <4>1. q.secret \in Secrets
        BY <1>1, <3>1 DEF HoldsWhatItNeeds
      <4> QED
        BY <1>0, <1>2, <1>3, <2>1, <3>1, <4>1 DEF Written, SecretOf
    <3>2. CASE q.bot # NoBot
      BY <1>0, <1>2, <1>3, <2>1, <3>2 DEF Written, SecretOf
    <3> QED
      BY <3>1, <3>2
  <2>3. \A s \in Projects \ {p} :
          config[s] # NoBot /\ config[s].app = row.app => config[s].secret = row.secret
    BY <2>1, <2>2 DEF SecretFits
  <2>4. \A s \in Projects : config'[s] = IF s = p THEN row ELSE config[s]
    BY <1>3 DEF TypeOK
  <2>5. \A s \in Projects : OneSecret(p, s)' /\ OneSecret(s, p)'
    BY <2>3, <2>4 DEF OneSecret
  <2> QED
    BY <1>3, <1>4, <2>5, ChangeAgrees DEF SecretsInOrder
<1>6. CASE ~q.current
  BY <1>3, <1>4, <1>6, ChangeAgrees DEF SecretsInOrder
<1> QED
  BY <1>5, <1>6

\* A row that is gone agrees with every other.
LEMMA DeletionsAgree ==
  ASSUME TypeOK, SecretsInOrder, NEW p \in Projects, config' = [config EXCEPT ![p] = NoBot],
         unchecked' = unchecked \ {p}
  PROVE  SharedSecretsAgree'
<1>1. config'[p] = NoBot
  BY DEF TypeOK
<1>2. \A s \in Projects : OneSecret(p, s)' /\ OneSecret(s, p)'
  BY <1>1 DEF OneSecret
<1> QED
  BY <1>2, ChangeAgrees DEF SecretsInOrder

LEMMA SecretsInit == Init => SecretsInOrder
BY DEF Init, SecretsInOrder, SharedSecretsAgree, OneSecret, StillFits, Idle

LEMMA SecretsStep == TypeOK /\ SecretsInOrder /\ [Next]_vars => SecretsInOrder'
<1> SUFFICES ASSUME TypeOK, SecretsInOrder, [Next]_vars PROVE SecretsInOrder'
  OBVIOUS
<1>1. ASSUME NEW r \in Requests, NEW p \in Projects, NEW rec \in RequestStates,
             Begin(r, p, rec), UNCHANGED <<config, unchecked>>, rec.pc # "save",
             rec.pc = "check" => rec.project = p /\ rec.bot = config[p]
      PROVE  SecretsInOrder'
  <2> DEFINE beside == InFlight(p)
  <2>1. ASSUME NEW s \in Requests, s # r
        PROVE  SameSave(requests'[s], requests[s])
    <3>1. requests'[s] \in {requests[s], [requests[s] EXCEPT !.alone = FALSE]}
      BY <1>1, <2>1 DEF Begin
    <3>2. requests[s] \in RequestStates
      BY DEF TypeOK
    <3> QED
      BY <3>1, <3>2 DEF RequestStates, SameSave
  <2>2. requests'[r] = [rec EXCEPT !.alone = (beside = {})]
    BY <1>1 DEF Begin
  <2>3. requests'[r].pc = rec.pc /\ requests'[r].bot = rec.bot /\ requests'[r].project = rec.project
    BY <2>2 DEF RequestStates
  <2>4. StillFits(requests[r])'
    BY <1>1, <2>3 DEF StillFits
  <2> QED
    BY <1>1, <2>1, <2>4, FitsAsBefore
<1>2. ASSUME NEW r \in Requests, NEW p \in Projects, NEW form \in Forms,
             SaveBegins(r, p, form)
      PROVE  SecretsInOrder'
  <2> DEFINE rec == [Idle EXCEPT !.pc = "check", !.project = p, !.bot = config[p],
                                 !.app = form.app, !.secret = form.secret]
  <2>1. rec \in RequestStates /\ rec.pc # "save"
    BY DEF TypeOK, RequestStates, Idle, Given
  <2>2. rec.project = p /\ rec.bot = config[p]
    BY DEF Idle
  <2>3. Begin(r, p, rec) /\ UNCHANGED <<config, unchecked>>
    BY <1>2 DEF SaveBegins
  <2> HIDE DEF rec
  <2> QED
    BY <1>1, <2>1, <2>2, <2>3
<1>3. ASSUME NEW r \in Requests, NEW p \in Projects, DeleteBegins(r, p)
      PROVE  SecretsInOrder'
  <2> DEFINE rec == [Idle EXCEPT !.pc = IF config[p] = NoBot THEN "drop" ELSE "delete",
                                 !.project = p]
  <2>1. rec \in RequestStates /\ rec.pc \notin {"check", "save"}
    BY DEF RequestStates, Idle, Given
  <2>2. Begin(r, p, rec) /\ UNCHANGED <<config, unchecked>>
    BY <1>3 DEF DeleteBegins
  <2> HIDE DEF rec
  <2> QED
    BY <1>1, <2>1, <2>2
<1>4. ASSUME NEW r \in Requests, SaveCommits(r)
      PROVE  SecretsInOrder'
  <2>1. requests[r].project \in Projects
    BY <1>4 DEF SaveCommits, TypeOK, HoldsWhatItNeeds
  <2>2. PICK row : /\ requests' = Committed(r, "refresh", row)
                   /\ config' = [config EXCEPT ![requests[r].project] = row]
    BY <1>4 DEF SaveCommits
  <2>3. \A s \in Requests : StillFits(requests[s])'
    BY <2>1, <2>2, CommitsOutdate
  <2> QED
    BY <1>4, <2>3, CommitsAgree DEF SecretsInOrder
<1>5. ASSUME NEW r \in Requests, DeleteCommits(r)
      PROVE  SecretsInOrder'
  <2>1. PICK p \in Projects : p = requests[r].project
    BY <1>5 DEF DeleteCommits, TypeOK, HoldsWhatItNeeds
  <2>2. CASE /\ config' = [config EXCEPT ![requests[r].project] = NoBot]
             /\ requests' = Committed(r, "drop", NoBot)
             /\ unchecked' = unchecked \ {requests[r].project}
    BY <2>1, <2>2, CommitsOutdate, DeletionsAgree DEF SecretsInOrder
  <2>3. CASE Goto(r, "drop") /\ UNCHANGED <<config, unchecked>>
    <3>1. requests'[r].pc = "drop" /\ \A s \in Requests \ {r} : requests'[s] = requests[s]
      BY <2>3 DEF Goto, TypeOK, RequestStates
    <3> QED
      BY <2>3, <3>1, FitsAsBefore DEF StillFits, SameSave
  <2> QED
    BY <1>5, <2>2, <2>3 DEF DeleteCommits
<1>6. ASSUME NEW r \in Requests,
             \/ SaveFails(r) \/ SaveRefreshes(r) \/ RefreshFails(r) \/ ReloadStops(r)
             \/ ReloadReads(r) \/ ReloadFindsNothing(r) \/ ReloadStarts(r)
             \/ DeleteFails(r) \/ DeleteDrops(r) \/ DeleteStops(r)
      PROVE  SecretsInOrder'
  <2>1. requests'[r].pc \notin {"check", "save"}
        /\ \A s \in Requests \ {r} : requests'[s] = requests[s]
    BY <1>6 DEF SaveFails, SaveRefreshes, RefreshFails, ReloadStops, ReloadReads,
                ReloadFindsNothing, ReloadStarts, DeleteFails, DeleteDrops, DeleteStops, End,
                GiveUp, Goto, Idle, TypeOK, RequestStates
  <2>2. UNCHANGED <<config, unchecked>>
    BY <1>6 DEF SaveFails, SaveRefreshes, RefreshFails, ReloadStops, ReloadReads,
                ReloadFindsNothing, ReloadStarts, DeleteFails, DeleteDrops, DeleteStops
  <2> QED
    BY <2>1, <2>2, FitsAsBefore DEF StillFits, SameSave
<1>7. CASE Restart
  BY <1>7 DEF Restart, SecretsInOrder, SharedSecretsAgree, OneSecret, StillFits, Idle
<1>8. CASE UNCHANGED <<config, unchecked, requests>>
  BY <1>8, FitsAsBefore DEF SameSave
<1>9. ASSUME \/ \E f \in Fetches, q \in Projects : DispatchLoads(f, q)
             \/ \E f \in Fetches : FetchBegins(f) \/ FetchEnds(f) \/ DispatchEnds(f)
             \/ \E q \in Projects : TokenExpires(q)
             \/ UNCHANGED vars
      PROVE  UNCHANGED <<config, unchecked, requests>>
  BY <1>9 DEF DispatchLoads, FetchBegins, FetchEnds, DispatchEnds, TokenExpires, vars
<1>10. ASSUME NEW r \in Requests, SaveChecks(r)
       PROVE  SecretsInOrder'
  <2> DEFINE q == requests[r]
  <2>1. q \in RequestStates /\ requests' = [requests EXCEPT ![r] = [q EXCEPT !.pc = "save"]]
    BY <1>10 DEF SaveChecks, Goto, TypeOK
  <2>2. /\ requests'[r] = [q EXCEPT !.pc = "save"]
        /\ \A s \in Requests \ {r} : requests'[s] = requests[s]
    BY <2>1 DEF TypeOK
  <2>3. /\ requests'[r].project = q.project /\ requests'[r].app = q.app
        /\ requests'[r].secret = q.secret /\ requests'[r].bot = q.bot
        /\ requests'[r].current = q.current /\ requests'[r].pc = "save"
    BY <2>1, <2>2 DEF RequestStates
  <2>4. q.pc = "check" /\ SecretFits(q.project, q.app, SecretOf(q)) /\ UNCHANGED <<config, unchecked>>
    BY <1>10 DEF SaveChecks, SecretOf
  <2>5. q.current => q.bot = config[q.project]
    BY <2>4 DEF SecretsInOrder, StillFits
  <2>6. StillFits(requests[r])'
    BY <2>3, <2>4, <2>5 DEF StillFits, SecretFits, SecretOf
  <2> QED
    BY <2>2, <2>4, <2>6, FitsAsBefore DEF SameSave
<1> QED
  BY <1>2, <1>3, <1>4, <1>5, <1>6, <1>7, <1>8, <1>9, <1>10 DEF Next, Proceed

\* Projects that share an app id agree on its secret, but for those whose last save was
\* overtaken after it had checked: only the window between the check and the commit
\* lets two secrets in, and the next save that is not overtaken closes it.
THEOREM SharedSecretsStayEqual == Spec => []SharedSecretsAgree
BY TypeInit, TypeStep, SecretsInit, SecretsStep, SecretsImplied, PTL DEF Spec

-----------------------------------------------------------------------------
(* What the supervisor runs *)

Busy(r) == requests[r].pc # "idle"

\* A request that is alone shares its project with no other in flight, and one that
\* is not has it recorded.
Overlaps ==
  \A r \in Requests : Busy(r) =>
    IF requests[r].alone
    THEN \A s \in Requests \ {r} : Busy(s) => requests[s].project # requests[r].project
    ELSE requests[r].project \in raced

\* What a request that no other disturbed knows of its project.
OnTheWay(q) ==
  /\ ~q.replaced
  /\ q.pc \in {"refresh", "reload", "read", "start"} => config[q.project] # NoBot
  /\ q.pc \in {"reload", "read", "start"} => q.bot = config[q.project]
  /\ q.pc \in {"read", "start"} => clients[q.project] = NoBot
  /\ q.pc \in {"drop", "stop"} => config[q.project] = NoBot

Undisturbed == \A r \in Requests : Busy(r) /\ requests[r].alone => OnTheWay(requests[r])

\* What the supervisor runs for p is what is configured.
InOrder(p) ==
  /\ clients[p] \in {NoBot, config[p]}
  /\ config[p] = NoBot <=> states[p] = "inactive"
  /\ clients[p] # NoBot => states[p] = "active"
  /\ states[p] = "active" /\ p \notin deserted => owner[config[p].app] # NoOne

\* A project is in order until a request of it commits.
Untouched(p) ==
  p \notin raced /\ \A r \in Requests : Busy(r) /\ requests[r].project = p =>
                                        requests[r].pc \in {"check", "save", "delete"}

Ordered == \A p \in Projects : Untouched(p) => InOrder(p)

Follows == Overlaps /\ Undisturbed /\ Ordered

\* Closing the connection of p, or opening another, leaves the others in order: who
\* shared it and is shown as active is deserted.
LEMMA OthersStayOrdered ==
  ASSUME TypeOK, OwnersAreConnected, NEW p \in Projects, UNCHANGED config,
         \A q \in Projects \ {p} : clients'[q] = clients[q] /\ states'[q] = states[q],
         deserted \ {p} \subseteq deserted',
         \A a \in Apps : owner'[a] = NoOne =>
           \/ owner[a] = NoOne
           \/ owner[a] = p /\ deserted' = DesertedBy(p) \ {p}
  PROVE  \A q \in Projects \ {p} : InOrder(q) => InOrder(q)'
<1> SUFFICES ASSUME NEW q \in Projects \ {p}, InOrder(q),
                    states[q] = "active", q \notin deserted', owner'[config[q].app] = NoOne
             PROVE  FALSE
  BY DEF InOrder
<1> DEFINE a == config[q].app
<1>1. config[q] # NoBot /\ a \in Apps
  BY DEF InOrder, TypeOK, Bots
<1>2. owner[a] # NoOne
  BY DEF InOrder
<1>3. owner[a] = p /\ q \notin DesertedBy(p)
  BY <1>1, <1>2
<1>4. clients[p] # NoBot /\ clients[p].app = a
  BY <1>1, <1>3 DEF OwnersAreConnected
<1>5. clients[q] # NoBot
  BY <1>1, <1>3, <1>4 DEF DesertedBy
<1>6. owner[a] = q
  BY <1>1, <1>5 DEF OwnersAreConnected, InOrder
<1> QED
  BY <1>3, <1>6

LEMMA StopKeepsOrder ==
  ASSUME TypeOK, OwnersAreConnected, NEW p \in Projects, StopRuntime(p), UNCHANGED config
  PROVE  /\ \A q \in Projects \ {p} :
              clients'[q] = clients[q] /\ (InOrder(q) => InOrder(q)')
         /\ clients'[p] = NoBot
         /\ config[p] = NoBot => InOrder(p)'
<1>1. /\ \A q \in Projects \ {p} : clients'[q] = clients[q] /\ states'[q] = states[q]
      /\ clients'[p] = NoBot /\ states'[p] = "inactive"
      /\ deserted' = DesertedBy(p) \ {p}
  BY DEF StopRuntime, TypeOK
<1>2. deserted \ {p} \subseteq deserted'
  BY <1>1 DEF DesertedBy
<1>3. \A a \in Apps : owner'[a] = NoOne => owner[a] \in {NoOne, p}
  BY OwnerWithoutIs DEF StopRuntime
<1>4. config[p] = NoBot => InOrder(p)'
  BY <1>1 DEF InOrder
<1> QED
  BY <1>1, <1>2, <1>3, <1>4, OthersStayOrdered

LEMMA StartKeepsOrder ==
  ASSUME TypeOK, OwnersAreConnected, NEW p \in Projects, NEW bot \in Bots,
         StartOne(p, bot), UNCHANGED config
  PROVE  /\ \A q \in Projects \ {p} :
              clients'[q] = clients[q] /\ (InOrder(q) => InOrder(q)')
         /\ clients[p] = NoBot /\ bot = config[p] => InOrder(p)'
<1>0. bot.app \in Apps /\ bot # NoBot
  BY DEF Bots
<1>1. CASE Share(p, bot)
  <2>1. /\ states' = [states EXCEPT ![p] = "active"] /\ deserted' = deserted \ {p}
        /\ clients' = clients /\ owner' = owner /\ owner[bot.app] # NoOne
    BY <1>1 DEF Share
  <2>2. \A q \in Projects \ {p} : InOrder(q) => InOrder(q)'
    BY <2>1, OthersStayOrdered DEF TypeOK
  <2>3. clients[p] = NoBot /\ bot = config[p] => InOrder(p)'
    BY <1>0, <2>1 DEF InOrder, TypeOK
  <2> QED
    BY <2>1, <2>2, <2>3
<1>2. CASE Connect(p, bot)
  <2>1. /\ states'[p] = "active" /\ deserted' = DesertedBy(p) \ {p} /\ clients'[p] = bot
        /\ \A q \in Projects \ {p} : clients'[q] = clients[q] /\ states'[q] = states[q]
    BY <1>2 DEF Connect, TypeOK
  <2>2. \A a \in Apps : owner'[a] = IF a = bot.app THEN p ELSE OwnerWithout(p)[a]
    BY <1>0, <1>2, OwnerWithoutIs DEF Connect
  <2>3. deserted \ {p} \subseteq deserted'
    BY <2>1 DEF DesertedBy
  <2>4. \A a \in Apps : owner'[a] = NoOne => owner[a] \in {NoOne, p}
    BY <2>2, OwnerWithoutIs
  <2>5. \A q \in Projects \ {p} : InOrder(q) => InOrder(q)'
    BY <2>1, <2>3, <2>4, OthersStayOrdered
  <2>6. bot = config[p] => InOrder(p)'
    BY <1>0, <2>1, <2>2 DEF InOrder
  <2> QED
    BY <2>1, <2>5, <2>6
<1>3. CASE FailToConnect(p, bot)
  <2>1. /\ states'[p] = "error" /\ deserted' = DesertedBy(p) \ {p} /\ clients'[p] = NoBot
        /\ \A q \in Projects \ {p} : clients'[q] = clients[q] /\ states'[q] = states[q]
    BY <1>3 DEF FailToConnect, TypeOK
  <2>2. deserted \ {p} \subseteq deserted'
    BY <2>1 DEF DesertedBy
  <2>3. \A a \in Apps : owner'[a] = NoOne => owner[a] \in {NoOne, p}
    BY <1>3, OwnerWithoutIs DEF FailToConnect
  <2>4. \A q \in Projects \ {p} : InOrder(q) => InOrder(q)'
    BY <2>1, <2>2, <2>3, OthersStayOrdered
  <2>5. bot = config[p] => InOrder(p)'
    BY <1>0, <2>1 DEF InOrder
  <2> QED
    BY <2>1, <2>4, <2>5
<1> QED
  BY <1>1, <1>2, <1>3 DEF StartOne

\* After a start of everything, everything is in order.
LEMMA StartAllIsInOrder ==
  ASSUME TypeOK, StartAll, UNCHANGED config
  PROVE  \A p \in Projects : InOrder(p)'
<1> DEFINE with == {p \in Projects : config[p] # NoBot}
           server(connected, a) == CHOOSE p \in connected : config[p].app = a
<1>c. PICK connected \in SUBSET with :
        /\ clients' = [p \in Projects |-> IF p \in connected THEN config[p] ELSE NoBot]
        /\ owner' = [a \in Apps |->
             IF \E p \in connected : config[p].app = a THEN server(connected, a) ELSE NoOne]
        /\ \E failed \in SUBSET (with \ connected) :
             /\ \A p \in with \ (connected \cup failed) :
                  \E q \in connected : config[q].app = config[p].app
             /\ states' = [p \in Projects |->
                  IF p \notin with THEN "inactive"
                  ELSE IF p \in failed THEN "error" ELSE "active"]
  BY DEF StartAll
<1>1. PICK failed \in SUBSET (with \ connected) :
        /\ \A p \in with \ (connected \cup failed) :
             \E q \in connected : config[q].app = config[p].app
        /\ states' = [p \in Projects |->
             IF p \notin with THEN "inactive"
             ELSE IF p \in failed THEN "error" ELSE "active"]
  BY <1>c
<1>2. ASSUME NEW a \in Apps, NEW q \in connected, config[q].app = a
      PROVE  owner'[a] # NoOne
  <2>1. server(connected, a) \in connected
    BY <1>2
  <2>2. owner'[a] = server(connected, a)
    BY <1>c, <1>2
  <2> HIDE DEF server
  <2> QED
    BY <2>1, <2>2
<1>3. ASSUME NEW p \in Projects, states'[p] = "active"
      PROVE  owner'[config[p].app] # NoOne
  <2>1. p \in with \ failed
    BY <1>1, <1>3
  <2>2. config[p].app \in Apps
    BY <2>1 DEF TypeOK, Bots
  <2> QED
    BY <1>1, <1>2, <2>1, <2>2
<1>4. ASSUME NEW p \in Projects
      PROVE  /\ clients'[p] \in {NoBot, config[p]}
             /\ config[p] = NoBot <=> states'[p] = "inactive"
             /\ clients'[p] # NoBot => states'[p] = "active"
  <2>1. clients'[p] = (IF p \in connected THEN config[p] ELSE NoBot)
    BY <1>c
  <2>2. states'[p] = (IF p \notin with THEN "inactive"
                      ELSE IF p \in failed THEN "error" ELSE "active")
    BY <1>1
  <2> QED
    BY <2>1, <2>2
<1> QED
  BY <1>3, <1>4 DEF InOrder

\* A request goes on, past its reading: the others keep their step.
LEMMA MoveFollows ==
  ASSUME TypeOK, TypeOK', Follows, NEW r \in Requests, Busy(r), UNCHANGED raced,
         requests'[r].pc \notin {"idle", "check", "save", "delete"},
         requests'[r].project = requests[r].project,
         requests'[r].alone = requests[r].alone,
         \A s \in Requests \ {r} :
           /\ requests'[s].pc = requests[s].pc /\ requests'[s].project = requests[s].project
           /\ requests'[s].alone = requests[s].alone /\ requests'[s].bot = requests[s].bot
           /\ requests'[s].replaced =>
                requests[s].replaced \/ requests[s].project = requests[r].project,
         \A q \in Projects \ {requests[r].project} :
           config'[q] = config[q] /\ clients'[q] = clients[q] /\ (InOrder(q) => InOrder(q)'),
         requests[r].alone => OnTheWay(requests[r])'
  PROVE  Follows'
<1> DEFINE p == requests[r].project
<1>1. p \in Projects /\ \A s \in Requests : Busy(s) => requests[s].project \in Projects
  BY DEF TypeOK, HoldsWhatItNeeds, Busy
<1>2. Overlaps'
  BY DEF Follows, Overlaps, Busy
<1>3. ASSUME NEW s \in Requests, Busy(s)', requests'[s].alone
      PROVE  OnTheWay(requests[s])'
  <2>1. CASE s = r
    BY <1>3, <2>1
  <2>2. CASE s # r
    <3>1. Busy(s) /\ requests[s].alone /\ requests[s].project # p
      BY <1>3, <2>2 DEF Follows, Overlaps, Busy
    <3>2. OnTheWay(requests[s])
      BY <3>1 DEF Follows, Undisturbed
    <3> QED
      BY <1>1, <2>2, <3>1, <3>2 DEF OnTheWay
  <2> QED
    BY <2>1, <2>2
<1>4. ASSUME NEW q \in Projects, Untouched(q)'
      PROVE  InOrder(q)'
  <2>1. q # p
    BY <1>4 DEF Untouched, Busy
  <2>2. Untouched(q)
    BY <1>4, <2>1 DEF Untouched, Busy
  <2> QED
    BY <2>1, <2>2 DEF Follows, Ordered
<1> QED
  BY <1>2, <1>3, <1>4 DEF Follows, Undisturbed, Ordered

\* A request ends, and leaves its project in order when it was alone.
LEMMA EndFollows ==
  ASSUME TypeOK, Follows, NEW r \in Requests, Busy(r), End(r), UNCHANGED config,
         NEW p \in Projects, p = requests[r].project,
         \A q \in Projects \ {p} :
           clients'[q] = clients[q] /\ (InOrder(q) => InOrder(q)'),
         requests[r].alone => InOrder(p)'
  PROVE  Follows'
<1>1. \A s \in Requests : Busy(s) => requests[s].project \in Projects
  BY DEF TypeOK, HoldsWhatItNeeds, Busy
<1>2. /\ ~Busy(r)' /\ \A s \in Requests \ {r} : requests'[s] = requests[s]
      /\ raced' = IF requests[r].alone THEN raced \ {p} ELSE raced
  BY DEF End, Busy, Idle, TypeOK
<1>3. Overlaps'
  BY <1>2 DEF Follows, Overlaps, Busy
<1>4. ASSUME NEW s \in Requests, Busy(s)', requests'[s].alone
      PROVE  OnTheWay(requests[s])'
  <2>1. s # r /\ Busy(s) /\ requests[s].alone /\ requests'[s] = requests[s]
    BY <1>2, <1>4 DEF Busy
  <2>2. requests[s].project # p /\ OnTheWay(requests[s])
    BY <2>1 DEF Follows, Overlaps, Undisturbed
  <2> QED
    BY <1>1, <2>1, <2>2 DEF OnTheWay
<1>5. ASSUME NEW q \in Projects, Untouched(q)'
      PROVE  InOrder(q)'
  <2>1. CASE q = p
    <3>1. requests[r].alone
      BY <1>2, <1>5, <2>1 DEF Follows, Overlaps, Untouched
    <3> QED
      BY <2>1, <3>1
  <2>2. CASE q # p
    <3>1. Untouched(q)
      BY <1>2, <1>5, <2>2 DEF Untouched, Busy
    <3> QED
      BY <2>2, <3>1 DEF Follows, Ordered
  <2> QED
    BY <2>1, <2>2
<1> QED
  BY <1>3, <1>4, <1>5 DEF Follows, Undisturbed, Ordered

\* A request gives up at its save, or not alone.
LEMMA GiveUpFollows ==
  ASSUME TypeOK, Follows, NEW r \in Requests, Busy(r), GiveUp(r),
         requests[r].pc \in {"check", "save", "delete"} \/ ~requests[r].alone,
         UNCHANGED <<config, supervisor>>
  PROVE  Follows'
<1>1. ~Busy(r)' /\ \A s \in Requests \ {r} : requests'[s] = requests[s]
  BY DEF GiveUp, Busy, Idle, TypeOK
<1>2. raced' = raced /\ clients' = clients /\ \A q \in Projects : InOrder(q) => InOrder(q)'
  BY DEF GiveUp, supervisor, InOrder
<1>3. Overlaps'
  BY <1>1, <1>2 DEF Follows, Overlaps, Busy
<1>4. Undisturbed'
  BY <1>1, <1>2 DEF Follows, Undisturbed, OnTheWay, Busy
<1>5. ASSUME NEW q \in Projects, Untouched(q)'
      PROVE  InOrder(q)'
  <2>1. Untouched(q)
    BY <1>1, <1>2, <1>5 DEF Untouched, Busy, Follows, Overlaps
  <2> QED
    BY <1>2, <2>1 DEF Follows, Ordered
<1> QED
  BY <1>3, <1>4, <1>5 DEF Follows, Ordered

\* A request begins; whom it finds in flight has it recorded.
LEMMA BeginFollows ==
  ASSUME TypeOK, Follows, NEW r \in Requests, NEW p \in Projects, NEW rec \in RequestStates,
         Begin(r, p, rec), rec.pc \in {"check", "delete", "drop"}, rec.project = p,
         ~rec.replaced, rec.pc = "drop" => config[p] = NoBot,
         UNCHANGED <<config, supervisor>>
  PROVE  Follows'
<1> DEFINE beside == InFlight(p)
<1>1. /\ ~Busy(r) /\ beside \subseteq Requests /\ r \notin beside
      /\ \A s \in Requests : s \in beside <=> Busy(s) /\ requests[s].project = p
  BY DEF Begin, InFlight, Busy
<1>2. /\ raced' = IF beside = {} THEN raced ELSE raced \cup {p}
      /\ requests' = [s \in Requests |->
           IF s = r THEN [rec EXCEPT !.alone = (beside = {})]
           ELSE IF s \in beside THEN [requests[s] EXCEPT !.alone = FALSE]
           ELSE requests[s]]
  BY DEF Begin
<1> HIDE DEF beside
<1>3. /\ requests'[r].pc = rec.pc /\ requests'[r].project = p
      /\ (requests'[r].alone <=> beside = {}) /\ ~requests'[r].replaced
  BY <1>2 DEF RequestStates
<1>4. ASSUME NEW s \in Requests \ {r}
      PROVE  /\ requests'[s].pc = requests[s].pc /\ requests'[s].project = requests[s].project
             /\ s \notin beside => requests'[s] = requests[s]
             /\ s \in beside => ~requests'[s].alone
  <2>1. requests[s] \in RequestStates
    BY DEF TypeOK
  <2> QED
    BY <1>2, <2>1 DEF RequestStates
<1>5. clients' = clients /\ \A q \in Projects : InOrder(q) => InOrder(q)'
  BY DEF supervisor, InOrder
<1>6. ASSUME NEW s \in Requests, Busy(s)'
      PROVE  IF requests'[s].alone
             THEN \A t \in Requests \ {s} : Busy(t)' => requests'[t].project # requests'[s].project
             ELSE requests'[s].project \in raced'
  <2>1. CASE s = r
    <3>1. CASE beside = {}
      <4>1. \A t \in Requests \ {s} : Busy(t)' => requests'[t].project # p
        BY <1>1, <1>4, <2>1, <3>1 DEF Busy
      <4> QED
        BY <1>3, <2>1, <3>1, <4>1
    <3>2. CASE beside # {}
      <4>1. ~requests'[s].alone /\ p \in raced'
        BY <1>2, <1>3, <2>1, <3>2
      <4> QED
        BY <1>3, <2>1, <4>1
    <3> QED
      BY <3>1, <3>2
  <2>2. CASE s # r /\ s \in beside
    <3>1. ~requests'[s].alone /\ requests'[s].project = p /\ beside # {}
      BY <1>1, <1>4, <2>2
    <3> QED
      BY <1>2, <3>1
  <2>3. CASE s # r /\ s \notin beside
    <3>1. Busy(s) /\ requests'[s] = requests[s] /\ requests[s].project # p
      BY <1>1, <1>4, <1>6, <2>3 DEF Busy
    <3> QED
      BY <1>2, <1>3, <1>4, <2>3, <3>1 DEF Follows, Overlaps, Busy
  <2> QED
    BY <2>1, <2>2, <2>3
<1>7. ASSUME NEW s \in Requests, Busy(s)', requests'[s].alone
      PROVE  OnTheWay(requests[s])'
  <2>1. CASE s = r
    BY <1>3, <2>1 DEF OnTheWay
  <2>2. CASE s # r
    <3>1. requests'[s] = requests[s] /\ Busy(s) /\ requests[s].alone
      BY <1>4, <1>7, <2>2 DEF Busy
    <3> QED
      BY <1>5, <3>1 DEF Follows, Undisturbed, OnTheWay
  <2> QED
    BY <2>1, <2>2
<1>8. ASSUME NEW q \in Projects, Untouched(q)'
      PROVE  InOrder(q)'
  <2>1. Untouched(q)
    BY <1>1, <1>2, <1>4, <1>8 DEF Untouched, Busy
  <2> QED
    BY <1>5, <2>1 DEF Follows, Ordered
<1> QED
  BY <1>6, <1>7, <1>8 DEF Follows, Overlaps, Undisturbed, Ordered

\* A request goes on without a commit: of the requests only its own changes.
LEMMA OnlyItMoves ==
  ASSUME TypeOK, NEW r \in Requests, NEW q, requests' = [requests EXCEPT ![r] = q]
  PROVE  requests'[r] = q /\ \A s \in Requests \ {r} : requests'[s] = requests[s]
BY DEF TypeOK

\* What a commit makes of the requests.
LEMMA CommittedIs ==
  ASSUME TypeOK, NEW r \in Requests, NEW pc \in {"refresh", "drop"}, NEW row,
         requests' = Committed(r, pc, row)
  PROVE  /\ requests'[r].pc = pc /\ requests'[r].project = requests[r].project
         /\ requests'[r].alone = requests[r].alone /\ ~requests'[r].replaced
         /\ \A s \in Requests \ {r} :
              /\ requests'[s].pc = requests[s].pc /\ requests'[s].project = requests[s].project
              /\ requests'[s].alone = requests[s].alone /\ requests'[s].bot = requests[s].bot
              /\ requests'[s].replaced <=> requests[s].replaced
                   \/ (row = NoBot /\ requests[s].project = requests[r].project)
<1>1. /\ requests'[r].pc = pc /\ requests'[r].project = requests[r].project
      /\ requests'[r].alone = requests[r].alone /\ ~requests'[r].replaced
  BY DEF Committed, Idle
<1>2. ASSUME NEW s \in Requests \ {r}
      PROVE  /\ requests'[s].pc = requests[s].pc /\ requests'[s].project = requests[s].project
             /\ requests'[s].alone = requests[s].alone /\ requests'[s].bot = requests[s].bot
             /\ requests'[s].replaced <=> requests[s].replaced
                  \/ (row = NoBot /\ requests[s].project = requests[r].project)
  <2>1. requests[s] \in RequestStates
    BY DEF TypeOK
  <2>2. requests'[s] =
          [requests[s] EXCEPT
             !.current = requests[s].current /\ ~Overtaken(requests[s], requests[r].project, row),
             !.replaced = requests[s].replaced
                          \/ (row = NoBot /\ requests[s].project = requests[r].project)]
    BY DEF Committed
  <2> QED
    BY <2>1, <2>2 DEF RequestStates
<1> QED
  BY <1>1, <1>2

LEMMA SaveFollows ==
  ASSUME TypeOK, TypeOK', Follows, NEW r \in Requests,
         \/ SaveChecks(r) \/ SaveCommits(r) \/ SaveFails(r)
         \/ SaveRefreshes(r) \/ RefreshFails(r)
         \/ \E p \in Projects, form \in Forms : SaveBegins(r, p, form)
  PROVE  Follows'
<1>0. requests[r] \in RequestStates /\ HoldsWhatItNeeds(requests[r])
  BY DEF TypeOK
<1>1. CASE SaveCommits(r)
  <2> DEFINE p == requests[r].project
  <2>1. Busy(r) /\ p \in Projects /\ raced' = raced /\ UNCHANGED supervisor
    BY <1>0, <1>1 DEF SaveCommits, Busy, HoldsWhatItNeeds
  <2>2. PICK row \in Written(r) : /\ config' = [config EXCEPT ![p] = row]
                                 /\ requests' = Committed(r, "refresh", row)
    BY <1>1 DEF SaveCommits
  <2>3. row \in Bots
    BY <1>1, WrittenType DEF SaveCommits
  <2>4. config'[p] # NoBot /\ \A q \in Projects \ {p} : config'[q] = config[q]
    BY <2>1, <2>2, <2>3 DEF TypeOK
  <2>5. clients' = clients /\ \A q \in Projects \ {p} : InOrder(q) => InOrder(q)'
    BY <2>1, <2>4 DEF supervisor, InOrder
  <2>6. OnTheWay(requests[r])'
    <3>1. /\ requests'[r].pc = "refresh" /\ requests'[r].project = p
          /\ ~requests'[r].replaced
      BY <2>2, CommittedIs
    <3> QED
      BY <2>4, <3>1 DEF OnTheWay
  <2> QED
    BY <2>1, <2>2, <2>4, <2>5, <2>6, CommittedIs, MoveFollows
<1>2. CASE SaveFails(r)
  BY <1>2, GiveUpFollows DEF SaveFails, Busy
<1>3. CASE RefreshFails(r)
  <2>1. ~requests[r].alone
    BY <1>3 DEF RefreshFails, Follows, Undisturbed, OnTheWay, Busy
  <2> QED
    BY <1>3, <2>1, GiveUpFollows DEF RefreshFails, Busy
<1>4. CASE SaveRefreshes(r)
  <2> DEFINE p == requests[r].project
             q == [requests[r] EXCEPT !.pc = "reload", !.bot = config[p], !.replaced = FALSE]
  <2>1. /\ Busy(r) /\ p \in Projects /\ UNCHANGED <<config, supervisor, raced>>
        /\ config[p] # NoBot /\ requests' = [requests EXCEPT ![r] = q]
    BY <1>0, <1>4 DEF SaveRefreshes, Busy, HoldsWhatItNeeds, TypeOK
  <2>2. /\ q.pc = "reload" /\ q.project = p /\ q.alone = requests[r].alone
        /\ q.bot = config[p] /\ ~q.replaced
    BY <1>0 DEF RequestStates
  <2> HIDE DEF q
  <2>3. requests'[r] = q /\ \A s \in Requests \ {r} : requests'[s] = requests[s]
    BY <2>1, OnlyItMoves
  <2>4. clients' = clients /\ \A k \in Projects : InOrder(k) => InOrder(k)'
    BY <2>1 DEF supervisor, InOrder
  <2>5. OnTheWay(requests[r])'
    BY <2>1, <2>2, <2>3 DEF OnTheWay
  <2> QED
    BY <2>1, <2>2, <2>3, <2>4, <2>5, MoveFollows
<1>5. ASSUME NEW p \in Projects, NEW form \in Forms, SaveBegins(r, p, form)
      PROVE  Follows'
  <2> DEFINE q == [Idle EXCEPT !.pc = "check", !.project = p, !.bot = config[p],
                               !.app = form.app, !.secret = form.secret]
  <2>1. q \in RequestStates
    BY IdleType DEF RequestStates, TypeOK
  <2>2. q.pc = "check" /\ q.project = p /\ ~q.replaced
    BY DEF Idle
  <2>3. Begin(r, p, q) /\ UNCHANGED <<config, supervisor>>
    BY <1>5 DEF SaveBegins
  <2> HIDE DEF q
  <2> QED
    BY <2>1, <2>2, <2>3, BeginFollows
<1>6. CASE SaveChecks(r)
  <2> DEFINE q == [requests[r] EXCEPT !.pc = "save"]
  <2>1. /\ requests[r].pc = "check" /\ requests' = [requests EXCEPT ![r] = q]
        /\ UNCHANGED <<config, supervisor, raced>>
    BY <1>6 DEF SaveChecks, Goto, TypeOK
  <2>2. /\ q.pc = "save" /\ q.project = requests[r].project /\ q.alone = requests[r].alone
        /\ q.replaced = requests[r].replaced
    BY <1>0 DEF RequestStates
  <2> HIDE DEF q
  <2>3. requests'[r] = q /\ \A s \in Requests \ {r} : requests'[s] = requests[s]
    BY <2>1, OnlyItMoves
  <2>4. Overlaps'
    BY <2>1, <2>2, <2>3 DEF Follows, Overlaps, Busy
  <2>5. Undisturbed'
    <3> SUFFICES ASSUME NEW s \in Requests, Busy(s)', requests'[s].alone
                 PROVE  OnTheWay(requests[s])'
      BY DEF Undisturbed
    <3>1. OnTheWay(requests[s])
      BY <2>1, <2>2, <2>3 DEF Follows, Undisturbed, Busy
    <3>2. CASE s = r
      BY <2>2, <2>3, <3>1, <3>2 DEF OnTheWay
    <3>3. CASE s # r
      BY <2>1, <2>3, <3>1, <3>3 DEF OnTheWay, supervisor
    <3> QED
      BY <3>2, <3>3
  <2>6. ASSUME NEW p \in Projects, Untouched(p)'
        PROVE  InOrder(p)'
    <3>1. Untouched(p)
      BY <2>1, <2>2, <2>3, <2>6 DEF Untouched, Busy
    <3> QED
      BY <2>1, <3>1 DEF Follows, Ordered, InOrder, supervisor
  <2> QED
    BY <2>4, <2>5, <2>6 DEF Follows, Ordered
<1> QED
  BY <1>1, <1>2, <1>3, <1>4, <1>5, <1>6

LEMMA ReloadFollows ==
  ASSUME TypeOK, TypeOK', OwnersAreConnected, Follows, NEW r \in Requests,
         ReloadStops(r) \/ ReloadReads(r) \/ ReloadFindsNothing(r) \/ ReloadStarts(r)
  PROVE  Follows'
<1>0. requests[r] \in RequestStates /\ HoldsWhatItNeeds(requests[r]) /\ Busy(r)
  BY DEF TypeOK, ReloadStops, ReloadReads, ReloadFindsNothing, ReloadStarts, Busy
<1>p. PICK p \in Projects : p = requests[r].project
  BY <1>0 DEF HoldsWhatItNeeds, Busy
<1>a. requests[r].alone => OnTheWay(requests[r])
  BY <1>0 DEF Follows, Undisturbed
<1>1. CASE ReloadStops(r)
  <2> DEFINE q == [requests[r] EXCEPT !.pc = "read"]
  <2>1. /\ requests[r].pc = "reload" /\ StopRuntime(p) /\ UNCHANGED <<config, raced>>
        /\ requests' = [requests EXCEPT ![r] = q]
    BY <1>1, <1>p DEF ReloadStops, Goto, TypeOK
  <2>2. /\ q.pc = "read" /\ q.project = p /\ q.alone = requests[r].alone
        /\ q.bot = requests[r].bot /\ q.replaced = requests[r].replaced
    BY <1>0, <1>p DEF RequestStates
  <2> HIDE DEF q
  <2>3. requests'[r] = q /\ \A s \in Requests \ {r} : requests'[s] = requests[s]
    BY <2>1, OnlyItMoves
  <2>4. /\ \A k \in Projects \ {p} : clients'[k] = clients[k] /\ (InOrder(k) => InOrder(k)')
        /\ clients'[p] = NoBot
    BY <1>0, <1>p, <2>1, StopKeepsOrder
  <2>5. requests[r].alone => OnTheWay(requests[r])'
    BY <1>a, <1>0, <1>p, <2>1, <2>2, <2>3, <2>4 DEF OnTheWay
  <2> QED
    BY <1>0, <1>p, <2>1, <2>2, <2>3, <2>4, <2>5, MoveFollows
<1>2. CASE ReloadReads(r)
  <2>1. /\ requests[r].pc = "read" /\ config[p] # NoBot
        /\ UNCHANGED <<config, supervisor, raced>>
    BY <1>2, <1>p DEF ReloadReads
  <2>2. PICK bot \in {requests[r].bot} \cup (IF requests[r].replaced THEN {config[p]} ELSE {}) :
          requests' = [requests EXCEPT ![r].pc = "start", ![r].bot = bot]
    BY <1>2, <1>p DEF ReloadReads
  <2> DEFINE q == [requests[r] EXCEPT !.pc = "start", !.bot = bot]
  <2>3. requests' = [requests EXCEPT ![r] = q]
    BY <2>2 DEF TypeOK
  <2>4. /\ q.pc = "start" /\ q.project = p /\ q.alone = requests[r].alone
        /\ q.bot = bot /\ q.replaced = requests[r].replaced
    BY <1>0, <1>p DEF RequestStates
  <2> HIDE DEF q
  <2>5. requests'[r] = q /\ \A s \in Requests \ {r} : requests'[s] = requests[s]
    BY <2>3, OnlyItMoves
  <2>6. clients' = clients /\ \A k \in Projects : InOrder(k) => InOrder(k)'
    BY <2>1 DEF supervisor, InOrder
  <2>7. requests[r].alone => OnTheWay(requests[r])'
    BY <1>a, <1>0, <1>p, <2>1, <2>2, <2>4, <2>5, <2>6 DEF OnTheWay
  <2> QED
    BY <1>0, <1>p, <2>1, <2>4, <2>5, <2>6, <2>7, MoveFollows
<1>3. CASE ReloadFindsNothing(r)
  <2>1. /\ requests[r].pc = "read" /\ config[p] = NoBot /\ End(r)
        /\ UNCHANGED <<config, supervisor>>
    BY <1>3, <1>p DEF ReloadFindsNothing
  <2>2. ~requests[r].alone
    BY <1>a, <1>0, <1>p, <2>1 DEF OnTheWay
  <2>3. clients' = clients /\ \A k \in Projects : InOrder(k) => InOrder(k)'
    BY <2>1 DEF supervisor, InOrder
  <2> QED
    BY <1>0, <1>p, <2>1, <2>2, <2>3, EndFollows
<1>4. CASE ReloadStarts(r)
  <2>1. /\ requests[r].pc = "start" /\ StartOne(p, requests[r].bot) /\ End(r)
        /\ requests[r].bot \in Bots /\ UNCHANGED config
    BY <1>0, <1>p, <1>4 DEF ReloadStarts, HoldsWhatItNeeds
  <2>2. /\ \A k \in Projects \ {p} : clients'[k] = clients[k] /\ (InOrder(k) => InOrder(k)')
        /\ clients[p] = NoBot /\ requests[r].bot = config[p] => InOrder(p)'
    BY <1>0, <1>p, <2>1, StartKeepsOrder
  <2>3. requests[r].alone => InOrder(p)'
    BY <1>a, <1>0, <1>p, <2>1, <2>2 DEF OnTheWay
  <2> QED
    BY <1>0, <1>p, <2>1, <2>2, <2>3, EndFollows
<1> QED
  BY <1>1, <1>2, <1>3, <1>4

LEMMA DeleteFollows ==
  ASSUME TypeOK, TypeOK', OwnersAreConnected, Follows, NEW r \in Requests,
         \/ DeleteCommits(r) \/ DeleteFails(r) \/ DeleteDrops(r) \/ DeleteStops(r)
         \/ \E p \in Projects : DeleteBegins(r, p)
  PROVE  Follows'
<1>0. requests[r] \in RequestStates /\ HoldsWhatItNeeds(requests[r])
  BY DEF TypeOK
<1>a. Busy(r) /\ requests[r].alone => OnTheWay(requests[r])
  BY DEF Follows, Undisturbed
<1>1. CASE DeleteCommits(r)
  <2>1. PICK p \in Projects : p = requests[r].project
    BY <1>0, <1>1 DEF DeleteCommits, HoldsWhatItNeeds
  <2>2. requests[r].pc = "delete" /\ Busy(r) /\ UNCHANGED <<raced, supervisor>>
    BY <1>1 DEF DeleteCommits, Busy
  <2>3. CASE config' = [config EXCEPT ![p] = NoBot] /\ requests' = Committed(r, "drop", NoBot)
    <3>1. config'[p] = NoBot /\ \A q \in Projects \ {p} : config'[q] = config[q]
      BY <2>1, <2>3 DEF TypeOK
    <3>2. clients' = clients /\ \A q \in Projects \ {p} : InOrder(q) => InOrder(q)'
      BY <2>2, <3>1 DEF supervisor, InOrder
    <3>3. /\ requests'[r].pc = "drop" /\ requests'[r].project = p
          /\ ~requests'[r].replaced
      BY <2>1, <2>3, CommittedIs
    <3>4. OnTheWay(requests[r])'
      BY <3>1, <3>3 DEF OnTheWay
    <3> QED
      BY <2>1, <2>2, <2>3, <3>1, <3>2, <3>3, <3>4, CommittedIs, MoveFollows
  <2>4. CASE requests[r].replaced /\ UNCHANGED config /\ Goto(r, "drop")
    <3> DEFINE q == [requests[r] EXCEPT !.pc = "drop"]
    <3>1. requests' = [requests EXCEPT ![r] = q]
      BY <2>4 DEF Goto, TypeOK
    <3>2. /\ q.pc = "drop" /\ q.project = requests[r].project /\ q.alone = requests[r].alone
          /\ q.bot = requests[r].bot /\ q.replaced = requests[r].replaced
      BY <1>0 DEF RequestStates
    <3> HIDE DEF q
    <3>3. requests'[r] = q /\ \A s \in Requests \ {r} : requests'[s] = requests[s]
      BY <3>1, OnlyItMoves
    <3>4. clients' = clients /\ \A k \in Projects : InOrder(k) => InOrder(k)'
      BY <2>2, <2>4 DEF supervisor, InOrder
    <3>5. ~requests[r].alone
      BY <1>a, <2>2, <2>4 DEF OnTheWay
    <3> QED
      BY <2>2, <2>4, <3>2, <3>3, <3>4, <3>5, MoveFollows
  <2> QED
    BY <1>1, <2>1, <2>3, <2>4 DEF DeleteCommits
<1>2. CASE DeleteStops(r)
  <2>1. PICK p \in Projects : p = requests[r].project
    BY <1>0, <1>2 DEF DeleteStops, HoldsWhatItNeeds
  <2>2. requests[r].pc = "stop" /\ Busy(r) /\ StopRuntime(p) /\ End(r) /\ UNCHANGED config
    BY <1>2, <2>1 DEF DeleteStops, Busy
  <2>3. /\ \A k \in Projects \ {p} : clients'[k] = clients[k] /\ (InOrder(k) => InOrder(k)')
        /\ config[p] = NoBot => InOrder(p)'
    BY <2>2, StopKeepsOrder
  <2>4. requests[r].alone => InOrder(p)'
    BY <1>a, <2>1, <2>2, <2>3 DEF OnTheWay
  <2> QED
    BY <2>1, <2>2, <2>3, <2>4, EndFollows
<1>3. ASSUME NEW p \in Projects, DeleteBegins(r, p)
      PROVE  Follows'
  <2> DEFINE q == [Idle EXCEPT !.pc = IF config[p] = NoBot THEN "drop" ELSE "delete",
                               !.project = p]
  <2>1. q \in RequestStates
    BY IdleType DEF RequestStates
  <2>2. /\ q.pc \in {"check", "delete", "drop"} /\ q.project = p /\ ~q.replaced
        /\ q.pc = "drop" => config[p] = NoBot
    BY DEF Idle
  <2>3. Begin(r, p, q) /\ UNCHANGED <<config, supervisor>>
    BY <1>3 DEF DeleteBegins
  <2> HIDE DEF q
  <2> QED
    BY <2>1, <2>2, <2>3, BeginFollows
<1>4. CASE DeleteFails(r)
  BY <1>4, GiveUpFollows DEF DeleteFails, Busy
<1>5. CASE DeleteDrops(r)
  <2> DEFINE q == [requests[r] EXCEPT !.pc = "stop"]
  <2>1. /\ requests[r].pc = "drop" /\ Busy(r) /\ requests' = [requests EXCEPT ![r] = q]
        /\ UNCHANGED <<config, supervisor, raced>>
    BY <1>5 DEF DeleteDrops, Goto, Busy, TypeOK
  <2>2. /\ q.pc = "stop" /\ q.project = requests[r].project /\ q.alone = requests[r].alone
        /\ q.replaced = requests[r].replaced
    BY <1>0 DEF RequestStates
  <2> HIDE DEF q
  <2>3. requests'[r] = q /\ \A s \in Requests \ {r} : requests'[s] = requests[s]
    BY <2>1, OnlyItMoves
  <2>4. clients' = clients /\ \A k \in Projects : InOrder(k) => InOrder(k)'
    BY <2>1 DEF supervisor, InOrder
  <2>5. requests[r].alone => OnTheWay(requests[r])'
    BY <1>a, <2>1, <2>2, <2>3 DEF OnTheWay
  <2> QED
    BY <2>1, <2>2, <2>3, <2>4, <2>5, MoveFollows
<1> QED
  BY <1>1, <1>2, <1>3, <1>4, <1>5

LEMMA FollowsInit == Init => Follows
BY DEF Init, Follows, Overlaps, Undisturbed, Ordered, InOrder, Busy, Idle

LEMMA FollowsStep ==
  TypeOK /\ TypeOK' /\ OwnersAreConnected /\ Follows /\ [Next]_vars => Follows'
<1> SUFFICES ASSUME TypeOK, TypeOK', OwnersAreConnected, Follows, [Next]_vars PROVE Follows'
  OBVIOUS
<1>1. CASE Restart
  <2>1. \A p \in Projects : InOrder(p)'
    BY <1>1, StartAllIsInOrder DEF Restart
  <2>2. \A r \in Requests : ~Busy(r)'
    BY <1>1 DEF Restart, Busy, Idle
  <2> QED
    BY <2>1, <2>2 DEF Follows, Overlaps, Undisturbed, Ordered
<1>2. CASE UNCHANGED <<config, supervisor, requests, raced>>
  BY <1>2 DEF supervisor, Follows, Overlaps, Undisturbed, OnTheWay, Ordered, Untouched,
              InOrder, Busy
<1>3. ASSUME \/ \E f \in Fetches, p \in Projects : DispatchLoads(f, p)
             \/ \E f \in Fetches : FetchBegins(f) \/ FetchEnds(f) \/ DispatchEnds(f)
             \/ \E p \in Projects : TokenExpires(p)
             \/ UNCHANGED vars
      PROVE  UNCHANGED <<config, supervisor, requests, raced>>
  BY <1>3 DEF DispatchLoads, FetchBegins, FetchEnds, DispatchEnds, TokenExpires, vars
<1> QED
  BY <1>1, <1>2, <1>3, SaveFollows, ReloadFollows, DeleteFollows DEF Next, Proceed

LEMMA FollowsImplied ==
  TypeOK /\ OwnersAreConnected /\ Follows => SupervisorFollowsConfig /\ ActiveIsServed
<1> SUFFICES ASSUME Follows, NEW p \in Projects, Settled(p)
             PROVE  InOrder(p)
  BY DEF SupervisorFollowsConfig, ActiveIsServed, InOrder
<1> QED
  BY DEF Follows, Ordered, Untouched, Settled, InFlight, Busy

\* Once the requests of a project are over, and unless its last ones overlapped, its
\* connection is the configured one, whatever other projects do to a shared app id.
THEOREM ConfigIsFollowed == Spec => []SupervisorFollowsConfig
BY TypeInit, TypeStep, OwnersInit, OwnersStep, FollowsInit, FollowsStep, FollowsImplied,
   PTL DEF Spec

\* A project shown as active is served by its own or by another's connection, unless
\* the owner of the app id it shared has stopped.
THEOREM ActiveProjectsAreServed == Spec => []ActiveIsServed
BY TypeInit, TypeStep, OwnersInit, OwnersStep, FollowsInit, FollowsStep, FollowsImplied,
   PTL DEF Spec

-----------------------------------------------------------------------------
(* No request is stranded *)

LocksAreHeld == \A p \in Projects : Reloading(p) = {locks[p]} \ {NoOne}

RowsAreFound ==
  \A r \in Requests : requests[r].pc = "refresh" =>
    config[requests[r].project] # NoBot \/ requests[r].replaced

Reloads(q) == q.pc \in {"read", "start"}

\* Steps that leave the locks, and who reloads which project.
LEMMA SameReloads ==
  ASSUME LocksAreHeld, locks' = locks,
         \A s \in Requests :
           /\ Reloads(requests'[s]) <=> Reloads(requests[s])
           /\ Reloads(requests[s]) => requests'[s].project = requests[s].project
  PROVE  LocksAreHeld'
<1>1. \A p \in Projects : Reloading(p)' = Reloading(p)
  BY DEF Reloading, Reloads
<1> QED
  BY <1>1 DEF LocksAreHeld

\* A request takes the free lock of its project and reloads it.
LEMMA LockTaken ==
  ASSUME TypeOK, LocksAreHeld, NEW r \in Requests, ReloadStops(r)
  PROVE  LocksAreHeld'
<1>0. PICK q : q = requests[r].project
  OBVIOUS
<1>1. q \in Projects /\ requests[r].pc = "reload" /\ locks[q] = NoOne
      /\ locks' = [locks EXCEPT ![q] = r] /\ Goto(r, "read")
  BY <1>0 DEF ReloadStops, TypeOK, HoldsWhatItNeeds
<1>2. /\ \A s \in Requests \ {r} : requests'[s] = requests[s]
      /\ requests'[r].pc = "read" /\ requests'[r].project = q
  BY <1>0, <1>1 DEF Goto, TypeOK, RequestStates
<1>3. \A p \in Projects : locks'[p] = IF p = q THEN r ELSE locks[p]
  BY <1>1 DEF TypeOK
<1>4. ASSUME NEW p \in Projects
      PROVE  Reloading(p)' = {locks'[p]} \ {NoOne}
  <2>1. CASE p = q
    <3>1. Reloading(q) = {}
      BY <1>1 DEF LocksAreHeld
    <3>2. Reloading(q)' = {r}
      BY <1>2, <3>1 DEF Reloading
    <3>3. r # NoOne
      BY FeishuBotsAssumption
    <3> QED
      BY <1>3, <2>1, <3>2, <3>3, FeishuBotsAssumption
  <2>2. CASE p # q
    <3>1. Reloading(p)' = Reloading(p)
      BY <1>1, <1>2, <2>2 DEF Reloading
    <3> QED
      BY <1>3, <2>2, <3>1 DEF LocksAreHeld
  <2> QED
    BY <2>1, <2>2
<1> QED
  BY <1>4 DEF LocksAreHeld

\* The request that reloads a project ends and gives the lock back.
LEMMA LockReturned ==
  ASSUME TypeOK, LocksAreHeld, NEW r \in Requests, Reloads(requests[r]), End(r),
         locks' = [locks EXCEPT ![requests[r].project] = NoOne]
  PROVE  LocksAreHeld'
<1>0. PICK q : q = requests[r].project
  OBVIOUS
<1>1. q \in Projects
  BY <1>0 DEF TypeOK, HoldsWhatItNeeds, Reloads
<1>2. requests'[r].pc = "idle" /\ \A s \in Requests \ {r} : requests'[s] = requests[s]
  BY DEF End, TypeOK, Idle
<1>3. \A p \in Projects : locks'[p] = IF p = q THEN NoOne ELSE locks[p]
  BY <1>0, <1>1 DEF TypeOK
<1>4. ASSUME NEW p \in Projects
      PROVE  Reloading(p)' = {locks'[p]} \ {NoOne}
  <2>1. CASE p = q
    <3>1. r \in Reloading(q)
      BY <1>0 DEF Reloading, Reloads
    <3>2. Reloading(q) = {r}
      BY <1>1, <3>1 DEF LocksAreHeld
    <3>3. Reloading(q)' = {}
      BY <1>2, <3>2 DEF Reloading
    <3> QED
      BY <1>1, <1>3, <2>1, <3>3
  <2>2. CASE p # q
    <3>1. Reloading(p)' = Reloading(p)
      BY <1>0, <1>2, <2>2 DEF Reloading
    <3> QED
      BY <1>3, <2>2, <3>1 DEF LocksAreHeld
  <2> QED
    BY <2>1, <2>2
<1> QED
  BY <1>4 DEF LocksAreHeld

LEMMA StrandedInit == Init => NoRequestIsStranded
BY DEF Init, NoRequestIsStranded, Reloading, Idle

LEMMA NeitherStranded == NoRequestIsStranded <=> LocksAreHeld /\ RowsAreFound
BY DEF NoRequestIsStranded, LocksAreHeld, RowsAreFound

\* A request that begins is at none of the steps in question.
LEMMA BeginKeepsSteps ==
  ASSUME TypeOK, NEW r \in Requests, NEW p, NEW rec \in RequestStates, Begin(r, p, rec),
         rec.pc \in {"check", "delete", "drop"}
  PROVE  \A s \in Requests :
           \/ /\ requests'[s].pc = requests[s].pc /\ requests'[s].project = requests[s].project
              /\ requests'[s].replaced = requests[s].replaced
           \/ /\ requests[s].pc = "idle"
              /\ requests'[s].pc \in {"check", "delete", "drop"}
<1> SUFFICES ASSUME NEW s \in Requests
             PROVE  \/ /\ requests'[s].pc = requests[s].pc
                       /\ requests'[s].project = requests[s].project
                       /\ requests'[s].replaced = requests[s].replaced
                    \/ /\ requests[s].pc = "idle"
                       /\ requests'[s].pc \in {"check", "delete", "drop"}
  OBVIOUS
<1>1. requests[s] \in RequestStates
  BY DEF TypeOK
<1>2. CASE s = r
  <2>1. PICK b : requests'[r] = [rec EXCEPT !.alone = b]
    BY DEF Begin
  <2>2. requests'[r].pc = rec.pc
    BY <2>1 DEF RequestStates
  <2> QED
    BY <1>2, <2>2 DEF Begin
<1>3. CASE s # r
  <2>1. requests'[s] = requests[s] \/ requests'[s] = [requests[s] EXCEPT !.alone = FALSE]
    BY <1>3 DEF Begin
  <2> QED
    BY <1>1, <2>1 DEF RequestStates
<1> QED
  BY <1>2, <1>3

\* r has committed the row; the others are where they were, and know if it is gone.
Commits(r, row) ==
  /\ requests[r].pc \in {"save", "delete"} /\ locks' = locks
  /\ config' = [config EXCEPT ![requests[r].project] = row]
  /\ requests'[r].pc \in {"refresh", "drop"}
  /\ requests'[r].project = requests[r].project
  /\ requests'[r].pc = "refresh" => row # NoBot
  /\ \A s \in Requests \ {r} :
       /\ requests'[s].pc = requests[s].pc /\ requests'[s].project = requests[s].project
       /\ requests[s].replaced => requests'[s].replaced
       /\ row = NoBot /\ requests[s].project = requests[r].project => requests'[s].replaced

LEMMA CommitStrandsNone ==
  ASSUME TypeOK, LocksAreHeld, RowsAreFound, NEW r \in Requests, NEW row, Commits(r, row)
  PROVE  LocksAreHeld' /\ RowsAreFound'
<1>0. PICK p : p = requests[r].project
  OBVIOUS
<1>1. p \in Projects
  BY <1>0 DEF Commits, TypeOK, HoldsWhatItNeeds
<1>2. \A o \in Projects : config'[o] = IF o = p THEN row ELSE config[o]
  BY <1>0, <1>1 DEF TypeOK, Commits
<1>3. LocksAreHeld'
  BY SameReloads DEF Reloads, Commits
<1>4. ASSUME NEW s \in Requests, requests'[s].pc = "refresh"
      PROVE  config'[requests'[s].project] # NoBot \/ requests'[s].replaced
  <2>1. CASE s = r
    BY <1>0, <1>1, <1>2, <1>4, <2>1 DEF Commits
  <2>2. CASE s # r
    <3>1. /\ requests[s].pc = "refresh" /\ requests'[s].project = requests[s].project
          /\ requests[s].replaced => requests'[s].replaced
          /\ row = NoBot /\ requests[s].project = p => requests'[s].replaced
      BY <1>0, <1>4, <2>2 DEF Commits
    <3>2. requests[s].project \in Projects
      BY <3>1 DEF TypeOK, HoldsWhatItNeeds
    <3>3. CASE requests[s].replaced
      BY <3>1, <3>3
    <3>4. CASE ~requests[s].replaced /\ requests[s].project # p
      BY <1>2, <3>1, <3>2, <3>4 DEF RowsAreFound
    <3>5. CASE requests[s].project = p
      BY <1>1, <1>2, <3>1, <3>5
    <3> QED
      BY <3>3, <3>4, <3>5
  <2> QED
    BY <2>1, <2>2
<1> QED
  BY <1>3, <1>4 DEF RowsAreFound

LEMMA SaveStrandsNone ==
  ASSUME TypeOK, LocksAreHeld, RowsAreFound, NEW r \in Requests, SaveCommits(r)
  PROVE  LocksAreHeld' /\ RowsAreFound'
<1>1. PICK row \in Written(r) : /\ config' = [config EXCEPT ![requests[r].project] = row]
                               /\ requests' = Committed(r, "refresh", row)
  BY DEF SaveCommits
<1>2. requests[r].pc = "save" /\ locks' = locks
  BY DEF SaveCommits
<1>3. row # NoBot
  BY <1>2, WrittenType, FeishuBotsAssumption
<1>4. Commits(r, row)
  BY <1>1, <1>2, <1>3, CommittedIs DEF Commits
<1> QED
  BY <1>4, CommitStrandsNone

LEMMA DeletionStrandsNone ==
  ASSUME TypeOK, LocksAreHeld, RowsAreFound, NEW r \in Requests, requests[r].pc = "delete",
         locks' = locks, config' = [config EXCEPT ![requests[r].project] = NoBot],
         requests' = Committed(r, "drop", NoBot)
  PROVE  LocksAreHeld' /\ RowsAreFound'
<1>1. Commits(r, NoBot)
  BY CommittedIs DEF Commits
<1> QED
  BY <1>1, CommitStrandsNone

LEMMA StrandedStep == TypeOK /\ NoRequestIsStranded /\ [Next]_vars => NoRequestIsStranded'
<1> SUFFICES ASSUME TypeOK, LocksAreHeld, RowsAreFound, [Next]_vars
             PROVE  LocksAreHeld' /\ RowsAreFound'
  BY NeitherStranded DEF NoRequestIsStranded, LocksAreHeld, RowsAreFound
<1>1. ASSUME NEW r \in Requests, NEW p \in Projects,
             DeleteBegins(r, p) \/ \E form \in Forms : SaveBegins(r, p, form)
      PROVE  LocksAreHeld' /\ RowsAreFound'
  <2>1. /\ UNCHANGED <<config, locks>>
        /\ \E rec \in RequestStates : Begin(r, p, rec) /\ rec.pc \in {"check", "delete", "drop"}
    <3>1. CASE DeleteBegins(r, p)
      <4> DEFINE rec == [Idle EXCEPT !.pc = IF config[p] = NoBot THEN "drop" ELSE "delete",
                                     !.project = p]
      <4>1. rec \in RequestStates /\ rec.pc \in {"delete", "drop"}
        BY IdleType DEF RequestStates
      <4>2. Begin(r, p, rec) /\ UNCHANGED <<config, locks>>
        BY <3>1 DEF DeleteBegins
      <4> HIDE DEF rec
      <4> QED
        BY <4>1, <4>2
    <3>2. ASSUME NEW form \in Forms, SaveBegins(r, p, form)
          PROVE  /\ UNCHANGED <<config, locks>>
                 /\ \E rec \in RequestStates :
                      Begin(r, p, rec) /\ rec.pc \in {"check", "delete", "drop"}
      <4> DEFINE rec == [Idle EXCEPT !.pc = "check", !.project = p, !.bot = config[p],
                                     !.app = form.app, !.secret = form.secret]
      <4>1. rec \in RequestStates /\ rec.pc = "check"
        BY IdleType, FeishuBotsAssumption DEF RequestStates, TypeOK
      <4>2. Begin(r, p, rec) /\ UNCHANGED <<config, locks>>
        BY <3>2 DEF SaveBegins
      <4> HIDE DEF rec
      <4> QED
        BY <4>1, <4>2
    <3> QED
      BY <1>1, <3>1, <3>2
  <2>2. \A s \in Requests :
           \/ /\ requests'[s].pc = requests[s].pc /\ requests'[s].project = requests[s].project
              /\ requests'[s].replaced = requests[s].replaced
           \/ /\ requests[s].pc = "idle"
              /\ requests'[s].pc \in {"check", "delete", "drop"}
    BY <2>1, BeginKeepsSteps
  <2>3. LocksAreHeld'
    BY <2>1, <2>2, SameReloads DEF Reloads
  <2>4. RowsAreFound'
    BY <2>1, <2>2 DEF RowsAreFound
  <2> QED
    BY <2>3, <2>4
<1>2. ASSUME NEW r \in Requests, NEW q, requests' = [requests EXCEPT ![r] = q],
             UNCHANGED <<config, locks>>, q.pc # "refresh",
             Reloads(q) <=> Reloads(requests[r]),
             Reloads(q) => q.project = requests[r].project
      PROVE  LocksAreHeld' /\ RowsAreFound'
  <2>1. requests'[r] = q /\ \A s \in Requests \ {r} : requests'[s] = requests[s]
    BY <1>2, OnlyItMoves
  <2>2. LocksAreHeld'
    BY <1>2, <2>1, SameReloads
  <2>3. RowsAreFound'
    BY <1>2, <2>1 DEF RowsAreFound
  <2> QED
    BY <2>2, <2>3
<1>12. ASSUME NEW r \in Requests, NEW pc \in {"save", "drop", "stop"}, Goto(r, pc),
              UNCHANGED <<config, locks>>, requests[r].pc \in {"check", "delete", "drop"}
       PROVE  LocksAreHeld' /\ RowsAreFound'
  <2> DEFINE q == [requests[r] EXCEPT !.pc = pc]
  <2>1. requests' = [requests EXCEPT ![r] = q] /\ q.pc = pc
    BY <1>12 DEF Goto, TypeOK, RequestStates
  <2> HIDE DEF q
  <2> QED
    BY <1>2, <1>12, <2>1 DEF Reloads
<1>13. ASSUME NEW r \in Requests, SaveChecks(r) \/ DeleteDrops(r)
       PROVE  LocksAreHeld' /\ RowsAreFound'
  BY <1>12, <1>13 DEF SaveChecks, DeleteDrops
<1>3. ASSUME NEW r \in Requests, SaveCommits(r)
      PROVE  LocksAreHeld' /\ RowsAreFound'
  BY <1>3, SaveStrandsNone
<1>4. ASSUME NEW r \in Requests, DeleteCommits(r)
      PROVE  LocksAreHeld' /\ RowsAreFound'
  <2>1. requests[r].pc = "delete" /\ locks' = locks
    BY <1>4 DEF DeleteCommits
  <2>2. CASE /\ config' = [config EXCEPT ![requests[r].project] = NoBot]
             /\ requests' = Committed(r, "drop", NoBot)
    BY <2>1, <2>2, DeletionStrandsNone
  <2>3. CASE UNCHANGED config /\ Goto(r, "drop")
    BY <1>12, <2>1, <2>3
  <2> QED
    BY <1>4, <2>2, <2>3 DEF DeleteCommits
<1>5. ASSUME NEW r \in Requests,
             SaveFails(r) \/ RefreshFails(r) \/ DeleteFails(r) \/ DeleteStops(r)
      PROVE  LocksAreHeld' /\ RowsAreFound'
  <2>1. /\ requests' = [requests EXCEPT ![r] = Idle] /\ UNCHANGED <<config, locks>>
        /\ requests[r].pc \in {"check", "save", "refresh", "delete", "stop"}
        /\ Idle.pc = "idle"
    BY <1>5 DEF SaveFails, RefreshFails, DeleteFails, DeleteStops, GiveUp, End, Idle
  <2> QED
    BY <1>2, <2>1 DEF Reloads
<1>6. ASSUME NEW r \in Requests, SaveRefreshes(r) \/ ReloadReads(r)
      PROVE  LocksAreHeld' /\ RowsAreFound'
  <2>1. requests[r] \in RequestStates
    BY DEF TypeOK
  <2>2. CASE SaveRefreshes(r)
    <3> DEFINE q == [requests[r] EXCEPT !.pc = "reload", !.bot = config[requests[r].project],
                                        !.replaced = FALSE]
    <3>1. /\ requests' = [requests EXCEPT ![r] = q] /\ requests[r].pc = "refresh"
          /\ UNCHANGED <<config, locks>> /\ q.pc = "reload"
      BY <2>1, <2>2 DEF SaveRefreshes, RequestStates, TypeOK
    <3> HIDE DEF q
    <3> QED
      BY <1>2, <3>1 DEF Reloads
  <2>3. CASE ReloadReads(r)
    <3>1. PICK bot : requests' = [requests EXCEPT ![r].pc = "start", ![r].bot = bot]
      BY <2>3 DEF ReloadReads
    <3> DEFINE q == [requests[r] EXCEPT !.pc = "start", !.bot = bot]
    <3>2. /\ requests' = [requests EXCEPT ![r] = q] /\ requests[r].pc = "read"
          /\ UNCHANGED <<config, locks>>
          /\ q.pc = "start" /\ q.project = requests[r].project
      BY <2>1, <2>3, <3>1 DEF ReloadReads, RequestStates, TypeOK
    <3> HIDE DEF q
    <3> QED
      BY <1>2, <3>2 DEF Reloads
  <2> QED
    BY <1>6, <2>2, <2>3
<1>7. ASSUME NEW r \in Requests, ReloadStops(r)
      PROVE  LocksAreHeld' /\ RowsAreFound'
  <2>1. /\ \A s \in Requests \ {r} : requests'[s] = requests[s]
        /\ requests'[r].pc = "read" /\ config' = config
    BY <1>7 DEF ReloadStops, Goto, TypeOK, RequestStates
  <2>2. RowsAreFound'
    BY <2>1 DEF RowsAreFound
  <2> QED
    BY <1>7, <2>2, LockTaken
<1>8. ASSUME NEW r \in Requests, ReloadFindsNothing(r) \/ ReloadStarts(r)
      PROVE  LocksAreHeld' /\ RowsAreFound'
  <2>1. /\ Reloads(requests[r]) /\ End(r) /\ config' = config
        /\ locks' = [locks EXCEPT ![requests[r].project] = NoOne]
    BY <1>8 DEF ReloadFindsNothing, ReloadStarts, Reloads
  <2>2. requests'[r].pc = "idle" /\ \A s \in Requests \ {r} : requests'[s] = requests[s]
    BY <2>1 DEF End, TypeOK, Idle
  <2>3. RowsAreFound'
    BY <2>1, <2>2 DEF RowsAreFound
  <2> QED
    BY <2>1, <2>3, LockReturned
<1>9. CASE Restart
  <2>1. locks' = [p \in Projects |-> NoOne] /\ \A r \in Requests : requests'[r].pc = "idle"
    BY <1>9 DEF Restart, Idle
  <2> QED
    BY <2>1 DEF LocksAreHeld, RowsAreFound, Reloading
<1>10. CASE UNCHANGED <<config, locks, requests>>
  BY <1>10 DEF LocksAreHeld, RowsAreFound, Reloading
<1>11. ASSUME \/ \E f \in Fetches, q \in Projects : DispatchLoads(f, q)
              \/ \E f \in Fetches : FetchBegins(f) \/ FetchEnds(f) \/ DispatchEnds(f)
              \/ \E p \in Projects : TokenExpires(p)
              \/ UNCHANGED vars
       PROVE  UNCHANGED <<config, locks, requests>>
  BY <1>11 DEF DispatchLoads, FetchBegins, FetchEnds, DispatchEnds, TokenExpires, vars
<1> QED
  BY <1>1, <1>3, <1>4, <1>5, <1>6, <1>7, <1>8, <1>9, <1>10, <1>11, <1>13 DEF Next, Proceed

\* NoRequestIsStranded: reloads of one project never overlap, and nothing leaves its
\* lock taken by a request that does not hold it, or a save waiting for a row that a
\* deletion removed; however saves, deletions, failures and restarts interleave.
THEOREM RequestsAreNotStranded == Spec => []NoRequestIsStranded
BY TypeInit, TypeStep, StrandedInit, StrandedStep, PTL DEF Spec

=============================================================================
