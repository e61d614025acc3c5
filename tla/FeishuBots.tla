------------------------------- MODULE FeishuBots ------------------------------
(***************************************************************************)
(* The Feishu bots of the projects: their configuration rows, which the    *)
(* administration saves and deletes (admin/router.py), the long            *)
(* connections the supervisor keeps for them (feishu_long_conn.py), and    *)
(* the cache of tenant tokens (feishu_bot.py).                             *)
(*                                                                         *)
(* A save reads its row, then those of the other projects, commits,        *)
(* refreshes the row, drops the cached token and then reloads the          *)
(* connection: stop, read the row again, start. The reload holds a lock of *)
(* its project; stopping and starting hold the supervisor's lock from end  *)
(* to end, through every await, so each is one step. A deletion stops the  *)
(* connection without the project's lock.                                  *)
(*                                                                         *)
(* A row is its app id and secret; white lists, chats, roots and other     *)
(* credentials are saved with them and left out.                           *)
(***************************************************************************)
EXTENDS Naturals, FiniteSets

CONSTANTS
  Projects,
  Apps,         \* Feishu application ids
  Secrets,      \* application secrets
  Forms,        \* what administrators save
  Requests,     \* saves and deletions that may be served at the same time
  Fetches,      \* commands from a chat, whose answers need a tenant token
  MaxRequests,  \* bound: requests in all
  MaxRestarts,  \* bound: restarts of the server
  NoBot,        \* no row, no connection, no token
  NoOne         \* nobody owns the app id, or holds the lock

Bots == [app : Apps, secret : Secrets]
States == {"inactive", "active", "error"}

\* The secret of a save; absent means that the stored one is kept.
Given == Secrets \cup {"kept"}

RequestStates ==
  [pc : {"idle", "check", "save", "refresh", "reload", "read", "start",
         "delete", "drop", "stop"},
   project : Projects \cup {NoOne},
   bot : Bots \cup {NoBot},    \* what it read or, once refreshed, what it saved
   app : Apps \cup {NoOne}, secret : Given,
   alone : BOOLEAN,            \* no other request of the project overlapped it
   current : BOOLEAN,          \* what it read and checked has not been overtaken
   replaced : BOOLEAN]         \* its row was deleted since it read

\* A request has what the step it is at needs.
HoldsWhatItNeeds(q) ==
  /\ q.pc # "idle" => q.project \in Projects
  /\ q.pc \in {"check", "save"} => q.app \in Apps /\ (q.bot = NoBot => q.secret \in Secrets)
  /\ q.pc \in {"reload", "read", "start"} => q.bot \in Bots

\* A command holds the row its session has loaded; "fresh" while the row has not
\* changed since.
NoFetch == [pc |-> "idle", project |-> NoOne, bot |-> NoBot, fresh |-> TRUE]
FetchStates ==
  [pc : {"loaded", "asked"}, project : Projects, bot : Bots, fresh : BOOLEAN] \cup {NoFetch}

ASSUME FeishuBotsAssumption ==
  /\ NoBot \notin Bots /\ NoOne \notin Projects \cup Apps \cup Requests
  /\ "kept" \notin Secrets /\ Forms \subseteq [app : Apps, secret : Given]
  /\ MaxRequests \in Nat /\ MaxRestarts \in Nat

VARIABLES
  config,    \* the row of each project
  clients,   \* what each project's connection was opened with
  states,    \* the connection state shown for each project
  owner,     \* the project whose connection serves an app id
  locks,     \* who reloads a project
  tokens,    \* the cached token of each project, as the bot it was issued for
  requests, fetches,
  raced,     \* projects whose last requests overlapped
  deserted,  \* projects that share an app id whose owner has stopped
  late,      \* projects whose token was asked for with a row that changed before it came
  unchecked, \* projects whose last save was overtaken after it had read or checked
  served, restarts

supervisor == <<clients, states, owner, deserted>>
cache == <<tokens, late, fetches>>
vars == <<config, supervisor, locks, cache, requests, raced, unchecked, served, restarts>>

Idle == [pc |-> "idle", project |-> NoOne, bot |-> NoBot, app |-> NoOne,
         secret |-> "kept", alone |-> TRUE, current |-> TRUE, replaced |-> FALSE]

-----------------------------------------------------------------------------
(* The supervisor, under its lock *)

\* owner and deserted once the connection of p, if there is one, is closed:
\* nobody takes over for those who shared its app id.
OwnerWithout(p) ==
  IF clients[p] = NoBot THEN owner ELSE [owner EXCEPT ![clients[p].app] = NoOne]
DesertedBy(p) ==
  deserted \cup {q \in Projects \ {p} :
    /\ clients[p] # NoBot /\ clients[q] = NoBot /\ states[q] = "active"
    /\ config[q] # NoBot /\ config[q].app = clients[p].app}

\* Fault: the app id stays with the project that was stopped.
StopRuntimeKeepsOwner(p) ==
  /\ clients' = [clients EXCEPT ![p] = NoBot]
  /\ states' = [states EXCEPT ![p] = "inactive"]
  /\ owner' = owner
  /\ deserted' = DesertedBy(p) \ {p}

\* _stop_runtime.
StopRuntime(p) ==
  /\ clients' = [clients EXCEPT ![p] = NoBot]
  /\ states' = [states EXCEPT ![p] = "inactive"]
  /\ owner' = OwnerWithout(p)
  /\ deserted' = DesertedBy(p) \ {p}

\* Fault: whoever is configured with the app id is thought to be connected.
ShareWithConfigured(p, bot) ==
  /\ \E q \in Projects \ {p} : config[q] # NoBot /\ config[q].app = bot.app
  /\ states' = [states EXCEPT ![p] = "active"]
  /\ deserted' = deserted \ {p}
  /\ UNCHANGED <<clients, owner>>

\* start_one: another project's connection for the app id is shared.
Share(p, bot) ==
  /\ owner[bot.app] \notin {NoOne, p}
  /\ states' = [states EXCEPT ![p] = "active"]
  /\ deserted' = deserted \ {p}
  /\ UNCHANGED <<clients, owner>>

\* start_one: a connection is opened, in place of the one there was.
Connect(p, bot) ==
  /\ owner[bot.app] \in {NoOne, p}
  /\ clients' = [clients EXCEPT ![p] = bot]
  /\ states' = [states EXCEPT ![p] = "active"]
  /\ owner' = [OwnerWithout(p) EXCEPT ![bot.app] = p]
  /\ deserted' = DesertedBy(p) \ {p}

\* start_one: Feishu refuses the connection, which is not tried again.
FailToConnect(p, bot) ==
  /\ owner[bot.app] \in {NoOne, p}
  /\ clients' = [clients EXCEPT ![p] = NoBot]
  /\ states' = [states EXCEPT ![p] = "error"]
  /\ owner' = OwnerWithout(p)
  /\ deserted' = DesertedBy(p) \ {p}

StartOne(p, bot) == Share(p, bot) \/ Connect(p, bot) \/ FailToConnect(p, bot)

\* Fault: nothing is dropped.
InvalidateNothing(p) == UNCHANGED <<tokens, late>>

\* invalidate_token_cache.
Invalidate(p) ==
  /\ tokens' = [tokens EXCEPT ![p] = NoBot]
  /\ late' = late \ {p}

-----------------------------------------------------------------------------
(* Requests of the administration *)

InFlight(p) == {r \in Requests : requests[r].pc # "idle" /\ requests[r].project = p}

\* A request of p begins beside those that are in flight; which of the idle ones
\* it is called does not matter.
Begin(r, p, rec) ==
  LET beside == InFlight(p)
  IN /\ requests[r].pc = "idle" /\ served < MaxRequests
     /\ r = CHOOSE s \in Requests : requests[s].pc = "idle"
     /\ served' = served + 1
     /\ raced' = IF beside = {} THEN raced ELSE raced \cup {p}
     /\ requests' = [s \in Requests |->
          IF s = r THEN [rec EXCEPT !.alone = (beside = {})]
          ELSE IF s \in beside THEN [requests[s] EXCEPT !.alone = FALSE]
          ELSE requests[s]]

Goto(r, pc) == requests' = [requests EXCEPT ![r].pc = pc]

\* A request ends; one that met no other of its project leaves everything in order.
End(r) ==
  /\ requests' = [requests EXCEPT ![r] = Idle]
  /\ raced' = IF requests[r].alone THEN raced \ {requests[r].project} ELSE raced

\* A request gives up before it has committed anything.
GiveUp(r) == requests' = [requests EXCEPT ![r] = Idle] /\ UNCHANGED raced

\* The save q has read the row of its project, or checked the rows of its app id,
\* before the row of p became what it is now.
Overtaken(q, p, row) ==
  \/ q.pc \in {"check", "save"} /\ q.project = p
  \/ q.pc = "save" /\ row # NoBot /\ row.app = q.app

\* r has committed a row, or deleted it (NoBot), and goes on at pc without what it
\* read; the others may have read what is gone.
Committed(r, pc, row) ==
  [s \in Requests |->
    LET q == requests[s]
        p == requests[r].project
    IN IF s = r THEN [Idle EXCEPT !.pc = pc, !.project = p, !.alone = q.alone]
       ELSE [q EXCEPT
              !.current = @ /\ ~Overtaken(q, p, row),
              !.replaced = @ \/ (row = NoBot /\ q.project = p)]]

\* The row of p changes: whoever has loaded it holds an old one.
Outdated(p) ==
  [f \in Fetches |->
    IF fetches[f].project = p THEN [fetches[f] EXCEPT !.fresh = FALSE] ELSE fetches[f]]

\* Fault: the secret is checked against the project's own row only.
SecretFitsAnyone(p, app, secret) == TRUE

\* _ensure_shared_app_secret_consistency.
SecretFits(p, app, secret) ==
  \A q \in Projects \ {p} :
    config[q] # NoBot /\ config[q].app = app => config[q].secret = secret

\* upsert_feishu_bot_config reads the row of the project.
SaveBegins(r, p, form) ==
  /\ config[p] = NoBot => form.secret # "kept"
  /\ Begin(r, p, [Idle EXCEPT !.pc = "check", !.project = p, !.bot = config[p],
                              !.app = form.app, !.secret = form.secret])
  /\ UNCHANGED <<config, supervisor, locks, cache, unchecked, restarts>>

\* It reads the rows with the app id of the form, and validates the rest.
SaveChecks(r) ==
  LET q == requests[r]
  IN /\ q.pc = "check"
     /\ SecretFits(q.project, q.app, IF q.secret = "kept" THEN q.bot.secret ELSE q.secret)
     /\ Goto(r, "save")
     /\ UNCHANGED <<config, supervisor, locks, cache, raced, unchecked, served, restarts>>

\* Fault: a secret that is not given is not looked up.
WrittenAsGiven(r) ==
  LET q == requests[r]
  IN {bot \in {[app |-> q.app, secret |-> q.secret]} : q.bot = NoBot <=> config[q.project] = NoBot}

\* The row is inserted, unless there is one by now, or the columns are updated
\* that differ from those read; a row that was deleted cannot be updated.
Written(r) ==
  LET q == requests[r]
      row == config[q.project]
  IN IF q.bot = NoBot
     THEN IF row = NoBot THEN {[app |-> q.app, secret |-> q.secret]} ELSE {}
     ELSE IF row = NoBot THEN {}
     ELSE {[app |-> IF q.app = q.bot.app THEN row.app ELSE q.app,
            secret |-> IF q.secret = "kept" THEN row.secret ELSE q.secret]}

SaveCommits(r) ==
  LET q == requests[r]
  IN /\ q.pc = "save"
     /\ \E row \in Written(r) :
          /\ config' = [config EXCEPT ![q.project] = row]
          /\ requests' = Committed(r, "refresh", row)
          /\ fetches' = IF row = config[q.project] THEN fetches ELSE Outdated(q.project)
     /\ unchecked' = IF q.current THEN unchecked \ {q.project} ELSE unchecked \cup {q.project}
     /\ UNCHANGED <<supervisor, locks, tokens, late, raced, served, restarts>>

\* A validation fails, or the commit: nothing was written.
SaveFails(r) ==
  /\ requests[r].pc \in {"check", "save"} /\ GiveUp(r)
  /\ UNCHANGED <<config, supervisor, locks, cache, unchecked, served, restarts>>

\* db.refresh reads the row again; the reload will see it as it is now.
SaveRefreshes(r) ==
  LET q == requests[r]
  IN /\ q.pc = "refresh" /\ config[q.project] # NoBot
     /\ requests' = [requests EXCEPT ![r].pc = "reload", ![r].bot = config[q.project],
                                     ![r].replaced = FALSE]
     /\ Invalidate(q.project)
     /\ UNCHANGED <<config, supervisor, locks, fetches, raced, unchecked, served, restarts>>

\* The row has been deleted, and perhaps inserted again: the request fails.
RefreshFails(r) ==
  /\ requests[r].pc = "refresh" /\ requests[r].replaced /\ GiveUp(r)
  /\ UNCHANGED <<config, supervisor, locks, cache, unchecked, served, restarts>>

\* reload: the project's lock, then stop_one.
ReloadStops(r) ==
  LET p == requests[r].project
  IN /\ requests[r].pc = "reload" /\ locks[p] = NoOne
     /\ locks' = [locks EXCEPT ![p] = r]
     /\ StopRuntime(p)
     /\ Goto(r, "read")
     /\ UNCHANGED <<config, cache, raced, unchecked, served, restarts>>

\* The row comes from the session, which has it from the refresh; the query only
\* shows that there is one. A row that was inserted since may be a new object.
ReloadReads(r) ==
  LET q == requests[r]
  IN /\ q.pc = "read" /\ config[q.project] # NoBot
     /\ \E bot \in {q.bot} \cup (IF q.replaced THEN {config[q.project]} ELSE {}) :
          requests' = [requests EXCEPT ![r].pc = "start", ![r].bot = bot]
     /\ UNCHANGED <<config, supervisor, locks, cache, raced, unchecked, served, restarts>>

\* Fault: the early return keeps the lock.
ReloadFindsNothingLocked(r) ==
  /\ requests[r].pc = "read" /\ config[requests[r].project] = NoBot
  /\ End(r)
  /\ UNCHANGED <<config, supervisor, cache, locks, unchecked, served, restarts>>

\* The row is gone: the project stays stopped.
ReloadFindsNothing(r) ==
  /\ requests[r].pc = "read" /\ config[requests[r].project] = NoBot
  /\ locks' = [locks EXCEPT ![requests[r].project] = NoOne]
  /\ End(r)
  /\ UNCHANGED <<config, supervisor, cache, unchecked, served, restarts>>

ReloadStarts(r) ==
  LET q == requests[r]
  IN /\ q.pc = "start"
     /\ StartOne(q.project, q.bot)
     /\ Invalidate(q.project)
     /\ locks' = [locks EXCEPT ![q.project] = NoOne]
     /\ End(r)
     /\ UNCHANGED <<config, fetches, unchecked, served, restarts>>

\* delete_feishu_bot_config; without a row there is nothing to commit.
DeleteBegins(r, p) ==
  /\ Begin(r, p, [Idle EXCEPT !.pc = IF config[p] = NoBot THEN "drop" ELSE "delete",
                              !.project = p])
  /\ UNCHANGED <<config, supervisor, locks, cache, unchecked, restarts>>

\* A row that was inserted since may be another one, which stays.
DeleteCommits(r) ==
  LET q == requests[r]
  IN /\ q.pc = "delete"
     /\ \/ /\ config' = [config EXCEPT ![q.project] = NoBot]
           /\ requests' = Committed(r, "drop", NoBot)
           /\ fetches' = Outdated(q.project)
           /\ unchecked' = unchecked \ {q.project}
        \/ q.replaced /\ Goto(r, "drop") /\ UNCHANGED <<config, fetches, unchecked>>
     /\ UNCHANGED <<supervisor, locks, tokens, late, raced, served, restarts>>

\* A statement or the commit fails: nothing was deleted.
DeleteFails(r) ==
  /\ requests[r].pc = "delete" /\ GiveUp(r)
  /\ UNCHANGED <<config, supervisor, locks, cache, unchecked, served, restarts>>

DeleteDrops(r) ==
  /\ requests[r].pc = "drop"
  /\ Invalidate(requests[r].project)
  /\ Goto(r, "stop")
  /\ UNCHANGED <<config, supervisor, locks, fetches, raced, unchecked, served, restarts>>

\* Fault: a deletion leaves the connection alone.
DeleteKeepsConnection(r) ==
  /\ requests[r].pc = "stop" /\ End(r)
  /\ UNCHANGED <<config, supervisor, locks, cache, unchecked, served, restarts>>

DeleteStops(r) ==
  /\ requests[r].pc = "stop"
  /\ StopRuntime(requests[r].project)
  /\ End(r)
  /\ UNCHANGED <<config, locks, cache, unchecked, served, restarts>>

-----------------------------------------------------------------------------
(* Tokens *)

\* A command of a chat is served: its session loads the row of the project.
DispatchLoads(f, p) ==
  /\ fetches[f] = NoFetch /\ config[p] # NoBot
  /\ fetches' = [fetches EXCEPT
       ![f] = [pc |-> "loaded", project |-> p, bot |-> config[p], fresh |-> TRUE]]
  /\ UNCHANGED <<config, supervisor, locks, tokens, late, requests, raced, unchecked,
                 served, restarts>>

\* get_tenant_access_token finds no valid token, takes the lock of the project, looks
\* again, and reads the row. The session has it already, and keeps the columns it
\* has, if the object is still referred to and the row still the same.
FetchBegins(f) ==
  LET q == fetches[f]
  IN /\ q.pc = "loaded" /\ tokens[q.project] = NoBot /\ config[q.project] # NoBot
     /\ \A g \in Fetches : fetches[g].pc = "asked" => fetches[g].project # q.project
     /\ \E read \in {q, [q EXCEPT !.bot = config[q.project], !.fresh = TRUE]} :
          fetches' = [fetches EXCEPT ![f] = [read EXCEPT !.pc = "asked"]]
     /\ UNCHANGED <<config, supervisor, locks, tokens, late, requests, raced, unchecked,
                    served, restarts>>

\* Feishu answers: the token is cached, whatever became of the row meanwhile. The
\* command goes on with its session and may need another token.
FetchEnds(f) ==
  LET q == fetches[f]
  IN /\ q.pc = "asked"
     /\ tokens' = [tokens EXCEPT ![q.project] = q.bot]
     /\ late' = IF q.fresh THEN late \ {q.project} ELSE late \cup {q.project}
     /\ fetches' = [fetches EXCEPT ![f].pc = "loaded"]
     /\ UNCHANGED <<config, supervisor, locks, requests, raced, unchecked, served, restarts>>

\* The command is over, or Feishu's refusal ends it.
DispatchEnds(f) ==
  /\ fetches[f] # NoFetch
  /\ fetches' = [fetches EXCEPT ![f] = NoFetch]
  /\ UNCHANGED <<config, supervisor, locks, tokens, late, requests, raced, unchecked,
                 served, restarts>>

\* Less than two minutes are left of the token: it is not used any more.
TokenExpires(p) ==
  /\ tokens[p] # NoBot
  /\ Invalidate(p)
  /\ UNCHANGED <<config, supervisor, locks, fetches, requests, raced, unchecked, served, restarts>>

-----------------------------------------------------------------------------
(* The server *)

\* start_all, before the first request: of the projects with one app id, those
\* that come first may fail, the first that connects owns it, the others share it.
StartAll ==
  LET with == {p \in Projects : config[p] # NoBot}
  IN \E connected \in SUBSET with :
       /\ \A p, q \in connected : p # q => config[p].app # config[q].app
       /\ clients' = [p \in Projects |-> IF p \in connected THEN config[p] ELSE NoBot]
       /\ owner' = [a \in Apps |->
            IF \E p \in connected : config[p].app = a
            THEN CHOOSE p \in connected : config[p].app = a ELSE NoOne]
       /\ \E failed \in SUBSET (with \ connected) :
            /\ \A p \in with \ (connected \cup failed) :
                 \E q \in connected : config[q].app = config[p].app
            /\ states' = [p \in Projects |->
                 IF p \notin with THEN "inactive"
                 ELSE IF p \in failed THEN "error" ELSE "active"]

\* The server stops, in whatever state, and starts again.
Restart ==
  /\ restarts < MaxRestarts
  /\ restarts' = restarts + 1
  /\ StartAll
  /\ deserted' = {} /\ late' = {} /\ raced' = {}
  /\ locks' = [p \in Projects |-> NoOne]
  /\ tokens' = [p \in Projects |-> NoBot]
  /\ requests' = [r \in Requests |-> Idle]
  /\ fetches' = [f \in Fetches |-> NoFetch]
  /\ UNCHANGED <<config, unchecked, served>>

Init ==
  /\ config = [p \in Projects |-> NoBot] /\ clients = config /\ tokens = config
  /\ states = [p \in Projects |-> "inactive"]
  /\ owner = [a \in Apps |-> NoOne] /\ locks = [p \in Projects |-> NoOne]
  /\ requests = [r \in Requests |-> Idle] /\ fetches = [f \in Fetches |-> NoFetch]
  /\ raced = {} /\ deserted = {} /\ late = {} /\ unchecked = {}
  /\ served = 0 /\ restarts = 0

Proceed(r) ==
  \/ SaveChecks(r) \/ SaveCommits(r) \/ SaveFails(r)
  \/ SaveRefreshes(r) \/ RefreshFails(r)
  \/ ReloadStops(r) \/ ReloadReads(r) \/ ReloadFindsNothing(r) \/ ReloadStarts(r)
  \/ DeleteCommits(r) \/ DeleteFails(r) \/ DeleteDrops(r) \/ DeleteStops(r)

Next ==
  \/ \E r \in Requests, p \in Projects :
       DeleteBegins(r, p) \/ \E form \in Forms : SaveBegins(r, p, form)
  \/ \E r \in Requests : Proceed(r)
  \/ \E f \in Fetches, p \in Projects : DispatchLoads(f, p)
  \/ \E f \in Fetches : FetchBegins(f) \/ FetchEnds(f) \/ DispatchEnds(f)
  \/ \E p \in Projects : TokenExpires(p)
  \/ Restart

Spec == Init /\ [][Next]_vars

\* A request that may go on does: the event loop runs every coroutine that is ready.
FairSpec == Spec /\ \A r \in Requests : WF_vars(Proceed(r))

-----------------------------------------------------------------------------
(* Properties *)

TypeOK ==
  /\ config \in [Projects -> Bots \cup {NoBot}]
  /\ clients \in [Projects -> Bots \cup {NoBot}]
  /\ tokens \in [Projects -> Bots \cup {NoBot}]
  /\ states \in [Projects -> States]
  /\ owner \in [Apps -> Projects \cup {NoOne}]
  /\ locks \in [Projects -> Requests \cup {NoOne}]
  /\ requests \in [Requests -> RequestStates]
  /\ \A r \in Requests : HoldsWhatItNeeds(requests[r])
  /\ fetches \in [Fetches -> FetchStates]
  /\ raced \subseteq Projects /\ deserted \subseteq Projects /\ late \subseteq Projects
  /\ unchecked \subseteq Projects /\ served \in 0..MaxRequests /\ restarts \in 0..MaxRestarts

\* The owners of the app ids are exactly the projects with a connection for them,
\* so an app id never has two connections, whatever overlaps, fails or restarts.
OwnersAreConnected ==
  \A p \in Projects, a \in Apps : owner[a] = p <=> clients[p] # NoBot /\ clients[p].app = a

\* No request of p is in flight, and the last that were did not overlap.
Settled(p) == InFlight(p) = {} /\ p \notin raced

\* Once the requests of a project are over, what runs is what is configured: the
\* connection is of the row's app id and secret, there is none without a row, and
\* a row without a connection is shown as an error or shares one.
SupervisorFollowsConfig ==
  \A p \in Projects : Settled(p) =>
    /\ clients[p] \in {NoBot, config[p]}
    /\ config[p] = NoBot <=> states[p] = "inactive"
    /\ clients[p] # NoBot => states[p] = "active"

\* A project shown as active has a connection for its app id, its own or another
\* project's, unless it shared one whose owner has stopped since.
ActiveIsServed ==
  \A p \in Projects :
    Settled(p) /\ states[p] = "active" /\ p \notin deserted => owner[config[p].app] # NoOne

\* A cached token is of the configured bot, unless a save or deletion has yet to drop
\* it, or it was asked for with a row that changed before the token came: no commit
\* leaves the token of the bot before it, whatever overtakes the request or fails.
TokensFollowConfig ==
  \A p \in Projects :
    \/ tokens[p] \in {NoBot, config[p]} \/ p \in late
    \/ \E r \in InFlight(p) : requests[r].pc \in {"refresh", "drop"}

OneSecret(p, q) ==
  config[p] # NoBot /\ config[q] # NoBot /\ config[p].app = config[q].app
  => config[p].secret = config[q].secret

\* Projects with one app id have one secret, whichever of them are saved at a time,
\* unless the last save of one of the two was overtaken after it had checked. The
\* next save of that one compares the two again.
SharedSecretsAgree ==
  \A p, q \in Projects : OneSecret(p, q) \/ {p, q} \cap unchecked # {}

\* The requests that hold the lock of p: they have stopped its connection, and have
\* yet to read its row or to start it again.
Reloading(p) == {r \in Requests : requests[r].project = p /\ requests[r].pc \in {"read", "start"}}

\* No request is stranded, so that all may end. The lock of a project is held by the
\* request that reloads it and by no other: no failed start, row that is gone, deletion
\* or restart leaves it taken. And a save finds its row again, or knows that a deletion
\* removed it, although that deletion may have been overtaken by another save.
NoRequestIsStranded ==
  /\ \A p \in Projects : Reloading(p) = {locks[p]} \ {NoOne}
  /\ \A r \in Requests : requests[r].pc = "refresh" =>
       config[requests[r].project] # NoBot \/ requests[r].replaced

\* No request waits for ever for the lock of its project.
RequestsEnd == \A r \in Requests : []<>(requests[r].pc = "idle")

-----------------------------------------------------------------------------
(* What the documents and comments say and the code does not keep *)

\* CONTEXT.md:83-85: projects with one app id have one secret. Two saves that both
\* check before either commits give it two (FeishuTwoSecrets.cfg).
OneSecretPerApp == \A p, q \in Projects : OneSecret(p, q)

\* admin/router.py:862: no token of the bot before a save is left in the cache. A
\* command that loaded its row before the save brings it back (FeishuOldToken.cfg).
NoTokenIsLeft == \A p \in Projects : Settled(p) => tokens[p] \in {NoBot, config[p]}

=============================================================================
