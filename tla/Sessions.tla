------------------------------ MODULE Sessions ------------------------------
(***************************************************************************)
(* Runtime sign-ins: the identities that browser tabs hold in a project    *)
(* instance (backend/services/websocket_manager.py), the tabs themselves   *)
(* (frontend/src/hmi) and users.json.                                      *)
(*                                                                         *)
(* Everything runs on one event loop, and gives it up at awaits: while a   *)
(* password is hashed, and at every message sent.  `loop` is the handler   *)
(* that runs; the others go on when it is free.  A handler is that of one  *)
(* socket, whose messages are handled one after the other, or of an API    *)
(* request: a panel sign-in, a panel sign-out, or the refresh after a      *)
(* write of users.json.                                                    *)
(***************************************************************************)
EXTENDS Naturals, FiniteSets

CONSTANTS
    Tabs,        \* browser tabs
    PanelTabs,   \* those opened with ?panel=, all for one panel
    Users,       \* users with a password
    Apis,        \* API requests that may be handled at the same time
    MaxClients,  \* bound: connections
    MaxScopes,   \* bound: HmiView mounts of a tab
    MaxTokens,   \* bound: sign-ins
    MaxEvents,   \* bound: API requests, views mounted again, connections
                 \* closed or dropped
    Events,      \* what may happen, beside connecting, signing in and out
    Guest, Free, NoTab, NoDocument

ASSUME BoundsAssumption ==
    /\ MaxClients \in Nat /\ MaxScopes \in Nat \ {0}
    /\ MaxTokens \in Nat /\ MaxEvents \in Nat

ASSUME ConstantsAssumption ==
    /\ PanelTabs \subseteq Tabs /\ NoTab \notin Tabs
    /\ Guest \notin Users
    /\ Events \subseteq {"panel in", "panel out", "delete", "password", "regroup",
                         "close", "drop"}

Clients == 1..MaxClients
Scopes == 1..MaxScopes
Tokens == 1..MaxTokens
NoToken == 0

ASSUME TasksAssumption == Apis \cap Clients = {} /\ Free \notin Apis \cup Clients

(* The auto-login user is guest throughout.                                *)
AutoLogin == [user |-> Guest, group |-> 0, token |-> NoToken]
Absent == [user |-> Guest, group |-> 1, token |-> NoToken]
Nothing == [s \in Scopes |-> Absent]

(* A user's credential, numbered anew by every password change; 0 is no    *)
(* such user.                                                              *)
Credentials == 0..(MaxEvents + 1)
NoSession == [user |-> Guest, cred |-> 0]

NoTask ==
    [pc |-> "idle", does |-> "nothing", scope |-> 0, token |-> NoToken, user |-> Guest,
     doc |-> NoDocument, tokens |-> {}, clients |-> {}, pairs |-> {}, snap |-> {}]

VARIABLES
    doc,       \* users.json: the credential and the group of every user
    sessions,  \* _sessions
    issued,    \* the sign-ins begun so far
    born,      \* the connections made so far
    conn,      \* _connections
    owner,     \* the tab of each connection in _client_users
    held,      \* _client_users: the identity of every scope of a connection
    panels,    \* _client_panels: the connections named for the panel
    task,      \* the handler of every connection and API request
    loop,      \* the handler that runs, until its next await, or Free
    sock,      \* the open connection of every tab, or 0
    live,      \* the scope that a tab shows
    saved,     \* the token in its session storage
    shown,     \* the identity it was told for every scope
    events,    \* what MaxEvents counts
    raced      \* history variable: sign-ins that were revoked, or whose user
               \* was written, before they were over

tabVars == <<sock, live, saved, shown>>
vars == <<doc, sessions, issued, born, conn, owner, held, panels, task, loop, sock,
          live, saved, shown, events, raced>>

-----------------------------------------------------------------------------
Init ==
    /\ doc = [u \in Users |-> [cred |-> 1, group |-> 0]]
    /\ sessions = [t \in Tokens |-> NoSession]
    /\ issued = 0 /\ born = 0
    /\ conn = {} /\ owner = [c \in Clients |-> NoTab]
    /\ held = [c \in Clients |-> Nothing]
    /\ panels = {}
    /\ task = [k \in Clients \cup Apis |-> NoTask]
    /\ loop = Free
    /\ sock = [t \in Tabs |-> 0] /\ live = [t \in Tabs |-> 1]
    /\ saved = [t \in Tabs |-> NoToken]
    /\ shown = [t \in Tabs |-> Nothing]
    /\ events = 0 /\ raced = {}

Counted == events < MaxEvents /\ events' = events + 1

First(S) == CHOOSE n \in S : \A m \in S : n <= m

(* The connections in _client_users: those of a closed tab until their     *)
(* handler is over, and those a broadcast dropped, are among them.         *)
Known == {c \in Clients : owner[c] # NoTab}
Open(c) == c \in Known /\ sock[owner[c]] = c

(* Scopes with their identities.                                           *)
Pairs(cs) ==
    {[client |-> c, scope |-> s, identity |-> held[c][s]] :
        c \in cs, s \in Scopes}

Held(cs) == {p \in Pairs(cs) : p.identity # Absent}
TokensOf(pairs) == {p.identity.token : p \in pairs} \ {NoToken}

Hold(c, s, identity) == held' = [held EXCEPT ![c][s] = identity]

(* _send_identity: a tab that still listens is told what a scope holds,    *)
(* and saves the token if that scope is its live view's.                   *)
Send(c, s, identity) ==
    IF c \in conn /\ Open(c)
    THEN LET t == owner[c]
         IN  /\ shown' = [shown EXCEPT ![t][s] = identity]
             /\ saved' = IF live[t] = s THEN [saved EXCEPT ![t] = identity.token]
                         ELSE saved
             /\ UNCHANGED <<sock, live>>
    ELSE UNCHANGED tabVars

(* Sending is an await, unless the connection is no longer in _connections.*)
Yields(k, c) == loop' = IF c \in conn THEN Free ELSE k

Runs(k, pc) == task[k].pc = pc /\ loop \in {Free, k}

Request(a) ==
    /\ loop = Free /\ task[a] = NoTask /\ Counted

InFlight(t) == \E k \in DOMAIN task : task[k].token = t

(* _reset_sessions begins: the tokens are revoked before anything is sent. *)
Reset(k, tokens, started, job) ==
    /\ sessions' = [t \in Tokens |-> IF t \in tokens THEN NoSession ELSE started[t]]
    /\ raced' = raced \cup {t \in tokens : InFlight(t)}
    /\ task' = [task EXCEPT ![k] = [job EXCEPT !.pc = "reset", !.tokens = tokens,
                                    !.clients = Known \cap conn]]
    /\ loop' = k

-----------------------------------------------------------------------------
(* Connections.                                                            *)

Connect(t) ==
    /\ loop = Free /\ sock[t] = 0
    /\ born < MaxClients /\ born' = born + 1
    /\ conn' = conn \cup {born'}
    /\ owner' = [owner EXCEPT ![born'] = t]
    /\ sock' = [sock EXCEPT ![t] = born']
    /\ shown' = [shown EXCEPT ![t] = Nothing]
    /\ UNCHANGED <<doc, sessions, issued, held, panels, task, loop, live, saved, events,
                   raced>>

(* The tab goes away: a reload, a lost network.  What is sent to it from   *)
(* now on is lost.                                                         *)
Close(t) ==
    /\ "close" \in Events
    /\ sock[t] # 0 /\ Counted
    /\ sock' = [sock EXCEPT ![t] = 0]
    /\ UNCHANGED <<doc, sessions, issued, born, conn, owner, held, panels, task, loop,
                   live, saved, shown, raced>>

(* The receive loop sees it when the message before has been handled.      *)
DisconnectMutant(c) ==
    /\ loop = Free /\ c \in Known /\ ~Open(c)
    /\ task[c] = NoTask
    /\ conn' = conn \ {c}
    /\ owner' = [owner EXCEPT ![c] = NoTab]
    /\ held' = [held EXCEPT ![c] = Nothing]
    /\ UNCHANGED <<doc, sessions, issued, born, panels, task, loop, tabVars, events, raced>>

Disconnect(c) ==
    /\ loop = Free /\ c \in Known /\ ~Open(c)
    /\ task[c] = NoTask
    /\ conn' = conn \ {c}
    /\ owner' = [owner EXCEPT ![c] = NoTab]
    /\ held' = [held EXCEPT ![c] = Nothing]
    /\ panels' = panels \ {c}
    /\ UNCHANGED <<doc, sessions, issued, born, task, loop, tabVars, events, raced>>

(* _broadcast gives up on a connection that takes no message in time: it   *)
(* is sent nothing more, but its receive loop goes on.                     *)
Drop(c) ==
    /\ "drop" \in Events
    /\ loop = Free /\ c \in conn /\ Counted
    /\ conn' = conn \ {c}
    /\ UNCHANGED <<doc, sessions, issued, born, owner, held, panels, task, loop,
                   tabVars, raced>>

-----------------------------------------------------------------------------
(* Messages of a tab.                                                      *)

Receives(t) == loop = Free /\ sock[t] # 0 /\ task[sock[t]] = NoTask

(* The session's user still has the credential it was granted against.     *)
Current(session) ==
    session # NoSession /\ doc[session.user].cred = session.cred

(* _resume_session, and the auto-login user when it finds none.            *)
Resumed(token) ==
    IF token # NoToken /\ Current(sessions[token])
    THEN [user |-> sessions[token].user, group |-> doc[sessions[token].user].group,
          token |-> token]
    ELSE AutoLogin

(* A view asks for its identity: on every new connection, and when it is   *)
(* mounted again, which leaves its old scope behind.                       *)
RequestIdentity(t) ==
    LET c == sock[t]
        s == IF held[c][live[t]] = Absent THEN live[t] ELSE live[t] + 1
        identity == Resumed(saved[t])
        again == IF s = live[t] THEN 0 ELSE 1
    IN  /\ Receives(t) /\ s \in Scopes
        /\ events + again <= MaxEvents /\ events' = events + again
        /\ panels' = IF t \in PanelTabs THEN panels \cup {c} ELSE panels \ {c}
        /\ sessions' = IF saved[t] # NoToken /\ identity = AutoLogin
                       THEN [sessions EXCEPT ![saved[t]] = NoSession] ELSE sessions
        /\ Hold(c, s, identity)
        /\ live' = [live EXCEPT ![t] = s]
        /\ IF c \in conn
           THEN /\ shown' = [shown EXCEPT ![t][s] = identity]
                /\ saved' = [saved EXCEPT ![t] = identity.token]
           ELSE UNCHANGED <<shown, saved>>
        /\ UNCHANGED <<doc, issued, born, conn, owner, task, loop, sock, raced>>

(* users_manager.authenticate has read the document and hashes, in a       *)
(* thread.                                                                 *)
Hashing(k, does, scope, u) ==
    /\ issued < MaxTokens /\ issued' = issued + 1
    /\ doc[u].cred # 0
    /\ task' = [task EXCEPT ![k] = [NoTask EXCEPT !.pc = "hash", !.does = does,
                                    !.scope = scope, !.user = u, !.token = issued + 1,
                                    !.doc = doc]]

SignedIn(k) ==
    [user |-> task[k].user, group |-> task[k].doc[task[k].user].group,
     token |-> task[k].token]

(* _start_session, with the credential mark of the document that was read. *)
Started(k) ==
    [sessions EXCEPT ![task[k].token] =
        [user |-> task[k].user, cred |-> task[k].doc[task[k].user].cred]]

Login(t, u) ==
    LET c == sock[t]
    IN  /\ Receives(t) /\ c \in conn /\ held[c][live[t]] # Absent
        /\ Hashing(c, "login", live[t], u)
        /\ UNCHANGED <<doc, sessions, born, conn, owner, held, panels, loop, tabVars,
                       events, raced>>

(* The password was right.  The login is stored before the one it replaces *)
(* is revoked ...                                                          *)
LoginHashed(c) ==
    LET s == task[c].scope
    IN  /\ loop = Free /\ task[c].pc = "hash"
        /\ Hold(c, s, SignedIn(c))
        /\ Reset(c, {held[c][s].token} \ {NoToken}, Started(c), task[c])
        /\ UNCHANGED <<doc, issued, born, conn, owner, panels, tabVars, events>>

(* The connections that a reset has still to come to.                      *)
Holders(k) == {c \in task[k].clients : TokensOf(Pairs({c})) \cap task[k].tokens # {}}

Over(k) == Runs(k, "reset") /\ task[k].snap = {} /\ Holders(k) = {}

LoginAnswersMutant(c) ==
    /\ Over(c) /\ task[c].does = "login"
    /\ Send(c, task[c].scope, SignedIn(c))
    /\ task' = [task EXCEPT ![c] = NoTask]
    /\ loop' = Free
    /\ UNCHANGED <<doc, sessions, issued, born, conn, owner, held, panels, events, raced>>

(* ... and announced when that is over: as what the scope holds by then.   *)
LoginAnswers(c) ==
    /\ Over(c) /\ task[c].does = "login"
    /\ Send(c, task[c].scope, held[c][task[c].scope])
    /\ task' = [task EXCEPT ![c] = NoTask]
    /\ loop' = Free
    /\ UNCHANGED <<doc, sessions, issued, born, conn, owner, held, panels, events, raced>>

(* A logout stores and sends the auto-login user, then revokes.            *)
Logout(t) ==
    LET c == sock[t]
        s == live[t]
    IN  /\ Receives(t) /\ held[c][s] # Absent
        /\ Hold(c, s, AutoLogin) /\ Send(c, s, AutoLogin)
        /\ task' = [task EXCEPT ![c] = [NoTask EXCEPT !.pc = "revoke", !.does = "logout",
                                        !.tokens = {held[c][s].token} \ {NoToken}]]
        /\ Yields(c, c)
        /\ UNCHANGED <<doc, sessions, issued, born, conn, owner, panels, events, raced>>

LogoutRevokesMutant(c) ==
    /\ Runs(c, "revoke")
    /\ sessions' = [t \in Tokens |-> IF t \in task[c].tokens THEN NoSession
                                   ELSE sessions[t]]
    /\ task' = [task EXCEPT ![c] = NoTask]
    /\ loop' = Free
    /\ UNCHANGED <<doc, issued, born, conn, owner, held, panels, tabVars, events, raced>>

LogoutRevokes(c) ==
    /\ Runs(c, "revoke")
    /\ Reset(c, task[c].tokens, sessions, task[c])
    /\ UNCHANGED <<doc, issued, born, conn, owner, held, panels, tabVars, events>>

-----------------------------------------------------------------------------
(* _reset_sessions.                                                        *)

(* The scopes of the next connection are listed when its turn comes; one   *)
(* that signed in afresh during an earlier send is passed by.              *)
ResetScope(k) ==
    LET lists == task[k].snap = {}
        snap == IF lists THEN {p \in Pairs({First(Holders(k))}) :
                                  p.identity.token \in task[k].tokens}
                ELSE task[k].snap
    IN  /\ Runs(k, "reset")
        /\ lists => Holders(k) # {}
        /\ \E p \in snap :
              /\ task' = [task EXCEPT ![k].snap = snap \ {p},
                                      ![k].clients = {c \in @ : c > p.client}]
              /\ IF held[p.client][p.scope] = p.identity
                 THEN /\ Hold(p.client, p.scope, AutoLogin)
                      /\ Send(p.client, p.scope, AutoLogin)
                      /\ Yields(k, p.client)
                 ELSE loop' = k /\ UNCHANGED <<held, tabVars>>
        /\ UNCHANGED <<doc, sessions, issued, born, conn, owner, panels, events, raced>>

(* What refresh_identities makes of an identity.                           *)
Updated(identity, users) ==
    IF identity.user = Guest THEN identity
    ELSE IF users[identity.user].cred = 0 THEN AutoLogin
    ELSE [identity EXCEPT !.group = users[identity.user].group]

Outdated(k, c) ==
    {p \in Held({c}) : Updated(p.identity, task[k].doc) # p.identity}

Behind(k) == {c \in task[k].clients : Outdated(k, c) # {}}

Finished(k) ==
    \/ Over(k) /\ task[k].does \in {"logout", "panel in"}
    \/ Runs(k, "panel out") /\ task[k].pairs = {}
    \/ Runs(k, "refresh") /\ task[k].snap = {} /\ Behind(k) = {}

Finish(k) ==
    /\ Finished(k)
    /\ task' = [task EXCEPT ![k] = NoTask]
    /\ loop' = Free
    /\ UNCHANGED <<doc, sessions, issued, born, conn, owner, held, panels, tabVars, events,
                   raced>>

-----------------------------------------------------------------------------
(* Panel sign-in and sign-out.                                             *)

PanelIn(a, u) ==
    /\ "panel in" \in Events
    /\ Request(a) /\ panels # {}
    /\ Hashing(a, "panel in", 0, u)
    /\ UNCHANGED <<doc, sessions, born, conn, owner, held, panels, loop, tabVars,
                   raced>>

(* The panel's last screen may have closed meanwhile.                      *)
PanelInHashed(a) ==
    LET pairs == Held(panels \cap conn)
    IN  /\ loop = Free /\ task[a].pc = "hash"
        /\ IF panels = {}
           THEN /\ task' = [task EXCEPT ![a] = NoTask]
                /\ UNCHANGED <<sessions, loop>>
           ELSE /\ sessions' = Started(a)
                /\ task' = [task EXCEPT ![a].pc = "panel in", ![a].pairs = pairs,
                                        ![a].tokens = TokensOf(pairs)]
                /\ loop' = a
        /\ UNCHANGED <<doc, issued, born, conn, owner, held, panels, tabVars, events,
                       raced>>

(* One login on every scope that the panel had when the hash was done.     *)
PanelInScope(a) ==
    /\ Runs(a, "panel in")
    /\ \E p \in task[a].pairs :
          /\ task' = [task EXCEPT ![a].pairs = @ \ {p}]
          /\ IF held[p.client][p.scope] # Absent
             THEN /\ Hold(p.client, p.scope, SignedIn(a))
                  /\ Send(p.client, p.scope, SignedIn(a))
                  /\ Yields(a, p.client)
             ELSE loop' = a /\ UNCHANGED <<held, tabVars>>
    /\ UNCHANGED <<doc, sessions, issued, born, conn, owner, panels, events, raced>>

PanelInRevokes(a) ==
    /\ Runs(a, "panel in") /\ task[a].pairs = {}
    /\ Reset(a, task[a].tokens, sessions, task[a])
    /\ UNCHANGED <<doc, issued, born, conn, owner, held, panels, tabVars, events>>

PanelOut(a) ==
    LET pairs == Held(panels \cap conn)
    IN  /\ "panel out" \in Events
        /\ Request(a) /\ panels # {}
        /\ Reset(a, TokensOf(pairs), sessions,
                 [NoTask EXCEPT !.does = "panel out", !.pairs = pairs])
        /\ UNCHANGED <<doc, issued, born, conn, owner, held, panels, tabVars>>

PanelOutRest(a) ==
    /\ Over(a) /\ task[a].does = "panel out"
    /\ task' = [task EXCEPT ![a].pc = "panel out"]
    /\ loop' = a
    /\ UNCHANGED <<doc, sessions, issued, born, conn, owner, held, panels, tabVars, events,
                   raced>>

(* A login that a scope of the panel took during the reset ends too.       *)
PanelOutScope(a) ==
    /\ Runs(a, "panel out")
    /\ \E p \in task[a].pairs :
          LET now == held[p.client][p.scope]
          IN  /\ task' = [task EXCEPT ![a].pairs = @ \ {p}]
              /\ IF now \notin {Absent, AutoLogin}
                 THEN /\ sessions' = [t \in Tokens |->
                                         IF t = now.token THEN NoSession ELSE sessions[t]]
                      /\ raced' = raced \cup {now.token}
                      /\ Hold(p.client, p.scope, AutoLogin)
                      /\ Send(p.client, p.scope, AutoLogin)
                      /\ Yields(a, p.client)
                 ELSE loop' = a /\ UNCHANGED <<sessions, raced, held, tabVars>>
    /\ UNCHANGED <<doc, issued, born, conn, owner, panels, events>>

-----------------------------------------------------------------------------
(* Writes of users.json.                                                   *)

Changes(u) ==
    {[doc EXCEPT ![u].cred = 0] : x \in {"delete"} \cap Events}
    \cup {[doc EXCEPT ![u].cred = @ + 1] : x \in {"password"} \cap Events}
    \cup {[doc EXCEPT ![u].group = 1 - @] : x \in {"regroup"} \cap Events}

(* The document is saved; the refresh of the identities comes later.       *)
Write(a, u) ==
    /\ Request(a)
    /\ doc[u].cred # 0
    /\ doc' \in Changes(u)
    /\ task' = [task EXCEPT ![a] = [NoTask EXCEPT !.pc = "load", !.does = "refresh"]]
    /\ raced' = raced \cup {task[k].token : k \in {k \in DOMAIN task : task[k].user = u}}
    /\ UNCHANGED <<sessions, issued, born, conn, owner, held, panels, loop, tabVars>>

(* refresh_identities: first the logins whose credential is gone ...       *)
RefreshLoads(a) ==
    LET stale == {t \in Tokens : sessions[t] # NoSession /\ ~Current(sessions[t])}
    IN  /\ loop = Free /\ task[a].pc = "load"
        /\ Reset(a, stale, sessions, [task[a] EXCEPT !.doc = doc])
        /\ UNCHANGED <<doc, issued, born, conn, owner, held, panels, tabVars, events>>

RefreshRest(a) ==
    /\ Over(a) /\ task[a].does = "refresh"
    /\ task' = [task EXCEPT ![a].pc = "refresh", ![a].clients = Known]
    /\ loop' = a
    /\ UNCHANGED <<doc, sessions, issued, born, conn, owner, held, panels, tabVars, events,
                   raced>>

(* ... then every identity held by name.  What is written goes by the      *)
(* identity that was listed.                                               *)
RefreshScope(a) ==
    LET lists == task[a].snap = {}
        snap == IF lists THEN Outdated(a, First(Behind(a))) ELSE task[a].snap
    IN  /\ Runs(a, "refresh")
        /\ lists => Behind(a) # {}
        /\ \E p \in snap :
              LET updated == Updated(p.identity, task[a].doc)
              IN  /\ task' = [task EXCEPT ![a].snap = snap \ {p},
                                          ![a].clients = {c \in @ : c > p.client}]
                  /\ IF p.client \in Known
                     THEN /\ Hold(p.client, p.scope, updated)
                          /\ Send(p.client, p.scope, updated)
                     ELSE UNCHANGED <<held, tabVars>>
                  /\ Yields(a, p.client)
        /\ UNCHANGED <<doc, sessions, issued, born, conn, owner, panels, events, raced>>

-----------------------------------------------------------------------------
Next ==
    \/ \E t \in Tabs : Connect(t)
    \/ \E t \in Tabs : Close(t)
    \/ \E c \in Clients : Disconnect(c)
    \/ \E c \in Clients : Drop(c)
    \/ \E t \in Tabs : RequestIdentity(t)
    \/ \E t \in Tabs, u \in Users : Login(t, u)
    \/ \E c \in Clients : LoginHashed(c)
    \/ \E c \in Clients : LoginAnswers(c)
    \/ \E t \in Tabs : Logout(t)
    \/ \E c \in Clients : LogoutRevokes(c)
    \/ \E k \in Clients \cup Apis : ResetScope(k)
    \/ \E k \in Clients \cup Apis : Finish(k)
    \/ \E a \in Apis, u \in Users : PanelIn(a, u)
    \/ \E a \in Apis : PanelInHashed(a)
    \/ \E a \in Apis : PanelInScope(a)
    \/ \E a \in Apis : PanelInRevokes(a)
    \/ \E a \in Apis : PanelOut(a)
    \/ \E a \in Apis : PanelOutRest(a)
    \/ \E a \in Apis : PanelOutScope(a)
    \/ \E a \in Apis, u \in Users : Write(a, u)
    \/ \E a \in Apis : RefreshLoads(a)
    \/ \E a \in Apis : RefreshRest(a)
    \/ \E a \in Apis : RefreshScope(a)

Spec == Init /\ [][Next]_vars

-----------------------------------------------------------------------------
(* Type correctness.                                                       *)

Identities == [user : Users \cup {Guest}, group : {0, 1}, token : Tokens \cup {NoToken}]
Documents == [Users -> [cred : Credentials, group : {0, 1}]]
PairSet == [client : Clients, scope : Scopes, identity : Identities]

Jobs ==
    [pc : {"idle", "hash", "revoke", "reset", "panel in", "panel out", "load", "refresh"},
     does : {"nothing", "login", "logout", "panel in", "panel out", "refresh"},
     scope : Scopes \cup {0}, token : Tokens \cup {NoToken}, user : Users \cup {Guest},
     doc : Documents \cup {NoDocument}, tokens : SUBSET Tokens,
     clients : SUBSET Clients, pairs : SUBSET PairSet, snap : SUBSET PairSet]

(* Every variable holds a value the code could hold; only a handler that   *)
(* has something left to do has the event loop; a connection without a tab *)
(* has no identities and no panel.                                         *)
TypeOK ==
    /\ doc \in Documents
    /\ sessions \in [Tokens -> [user : Users, cred : Credentials] \cup {NoSession}]
    /\ issued \in 0..MaxTokens /\ born \in 0..MaxClients
    /\ conn \subseteq Known
    /\ owner \in [Clients -> Tabs \cup {NoTab}]
    /\ held \in [Clients -> [Scopes -> Identities]]
    /\ \A c \in Clients \ Known : held[c] = Nothing
    /\ panels \subseteq Known
    /\ task \in [Clients \cup Apis -> Jobs]
    /\ loop \in {Free} \cup {k \in DOMAIN task : task[k] # NoTask}
    /\ sock \in [Tabs -> Clients \cup {0}]
    /\ live \in [Tabs -> Scopes]
    /\ saved \in [Tabs -> Tokens \cup {NoToken}]
    /\ shown \in [Tabs -> [Scopes -> Identities]]
    /\ events \in 0..MaxEvents
    /\ raced \subseteq Tokens \cup {NoToken}

-----------------------------------------------------------------------------
(* Safety.                                                                 *)

Quiet == \A k \in DOMAIN task : task[k] = NoTask

(* "All monitors of a panel ... sign out together", and so does every tab  *)
(* that resumed the login: when the handlers are done, no connected scope  *)
(* holds a revoked login, whatever logins, remounts, reloads and resumes   *)
(* went on during the resets (_reset_sessions), and no connection, dropped *)
(* ones included, is signed in as a deleted user (refresh_identities).  A  *)
(* login revoked while its own sign-in was still being announced, and a    *)
(* sign-in that a write overtook, are not covered.                         *)
RevokedIsOut ==
    Quiet => \A p \in Held(Known) :
        LET t == p.identity.token
            u == p.identity.user
        IN  \/ p.client \in conn /\ t # NoToken /\ sessions[t] = NoSession
            \/ u # Guest /\ doc[u].cred = 0
            => t \in raced

(* "The tab must show what the server enforces": when the handlers are     *)
(* done, a connected tab shows for every scope the identity the server     *)
(* holds for it, and a reload resumes the login of its live view.          *)
TabShowsWhatIsHeld ==
    Quiet => \A t \in Tabs :
        LET c == sock[t]
        IN  c \in conn =>
               /\ shown[t] = held[c]
               /\ held[c][live[t]] # Absent => saved[t] = held[c][live[t]].token

(* A password change ends "every login of one whose password changed"      *)
(* (refresh_identities), but a sign-in that was under way.                 *)
OldPasswordIsOut ==
    Quiet => \A p \in Held({c \in conn : Open(c)}) :
        LET t == p.identity.token
        IN  t # NoToken /\ t \notin raced => Current(sessions[t])
=============================================================================
