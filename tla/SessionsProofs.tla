--------------------------- MODULE SessionsProofs ---------------------------
(***************************************************************************)
(* Invariance proofs for Sessions, for any number of tabs, users, handlers *)
(* and connections: for every kind of event, the shape of the state, and   *)
(* that a tab shows what the server holds for it; where users are at most  *)
(* deleted, that nobody stays signed in with a login that is gone.         *)
(***************************************************************************)
EXTENDS Sessions, WellFoundedInduction, TLAPS

DocInv ==
    /\ doc \in Documents
    /\ events \in 0..MaxEvents
    /\ \A u \in Users : doc[u].cred <= events + 1

LoginInv ==
    /\ sessions \in [Tokens -> [user : Users, cred : Credentials] \cup {NoSession}]
    /\ issued \in 0..MaxTokens
    /\ raced \subseteq Tokens \cup {NoToken}

(* Connections are numbered as they come, and an open one is its tab's.    *)
LinkInv ==
    /\ born \in 0..MaxClients
    /\ owner \in [Clients -> Tabs \cup {NoTab}]
    /\ sock \in [Tabs -> Clients \cup {0}]
    /\ conn \subseteq Known /\ panels \subseteq Known
    /\ \A c \in Clients : c > born => owner[c] = NoTab
    /\ \A t \in Tabs : sock[t] # 0 => owner[sock[t]] = t

HeldInv ==
    /\ held \in [Clients -> [Scopes -> Identities]]
    /\ \A c \in Clients : owner[c] = NoTab => held[c] = Nothing

TabInv ==
    /\ live \in [Tabs -> Scopes]
    /\ saved \in [Tabs -> Tokens \cup {NoToken}]
    /\ shown \in [Tabs -> [Scopes -> Identities]]

(* What a handler that is not over carries with it.                        *)
JobOK(k, job) ==
    /\ job \in Jobs
    /\ job.pc = "idle" => job = NoTask
    /\ k \in Clients /\ job.pc # "idle" => owner[k] # NoTab
    /\ job.does \in {"login", "panel in"} =>
         job.user \in Users /\ job.doc \in Documents /\ job.token \in Tokens
    /\ job.does = "login" => k \in Clients /\ job.scope \in Scopes
    /\ job.pc = "hash" => job.does = IF k \in Clients THEN "login" ELSE "panel in"
    /\ job.pc = "panel in" => job.does = "panel in"
    /\ job.pc \in {"load", "refresh"} => job.does = "refresh"
    /\ job.pc = "revoke" => job.does = "logout"
    /\ job.does = "refresh" /\ job.pc \in {"reset", "refresh"} => job.doc \in Documents
    /\ job.pc \notin {"reset", "refresh"} => job.snap = {}
    /\ job.pc = "reset" => \A p \in job.snap : p.identity.token # NoToken

TaskInv ==
    /\ task = [k \in Clients \cup Apis |-> task[k]]
    /\ \A k \in Clients \cup Apis : JobOK(k, task[k])
    /\ loop # Free => loop \in Clients \cup Apis /\ task[loop].pc # "idle"

(* A sign-in that was stored is announced when its reset is over.          *)
Announces(c, s) == task[c].pc = "reset" /\ task[c].does = "login" /\ task[c].scope = s

(* Until then, and only for that scope, a tab shows something else than    *)
(* the server holds, or has another token in its session storage.          *)
ToldInv ==
    \A t \in Tabs : sock[t] \in conn => \A s \in Scopes :
        \/ Announces(sock[t], s)
        \/ /\ shown[t][s] = held[sock[t]][s]
           /\ live[t] = s /\ held[sock[t]][s] # Absent => saved[t] = held[sock[t]][s].token

SessionInv == DocInv /\ LoginInv /\ LinkInv /\ HeldInv /\ TabInv /\ TaskInv /\ ToldInv

-----------------------------------------------------------------------------
(* Values.                                                                 *)

LEMMA FirstIsMember ==
    ASSUME NEW S \in SUBSET Nat, S # {}
    PROVE  First(S) \in S /\ \A m \in S : First(S) <= m
  <1>1. IsWellFoundedOn(OpToRel(<, Nat), Nat)
    BY NatLessThanWellFounded
  <1>2. PICK x \in S : \A y \in S : ~ (<<y, x>> \in OpToRel(<, Nat))
    BY <1>1, WFMin
  <1>3. \A y \in S : <<y, x>> \in OpToRel(<, Nat) <=> y < x
    BY DEF OpToRel
  <1>4. ASSUME NEW y \in S
        PROVE  x <= y
    <2>1. x \in Nat /\ y \in Nat
      OBVIOUS
    <2>2. ~(y < x)
      BY <1>2, <1>3
    <2>q. QED
      BY <2>1, <2>2
  <1>q. QED
    BY <1>4 DEF First

LEMMA Numbers ==
    /\ Clients \subseteq Nat \ {0} /\ Scopes \subseteq Nat /\ 1 \in Scopes
    /\ Tokens \subseteq Nat \ {0} /\ NoToken \notin Tokens
  BY BoundsAssumption DEF Clients, Scopes, Tokens, NoToken

LEMMA GuestIdentities ==
    /\ AutoLogin \in Identities /\ Absent \in Identities /\ AutoLogin # Absent
    /\ AutoLogin.token = NoToken /\ Absent.token = NoToken /\ AutoLogin.user = Guest /\ Absent.user = Guest
    /\ Nothing \in [Scopes -> Identities] /\ \A s \in Scopes : Nothing[s] = Absent
  <1>1. /\ AutoLogin \in Identities /\ Absent \in Identities /\ AutoLogin # Absent
        /\ AutoLogin.token = NoToken /\ Absent.token = NoToken
        /\ AutoLogin.user = Guest /\ Absent.user = Guest
    BY DEF AutoLogin, Absent, Identities
  <1>2. Nothing \in [Scopes -> Identities] /\ \A s \in Scopes : Nothing[s] = Absent
    BY <1>1 DEF Nothing
  <1>q. QED
    BY <1>1, <1>2

LEMMA NoTaskIsIdle ==
    /\ NoTask.pc = "idle" /\ NoTask.does = "nothing" /\ NoTask.snap = {}
    /\ \A k \in Clients \cup Apis : JobOK(k, NoTask)
  BY DEF NoTask, JobOK, Jobs

LEMMA PairsType ==
    ASSUME HeldInv, NEW cs \in SUBSET Clients
    PROVE  /\ Pairs(cs) \subseteq PairSet /\ Held(cs) \subseteq PairSet
           /\ \A p \in Pairs(cs) : p.client \in cs /\ p.scope \in Scopes
                                   /\ p.identity = held[p.client][p.scope]
           /\ TokensOf(Pairs(cs)) \subseteq Tokens /\ TokensOf(Held(cs)) \subseteq Tokens
  <1>1. Pairs(cs) \subseteq PairSet
    BY DEF HeldInv, Pairs, PairSet
  <1>2. \A p \in Pairs(cs) : p.client \in cs /\ p.scope \in Scopes
                             /\ p.identity = held[p.client][p.scope]
    BY DEF Pairs
  <1>3. Held(cs) \subseteq Pairs(cs)
    BY DEF Held
  <1>4. ASSUME NEW S \in SUBSET PairSet
        PROVE  TokensOf(S) \subseteq Tokens
    BY DEF TokensOf, PairSet, Identities
  <1>5. Held(cs) \subseteq PairSet
    BY <1>1, <1>3
  <1>q. QED
    BY <1>1, <1>2, <1>4, <1>5

LEMMA ResumedType ==
    ASSUME DocInv, LoginInv, NEW token \in Tokens \cup {NoToken}
    PROVE  Resumed(token) \in Identities /\ Resumed(token) # Absent
  <1>1. CASE token # NoToken /\ Current(sessions[token])
    <2>1. sessions[token].user \in Users /\ token \in Tokens
      BY <1>1 DEF LoginInv, Current
    <2>2. doc[sessions[token].user].group \in {0, 1}
      BY <2>1 DEF DocInv, Documents
    <2>3. Resumed(token) = [user |-> sessions[token].user,
                            group |-> doc[sessions[token].user].group, token |-> token]
      BY <1>1 DEF Resumed
    <2>4. Resumed(token) \in Identities
      BY <2>1, <2>2, <2>3 DEF Identities
    <2>5. Resumed(token).user \in Users
      BY <2>1, <2>3
    <2>q. QED
      BY <2>4, <2>5, ConstantsAssumption, GuestIdentities
  <1>2. CASE ~(token # NoToken /\ Current(sessions[token]))
    <2>1. Resumed(token) = AutoLogin
      BY <1>2 DEF Resumed, Current
    <2>q. QED
      BY <2>1, GuestIdentities
  <1>q. QED
    BY <1>1, <1>2

LEMMA SignedInType ==
    ASSUME NEW k \in Clients \cup Apis, JobOK(k, task[k]), task[k].does \in {"login", "panel in"},
           LoginInv
    PROVE  /\ SignedIn(k) \in Identities /\ SignedIn(k) # Absent /\ task[k].token \in Tokens
           /\ Started(k) \in [Tokens -> [user : Users, cred : Credentials] \cup {NoSession}]
  <1>1. /\ task[k].user \in Users /\ task[k].doc \in Documents /\ task[k].token \in Tokens
    BY DEF JobOK
  <1>2. task[k].doc[task[k].user] \in [cred : Credentials, group : {0, 1}]
    BY <1>1 DEF Documents
  <1>3. SignedIn(k) \in Identities
    BY <1>1, <1>2 DEF SignedIn, Identities
  <1>4. SignedIn(k).user # Absent.user
    BY <1>1, ConstantsAssumption, GuestIdentities DEF SignedIn
  <1>5. Started(k) \in [Tokens -> [user : Users, cred : Credentials] \cup {NoSession}]
    BY <1>1, <1>2 DEF Started, LoginInv
  <1>q. QED
    BY <1>1, <1>3, <1>4, <1>5

LEMMA UpdatedType ==
    ASSUME NEW identity \in Identities, NEW users \in Documents
    PROVE  Updated(identity, users) \in Identities
  <1>1. CASE identity.user = Guest
    BY <1>1 DEF Updated
  <1>2. CASE identity.user # Guest
    <2>1. identity.user \in Users
      BY <1>2 DEF Identities
    <2>2. users[identity.user].group \in {0, 1}
      BY <2>1 DEF Documents
    <2>3. [identity EXCEPT !.group = users[identity.user].group] \in Identities
      BY <2>2 DEF Identities
    <2>4. Updated(identity, users) \in {AutoLogin, [identity EXCEPT !.group = users[identity.user].group]}
      BY <1>2 DEF Updated
    <2>q. QED
      BY <2>3, <2>4, GuestIdentities
  <1>q. QED
    BY <1>1, <1>2

-----------------------------------------------------------------------------
(* What the helpers of the actions do.                                     *)

(* A handler goes on, or ends, and keeps or frees the loop.                *)
LEMMA OneTask ==
    ASSUME TaskInv, NEW k \in Clients \cup Apis, NEW job, JobOK(k, job), UNCHANGED owner,
           task' = [task EXCEPT ![k] = job], loop' = Free \/ (loop' = k /\ job.pc # "idle")
    PROVE  /\ TaskInv'
           /\ \A j \in Clients \cup Apis : task'[j] = IF j = k THEN job ELSE task[j]
  <1>1. \A j \in Clients \cup Apis : task'[j] = IF j = k THEN job ELSE task[j]
    BY DEF TaskInv
  <1>2. task' = [j \in Clients \cup Apis |-> task'[j]]
    BY DEF TaskInv
  <1>3. \A j \in Clients \cup Apis : JobOK(j, task'[j])
    BY <1>1 DEF TaskInv
  <1>4. (\A j \in Clients \cup Apis : JobOK(j, task[j]))'
    BY <1>3 DEF JobOK
  <1>5. loop' # Free => loop' \in Clients \cup Apis /\ task'[loop'].pc # "idle"
    BY <1>1
  <1>q. QED
    BY <1>1, <1>2, <1>4, <1>5 DEF TaskInv

(* A handler is over.                                                      *)
LEMMA TaskOver ==
    ASSUME TaskInv, NEW k \in Clients \cup Apis, UNCHANGED owner,
           task' = [task EXCEPT ![k] = NoTask], loop' = Free
    PROVE  /\ TaskInv'
           /\ \A j \in Clients \cup Apis : task'[j] = IF j = k THEN NoTask ELSE task[j]
  <1>1. JobOK(k, NoTask)
    BY NoTaskIsIdle
  <1>2. loop' = Free \/ (loop' = k /\ NoTask.pc # "idle")
    OBVIOUS
  <1>q. QED
    BY <1>1, <1>2, OneTask

LEMMA SameTasks ==
    ASSUME TaskInv, UNCHANGED <<task, loop>>,
           \A c \in Clients : task[c].pc # "idle" /\ owner[c] # NoTab => owner'[c] # NoTab
    PROVE  TaskInv'
  <1>1. \A k \in Clients \cup Apis : JobOK(k, task[k])'
    BY DEF TaskInv, JobOK
  <1>q. QED
    BY <1>1 DEF TaskInv

LEMMA SameLinks ==
    ASSUME LinkInv, UNCHANGED <<born, owner, sock, conn, panels>>
    PROVE  LinkInv'
  BY DEF LinkInv, Known

LEMMA SameHeld ==
    ASSUME HeldInv, UNCHANGED <<held, owner>>
    PROVE  HeldInv'
  BY DEF HeldInv

LEMMA SameTab ==
    ASSUME TabInv, UNCHANGED <<live, saved, shown>>
    PROVE  TabInv'
  BY DEF TabInv

LEMMA SameDoc ==
    ASSUME DocInv, UNCHANGED <<doc, events>>
    PROVE  DocInv'
  BY DEF DocInv

(* Nothing that a tab shows, or that is held for it, changes, and no       *)
(* announcement is forgotten.                                              *)
LEMMA SameTold ==
    ASSUME ToldInv, UNCHANGED <<held, tabVars>>, conn' \subseteq conn, LinkInv,
           \A c \in Clients, s \in Scopes : Announces(c, s) => Announces(c, s)'
    PROVE  ToldInv'
  <1> SUFFICES ASSUME NEW t \in Tabs, sock[t] \in conn, NEW s \in Scopes
               PROVE  \/ Announces(sock[t], s)'
                      \/ /\ shown[t][s] = held[sock[t]][s]
                         /\ live[t] = s /\ held[sock[t]][s] # Absent
                               => saved[t] = held[sock[t]][s].token
    BY DEF ToldInv, tabVars
  <1>1. sock[t] \in Clients
    BY DEF LinkInv, Known
  <1>2. UNCHANGED sock
    BY DEF tabVars
  <1>q. QED
    BY <1>1, <1>2 DEF ToldInv

(* A scope gets a new identity, and its tab is told at once.               *)
LEMMA HoldAndSend ==
    ASSUME LinkInv, HeldInv, TabInv, UNCHANGED <<conn, owner>>,
           NEW c \in Known, NEW s \in Scopes, NEW identity \in Identities,
           Hold(c, s, identity), Send(c, s, identity)
    PROVE  /\ HeldInv' /\ TabInv' /\ UNCHANGED <<sock, live>>
           /\ \A t \in Tabs : sock[t] \in conn => \A r \in Scopes :
                 IF sock[t] = c /\ r = s
                 THEN /\ shown'[t][r] = identity /\ held'[sock[t]][r] = identity
                      /\ live[t] = r => saved'[t] = identity.token
                 ELSE /\ shown'[t][r] = shown[t][r] /\ held'[sock[t]][r] = held[sock[t]][r]
                      /\ live[t] = r => saved'[t] = saved[t]
  <1>1. c \in Clients /\ owner[c] \in Tabs
    BY DEF Known, LinkInv
  <1>2. \A d \in Clients, r \in Scopes :
           held'[d][r] = IF d = c /\ r = s THEN identity ELSE held[d][r]
    BY <1>1 DEF Hold, HeldInv
  <1>3. HeldInv'
    <2>1. held' \in [Clients -> [Scopes -> Identities]]
      BY <1>1 DEF Hold, HeldInv
    <2>2. \A d \in Clients \ {c} : held'[d] = held[d]
      BY <1>1 DEF Hold, HeldInv
    <2>q. QED
      BY <2>1, <2>2 DEF HeldInv, Known
  <1>4. CASE c \in conn /\ sock[owner[c]] = c
    <2>1. /\ shown' = [shown EXCEPT ![owner[c]][s] = identity]
          /\ saved' = IF live[owner[c]] = s THEN [saved EXCEPT ![owner[c]] = identity.token]
                      ELSE saved
          /\ UNCHANGED <<sock, live>>
      BY <1>4 DEF Send, Open
    <2>2. TabInv'
      <3>1. identity.token \in Tokens \cup {NoToken}
        BY DEF Identities
      <3>q. QED
        BY <1>1, <2>1, <3>1 DEF TabInv
    <2>3. \A t \in Tabs : sock[t] = c => t = owner[c]
      BY <1>1, Numbers DEF LinkInv
    <2>4. \A t \in Tabs, r \in Scopes :
             /\ shown'[t][r] = IF t = owner[c] /\ r = s THEN identity ELSE shown[t][r]
             /\ saved'[t] = IF t = owner[c] /\ live[t] = s THEN identity.token ELSE saved[t]
      BY <1>1, <2>1 DEF TabInv
    <2>5. \A t \in Tabs : sock[t] \in conn => sock[t] \in Clients /\ (t = owner[c] => sock[t] = c)
      BY <1>4 DEF LinkInv, Known
    <2>q. QED
      BY <1>2, <1>3, <2>1, <2>2, <2>3, <2>4, <2>5
  <1>5. CASE ~(c \in conn /\ sock[owner[c]] = c)
    <2>1. UNCHANGED tabVars
      BY <1>5 DEF Send, Open
    <2>2. TabInv'
      BY <2>1 DEF TabInv, tabVars
    <2>3. \A t \in Tabs : sock[t] \in conn => sock[t] \in Clients /\ sock[t] # c
      BY <1>1, <1>5, Numbers DEF LinkInv, Known
    <2>q. QED
      BY <1>2, <1>3, <2>1, <2>2, <2>3 DEF tabVars
  <1>q. QED
    BY <1>4, <1>5

LEMMA ToldAtOnce ==
    ASSUME LinkInv, HeldInv, TabInv, ToldInv, UNCHANGED <<conn, owner>>,
           NEW c \in Known, NEW s \in Scopes, NEW identity \in Identities,
           Hold(c, s, identity), Send(c, s, identity),
           \A d \in Clients, r \in Scopes : Announces(d, r) => Announces(d, r)' \/ (d = c /\ r = s)
    PROVE  HeldInv' /\ TabInv' /\ UNCHANGED <<sock, live>> /\ ToldInv'
  <1>1. /\ HeldInv' /\ TabInv' /\ UNCHANGED <<sock, live>>
        /\ \A t \in Tabs : sock[t] \in conn => \A r \in Scopes :
              IF sock[t] = c /\ r = s
              THEN /\ shown'[t][r] = identity /\ held'[sock[t]][r] = identity
                   /\ live[t] = r => saved'[t] = identity.token
              ELSE /\ shown'[t][r] = shown[t][r] /\ held'[sock[t]][r] = held[sock[t]][r]
                   /\ live[t] = r => saved'[t] = saved[t]
    BY HoldAndSend
  <1>2. ASSUME NEW t \in Tabs, sock[t] \in conn, NEW r \in Scopes
        PROVE  \/ Announces(sock[t], r)'
               \/ /\ shown'[t][r] = held'[sock[t]][r]
                  /\ live[t] = r /\ held'[sock[t]][r] # Absent => saved'[t] = held'[sock[t]][r].token
    <2>1. sock[t] \in Clients
      BY <1>2 DEF LinkInv, Known
    <2>2. CASE sock[t] = c /\ r = s
      BY <1>1, <1>2, <2>2
    <2>3. CASE ~(sock[t] = c /\ r = s)
      BY <1>1, <1>2, <2>1, <2>3 DEF ToldInv
    <2>q. QED
      BY <2>2, <2>3
  <1>3. ToldInv'
    BY <1>1, <1>2 DEF ToldInv
  <1>q. QED
    BY <1>1, <1>3

-----------------------------------------------------------------------------
(* Connections and views.                                                  *)

LEMMA EventCounted ==
    ASSUME DocInv, Counted, UNCHANGED doc
    PROVE  DocInv'
  <1>1. \A u \in Users : doc[u].cred \in Nat
    BY BoundsAssumption DEF DocInv, Documents, Credentials
  <1>2. events' \in 0..MaxEvents /\ events' = events + 1 /\ events \in Nat
    BY BoundsAssumption DEF DocInv, Counted
  <1>q. QED
    BY <1>1, <1>2 DEF DocInv

LEMMA ConnectKept ==
    ASSUME SessionInv, NEW t \in Tabs, Connect(t)
    PROVE  SessionInv'
  <1> USE DEF SessionInv
  <1>1. /\ sock[t] = 0 /\ born' = born + 1 /\ born' \in Clients /\ owner[born'] = NoTab
        /\ conn' = conn \cup {born'} /\ owner' = [owner EXCEPT ![born'] = t]
        /\ sock' = [sock EXCEPT ![t] = born'] /\ shown' = [shown EXCEPT ![t] = Nothing]
        /\ UNCHANGED <<doc, sessions, issued, held, panels, task, loop, live, saved, events,
                       raced>>
    BY BoundsAssumption DEF Connect, LinkInv, Clients
  <1>2. DocInv' /\ LoginInv'
    BY <1>1 DEF DocInv, LoginInv
  <1>3. \A c \in Clients : owner'[c] = IF c = born' THEN t ELSE owner[c]
    BY <1>1 DEF LinkInv
  <1>4. LinkInv'
    <2>1. conn' \subseteq Known' /\ panels' \subseteq Known'
      BY <1>1, <1>3, ConstantsAssumption DEF LinkInv, Known
    <2>2. born' \in 0..MaxClients /\ \A c \in Clients : c > born' => owner'[c] = NoTab
      BY <1>1, <1>3, BoundsAssumption DEF LinkInv, Clients
    <2>3. \A r \in Tabs : sock'[r] # 0 => owner'[sock'[r]] = r
      BY <1>1, <1>3, ConstantsAssumption DEF LinkInv
    <2>q. QED
      BY <1>1, <2>1, <2>2, <2>3 DEF LinkInv
  <1>5. HeldInv' /\ TabInv'
    BY <1>1, <1>3, GuestIdentities, ConstantsAssumption DEF HeldInv, TabInv
  <1>6. TaskInv'
    BY <1>1, <1>3, ConstantsAssumption, SameTasks
  <1>7. ToldInv'
    <2> SUFFICES ASSUME NEW r \in Tabs, sock'[r] \in conn', NEW s \in Scopes
                 PROVE  \/ Announces(sock[r], s)'
                        \/ /\ shown'[r][s] = held'[sock'[r]][s]
                           /\ live'[r] = s /\ held'[sock'[r]][s] # Absent
                                => saved'[r] = held'[sock'[r]][s].token
      BY DEF ToldInv
    <2>1. CASE r = t
      <3>1. sock'[r] = born' /\ shown'[r] = Nothing /\ held'[born'] = Nothing
        BY <1>1, <2>1 DEF LinkInv, TabInv, HeldInv
      <3>q. QED
        BY <3>1, GuestIdentities
    <2>2. CASE r # t
      <3>1. sock'[r] = sock[r] /\ shown'[r] = shown[r] /\ sock[r] \in conn
        BY <1>1, <2>2, ConstantsAssumption, Numbers DEF LinkInv, TabInv
      <3>q. QED
        BY <1>1, <3>1 DEF ToldInv, Announces
    <2>q. QED
      BY <2>1, <2>2
  <1>q. QED
    BY <1>2, <1>4, <1>5, <1>6, <1>7

LEMMA CloseKept ==
    ASSUME SessionInv, NEW t \in Tabs, Close(t)
    PROVE  SessionInv'
  <1> USE DEF SessionInv
  <1>1. /\ Counted /\ sock' = [sock EXCEPT ![t] = 0]
        /\ UNCHANGED <<doc, sessions, issued, born, conn, owner, held, panels, task, loop,
                       live, saved, shown, raced>>
    BY DEF Close
  <1>2. DocInv' /\ LoginInv'
    BY <1>1, EventCounted DEF LoginInv
  <1>3. LinkInv'
    BY <1>1 DEF LinkInv, Known
  <1>4. HeldInv' /\ TabInv' /\ TaskInv'
    BY <1>1, SameHeld, SameTab, SameTasks
  <1>5. ToldInv'
    <2>1. \A r \in Tabs : sock'[r] \in conn' => sock'[r] = sock[r] /\ sock[r] \in conn
      BY <1>1, Numbers DEF LinkInv, Known
    <2>q. QED
      BY <1>1, <2>1 DEF ToldInv, Announces
  <1>q. QED
    BY <1>2, <1>3, <1>4, <1>5

LEMMA DisconnectKept ==
    ASSUME SessionInv, NEW c \in Clients, Disconnect(c)
    PROVE  SessionInv'
  <1> USE DEF SessionInv
  <1>1. /\ task[c] = NoTask /\ owner[c] # NoTab /\ sock[owner[c]] # c
        /\ conn' = conn \ {c} /\ owner' = [owner EXCEPT ![c] = NoTab]
        /\ held' = [held EXCEPT ![c] = Nothing] /\ panels' = panels \ {c}
        /\ UNCHANGED <<doc, sessions, issued, born, task, loop, tabVars, events, raced>>
    BY DEF Disconnect, Known, Open
  <1>2. DocInv' /\ LoginInv' /\ TabInv' /\ UNCHANGED <<sock, live, saved, shown>>
    BY <1>1 DEF DocInv, LoginInv, TabInv, tabVars
  <1>3. \A d \in Clients : /\ owner'[d] = IF d = c THEN NoTab ELSE owner[d]
                           /\ held'[d] = IF d = c THEN Nothing ELSE held[d]
    BY <1>1 DEF LinkInv, HeldInv
  <1>4. \A t \in Tabs : sock[t] # c
    BY <1>1, Numbers DEF LinkInv
  <1>5. LinkInv'
    <2>1. conn' \subseteq Known' /\ panels' \subseteq Known'
      BY <1>1, <1>3 DEF LinkInv, Known
    <2>2. \A d \in Clients : d > born' => owner'[d] = NoTab
      BY <1>1, <1>3 DEF LinkInv
    <2>3. \A r \in Tabs : sock'[r] # 0 => owner'[sock'[r]] = r
      BY <1>2, <1>3, <1>4 DEF LinkInv
    <2>q. QED
      BY <1>1, <1>2, <2>1, <2>2, <2>3 DEF LinkInv
  <1>6. HeldInv'
    BY <1>1, <1>3, GuestIdentities DEF HeldInv
  <1>7. TaskInv'
    BY <1>1, <1>3, NoTaskIsIdle, SameTasks
  <1>8. ToldInv'
    <2>1. \A r \in Tabs : sock'[r] \in conn' =>
             sock'[r] = sock[r] /\ sock[r] \in conn /\ held'[sock[r]] = held[sock[r]]
      BY <1>1, <1>2, <1>3, <1>4 DEF LinkInv, Known
    <2>q. QED
      BY <1>1, <1>2, <2>1 DEF ToldInv, Announces
  <1>q. QED
    BY <1>2, <1>5, <1>6, <1>7, <1>8

LEMMA DropKept ==
    ASSUME SessionInv, NEW c \in Clients, Drop(c)
    PROVE  SessionInv'
  <1> USE DEF SessionInv
  <1>1. /\ Counted /\ conn' = conn \ {c}
        /\ UNCHANGED <<doc, sessions, issued, born, owner, held, panels, task, loop,
                       tabVars, raced>>
    BY DEF Drop
  <1>2. DocInv' /\ LoginInv'
    BY <1>1, EventCounted DEF LoginInv
  <1>3. LinkInv' /\ TabInv'
    BY <1>1 DEF LinkInv, Known, TabInv, tabVars
  <1>4. HeldInv' /\ TaskInv'
    BY <1>1, SameHeld, SameTasks
  <1>5. ToldInv'
    BY <1>1, SameTold DEF Announces
  <1>q. QED
    BY <1>2, <1>3, <1>4, <1>5

LEMMA RequestIdentityKept ==
    ASSUME SessionInv, NEW t \in Tabs, RequestIdentity(t)
    PROVE  SessionInv'
  <1> USE DEF SessionInv
  <1> DEFINE c == sock[t]
             s == IF held[c][live[t]] = Absent THEN live[t] ELSE live[t] + 1
             identity == Resumed(saved[t])
  <1>1. /\ c # 0 /\ task[c] = NoTask /\ s \in Scopes
        /\ events' \in {events, events + 1} /\ events' <= MaxEvents
        /\ panels' \in {panels \cup {c}, panels \ {c}}
        /\ sessions' = IF saved[t] # NoToken /\ identity = AutoLogin
                       THEN [sessions EXCEPT ![saved[t]] = NoSession] ELSE sessions
        /\ held' = [held EXCEPT ![c][s] = identity]
        /\ live' = [live EXCEPT ![t] = s]
        /\ IF c \in conn
           THEN /\ shown' = [shown EXCEPT ![t][s] = identity]
                /\ saved' = [saved EXCEPT ![t] = identity.token]
           ELSE UNCHANGED <<shown, saved>>
        /\ UNCHANGED <<doc, issued, born, conn, owner, task, loop, sock, raced>>
    <2>1. events \in Nat
      BY DEF DocInv
    <2>q. QED
      BY <2>1 DEF RequestIdentity, Receives, Hold
  <1>2. c \in Clients /\ c \in Known /\ owner[c] = t
    BY <1>1, ConstantsAssumption DEF LinkInv, Known
  <1>3. identity \in Identities /\ identity # Absent
    BY ResumedType DEF TabInv
  <1> HIDE DEF c, s, identity
  <1>4. DocInv'
    <2>1. \A u \in Users : doc[u].cred \in Nat
      BY BoundsAssumption DEF DocInv, Documents, Credentials
    <2>2. events \in Nat /\ events' \in 0..MaxEvents /\ events' >= events
      BY <1>1, BoundsAssumption DEF DocInv
    <2>q. QED
      BY <1>1, <2>1, <2>2 DEF DocInv
  <1>5. LoginInv'
    BY <1>1 DEF LoginInv
  <1>6. LinkInv'
    BY <1>1, <1>2 DEF LinkInv, Known
  <1>7. HeldInv'
    <2>1. held' \in [Clients -> [Scopes -> Identities]]
      BY <1>1, <1>2, <1>3 DEF HeldInv
    <2>2. \A d \in Clients \ {c} : held'[d] = held[d]
      BY <1>1 DEF HeldInv
    <2>q. QED
      BY <1>1, <1>2, <2>1, <2>2 DEF HeldInv, Known
  <1>8. TabInv'
    <2>1. identity.token \in Tokens \cup {NoToken}
      BY <1>3 DEF Identities
    <2>2. shown' \in [Tabs -> [Scopes -> Identities]]
      <3>1. shown' = [shown EXCEPT ![t][s] = identity] \/ shown' = shown
        BY <1>1
      <3>2. shown \in [Tabs -> [Scopes -> Identities]] /\ s \in Scopes
        BY <1>1 DEF TabInv
      <3>q. QED
        BY <1>3, <3>1, <3>2
    <2>4. saved' \in [Tabs -> Tokens \cup {NoToken}]
      BY <1>1, <2>1 DEF TabInv
    <2>3. live' \in [Tabs -> Scopes]
      BY <1>1 DEF TabInv
    <2>q. QED
      BY <2>2, <2>3, <2>4 DEF TabInv
  <1>9. TaskInv'
    BY <1>1, SameTasks
  <1>10. ToldInv'
    <2> SUFFICES ASSUME NEW r \in Tabs, sock[r] \in conn, NEW z \in Scopes
                 PROVE  \/ Announces(sock[r], z)
                        \/ /\ shown'[r][z] = held'[sock[r]][z]
                           /\ live'[r] = z /\ held'[sock[r]][z] # Absent
                                => saved'[r] = held'[sock[r]][z].token
      BY <1>1 DEF ToldInv, Announces
    <2>1. sock[r] \in Clients /\ (sock[r] = c <=> r = t)
      BY <1>1, <1>2, Numbers DEF LinkInv, Known, c
    <2>2. CASE r = t
      <3>1. c \in conn /\ ~Announces(c, z) /\ sock[r] = c
        BY <1>1, <2>1, <2>2, NoTaskIsIdle DEF Announces
      <3>2. /\ shown'[t] = [shown[t] EXCEPT ![s] = identity]
            /\ held'[c] = [held[c] EXCEPT ![s] = identity]
            /\ saved'[t] = identity.token /\ live'[t] = s
        BY <1>1, <1>2, <3>1 DEF TabInv, HeldInv
      <3>3. shown[t][z] = held[c][z]
        BY <2>2, <3>1 DEF ToldInv
      <3>4. shown[t] \in [Scopes -> Identities] /\ held[c] \in [Scopes -> Identities]
        BY <1>2 DEF TabInv, HeldInv
      <3>q. QED
        BY <1>1, <2>2, <3>1, <3>2, <3>3, <3>4
    <2>3. CASE r # t
      <3>1. /\ shown'[r] = shown[r] /\ held'[sock[r]] = held[sock[r]]
            /\ saved'[r] = saved[r] /\ live'[r] = live[r]
        BY <1>1, <2>1, <2>3 DEF TabInv, HeldInv
      <3>q. QED
        BY <3>1 DEF ToldInv
    <2>q. QED
      BY <2>2, <2>3
  <1>q. QED
    BY <1>4, <1>5, <1>6, <1>7, <1>8, <1>9, <1>10

-----------------------------------------------------------------------------
(* Sign-ins, sign-outs and resets.                                         *)

LEMMA NextToken ==
    ASSUME LoginInv, issued < MaxTokens
    PROVE  issued + 1 \in Tokens /\ issued + 1 \in 0..MaxTokens
  <1>1. issued \in 0..MaxTokens
    BY DEF LoginInv
  <1>q. QED
    BY <1>1, BoundsAssumption DEF Tokens

LEMMA HashJob ==
    ASSUME SessionInv, NEW k \in Clients \cup Apis, NEW does \in {"login", "panel in"},
           NEW scope \in Scopes \cup {0}, NEW u \in Users, Hashing(k, does, scope, u),
           IF k \in Clients THEN does = "login" /\ scope \in Scopes /\ owner[k] # NoTab
                            ELSE does = "panel in",
           task[k].pc = "idle", UNCHANGED <<owner, loop, sessions, raced>>, loop = Free
    PROVE  /\ TaskInv' /\ LoginInv'
           /\ \A c \in Clients, s \in Scopes : Announces(c, s) => Announces(c, s)'
  <1> USE DEF SessionInv
  <1> DEFINE job == [NoTask EXCEPT !.pc = "hash", !.does = does, !.scope = scope, !.user = u,
                                   !.token = issued + 1, !.doc = doc]
  <1>0. DocInv /\ LoginInv /\ TaskInv
    OBVIOUS
  <1>a. issued < MaxTokens
    BY DEF Hashing
  <1>b. issued + 1 \in Tokens /\ issued + 1 \in 0..MaxTokens
    BY <1>0, <1>a, NextToken
  <1>1. issued + 1 \in Tokens /\ issued' = issued + 1 /\ task' = [task EXCEPT ![k] = job]
    BY <1>b DEF Hashing
  <1>c. /\ job.pc = "hash" /\ job.does = does /\ job.scope = scope /\ job.user = u
        /\ job.token = issued + 1 /\ job.doc = doc /\ job.snap = {}
    BY DEF NoTask
  <1>d. job \in Jobs
    BY <1>0, <1>b DEF Jobs, NoTask, DocInv
  <1>3. job.pc = "hash"
    BY <1>c
  <1> HIDE DEF job
  <1>2. JobOK(k, job)
    BY <1>0, <1>b, <1>c, <1>d DEF JobOK, DocInv
  <1>4. TaskInv' /\ \A j \in Clients \cup Apis : task'[j] = IF j = k THEN job ELSE task[j]
    <2>1. loop' = Free /\ UNCHANGED owner
      OBVIOUS
    <2>q. QED
      BY <1>0, <1>1, <1>2, <2>1, OneTask
  <1>5. LoginInv'
    BY <1>0, <1>1, <1>b DEF LoginInv
  <1>6. \A c \in Clients, s \in Scopes : Announces(c, s) => Announces(c, s)'
    BY <1>4 DEF Announces
  <1>q. QED
    BY <1>4, <1>5, <1>6

LEMMA ResetBegins ==
    ASSUME SessionInv, NEW k \in Clients \cup Apis, NEW tokens \in SUBSET Tokens,
           NEW started \in [Tokens -> [user : Users, cred : Credentials] \cup {NoSession}],
           NEW job \in Jobs, job.snap = {}, k \in Clients => owner[k] # NoTab,
           job.does \in {"login", "panel in"} =>
               job.user \in Users /\ job.doc \in Documents /\ job.token \in Tokens,
           job.does = "login" => k \in Clients /\ job.scope \in Scopes,
           job.does = "refresh" => job.doc \in Documents,
           Reset(k, tokens, started, job), UNCHANGED <<owner, issued>>
    PROVE  /\ TaskInv' /\ LoginInv'
           /\ \A j \in Clients \cup Apis : j # k => task'[j] = task[j]
           /\ \A s \in Scopes : job.does = "login" /\ job.scope = s => Announces(k, s)'
  <1> USE DEF SessionInv
  <1> DEFINE next == [job EXCEPT !.pc = "reset", !.tokens = tokens, !.clients = Known \cap conn]
  <1>1. /\ task' = [task EXCEPT ![k] = next] /\ loop' = k
        /\ sessions' = [t \in Tokens |-> IF t \in tokens THEN NoSession ELSE started[t]]
        /\ raced' = raced \cup {t \in tokens : InFlight(t)}
    BY DEF Reset
  <1>2. /\ next \in Jobs /\ next.pc = "reset" /\ next.snap = {} /\ next.does = job.does
        /\ next.user = job.user /\ next.doc = job.doc /\ next.token = job.token
        /\ next.scope = job.scope
    BY DEF Jobs, Known
  <1> HIDE DEF next
  <1>3. JobOK(k, next)
    BY <1>2 DEF JobOK
  <1>4. TaskInv' /\ \A j \in Clients \cup Apis : task'[j] = IF j = k THEN next ELSE task[j]
    BY <1>1, <1>2, <1>3, OneTask
  <1>5. LoginInv'
    BY <1>1 DEF LoginInv
  <1>6. \A s \in Scopes : job.does = "login" /\ job.scope = s => Announces(k, s)'
    BY <1>2, <1>4 DEF Announces
  <1>q. QED
    BY <1>4, <1>5, <1>6

LEMMA LoginKept ==
    ASSUME SessionInv, NEW t \in Tabs, NEW u \in Users, Login(t, u)
    PROVE  SessionInv'
  <1> USE DEF SessionInv
  <1>1. /\ loop = Free /\ sock[t] # 0 /\ task[sock[t]] = NoTask /\ sock[t] \in conn
        /\ Hashing(sock[t], "login", live[t], u)
        /\ UNCHANGED <<doc, sessions, born, conn, owner, held, panels, loop, tabVars, events,
                       raced>>
    BY DEF Login, Receives
  <1>2. sock[t] \in Clients /\ owner[sock[t]] # NoTab /\ live[t] \in Scopes
    BY <1>1 DEF LinkInv, Known, TabInv
  <1>3. /\ TaskInv' /\ LoginInv'
        /\ \A c \in Clients, s \in Scopes : Announces(c, s) => Announces(c, s)'
    BY <1>1, <1>2, NoTaskIsIdle, HashJob
  <1>4. UNCHANGED <<sock, live, saved, shown>>
    BY <1>1 DEF tabVars
  <1>q. QED
    BY <1>1, <1>3, <1>4, SameDoc, SameLinks, SameHeld, SameTab, SameTold

LEMMA LoginHashedKept ==
    ASSUME SessionInv, NEW c \in Clients, LoginHashed(c)
    PROVE  SessionInv'
  <1> USE DEF SessionInv
  <1>0. JobOK(c, task[c]) /\ task[c].pc = "hash"
    BY DEF TaskInv, LoginHashed
  <1>a. task[c].does = "login" /\ task[c].scope \in Scopes
    BY <1>0 DEF JobOK
  <1>b. PICK s \in Scopes : s = task[c].scope
    BY <1>a
  <1> DEFINE tokens == {held[c][s].token} \ {NoToken}
  <1>1. /\ held' = [held EXCEPT ![c][s] = SignedIn(c)]
        /\ Reset(c, tokens, Started(c), task[c])
        /\ UNCHANGED <<doc, issued, born, conn, owner, panels, tabVars, events>>
    BY <1>b DEF LoginHashed, Hold
  <1>3. /\ task[c] \in Jobs /\ task[c].snap = {} /\ owner[c] # NoTab
        /\ task[c].user \in Users /\ task[c].doc \in Documents /\ task[c].token \in Tokens
    BY <1>0, <1>a DEF JobOK
  <1>4. /\ SignedIn(c) \in Identities
        /\ Started(c) \in [Tokens -> [user : Users, cred : Credentials] \cup {NoSession}]
    BY <1>0, <1>a, SignedInType
  <1>5. tokens \in SUBSET Tokens
    BY DEF HeldInv, Identities
  <1> HIDE DEF tokens
  <1>6. /\ TaskInv' /\ LoginInv'
        /\ \A j \in Clients \cup Apis : j # c => task'[j] = task[j]
        /\ task'[c].pc = "reset" /\ task'[c].does = "login" /\ task'[c].scope = s
    <2>1. c \in Clients \cup Apis /\ UNCHANGED <<owner, issued>>
      BY <1>1
    <2>3. /\ TaskInv' /\ LoginInv'
          /\ \A j \in Clients \cup Apis : j # c => task'[j] = task[j]
          /\ \A r \in Scopes : task[c].does = "login" /\ task[c].scope = r => Announces(c, r)'
      BY <1>1, <1>3, <1>4, <1>5, <1>a, <2>1, ResetBegins
    <2>4. Announces(c, s)'
      BY <1>a, <1>b, <2>3
    <2>q. QED
      BY <2>3, <2>4 DEF Announces
  <1>7. UNCHANGED <<sock, live, saved, shown>>
    BY <1>1 DEF tabVars
  <1>8. \A d \in Clients, r \in Scopes :
           held'[d][r] = IF d = c /\ r = s THEN SignedIn(c) ELSE held[d][r]
    BY <1>1 DEF HeldInv
  <1>9. HeldInv'
    <2>1. held' \in [Clients -> [Scopes -> Identities]]
      BY <1>1, <1>4 DEF HeldInv
    <2>2. \A d \in Clients \ {c} : held'[d] = held[d]
      BY <1>1 DEF HeldInv
    <2>q. QED
      BY <1>1, <1>3, <2>1, <2>2 DEF HeldInv
  <1>10. ToldInv'
    <2> SUFFICES ASSUME NEW t \in Tabs, sock[t] \in conn, NEW r \in Scopes
                 PROVE  \/ /\ task'[sock[t]].pc = "reset" /\ task'[sock[t]].does = "login"
                           /\ task'[sock[t]].scope = r
                        \/ /\ shown[t][r] = held'[sock[t]][r]
                           /\ live[t] = r /\ held'[sock[t]][r] # Absent
                                => saved[t] = held'[sock[t]][r].token
      BY <1>1, <1>7 DEF ToldInv, Announces
    <2>1. sock[t] \in Clients
      BY DEF LinkInv, Known
    <2>2. CASE sock[t] = c /\ r = s
      BY <1>6, <2>2
    <2>3. CASE ~(sock[t] = c /\ r = s)
      <3>1. held'[sock[t]][r] = held[sock[t]][r]
        BY <1>8, <2>1, <2>3
      <3>2. ~Announces(sock[t], r) \/ task'[sock[t]] = task[sock[t]]
        BY <1>0, <1>6, <2>1 DEF Announces
      <3>q. QED
        BY <3>1, <3>2 DEF ToldInv, Announces
    <2>q. QED
      BY <2>2, <2>3
  <1>q. QED
    BY <1>1, <1>6, <1>7, <1>9, <1>10, SameDoc, SameLinks, SameTab

LEMMA LoginAnswersKept ==
    ASSUME SessionInv, NEW c \in Clients, LoginAnswers(c)
    PROVE  SessionInv'
  <1> USE DEF SessionInv
  <1>0. JobOK(c, task[c]) /\ task[c].pc = "reset" /\ task[c].does = "login"
    BY DEF TaskInv, LoginAnswers, Over, Runs
  <1>a. task[c].scope \in Scopes /\ owner[c] # NoTab
    BY <1>0 DEF JobOK
  <1>b. PICK s \in Scopes : s = task[c].scope
    BY <1>a
  <1>1. /\ Send(c, s, held[c][s])
        /\ task' = [task EXCEPT ![c] = NoTask] /\ loop' = Free
        /\ UNCHANGED <<doc, sessions, issued, born, conn, owner, held, panels, events, raced>>
    BY <1>b DEF LoginAnswers
  <1>3. held[c][s] \in Identities /\ Hold(c, s, held[c][s])
    BY <1>1 DEF HeldInv, Hold
  <1>4. TaskInv' /\ \A j \in Clients \cup Apis : task'[j] = IF j = c THEN NoTask ELSE task[j]
    BY <1>1, TaskOver
  <1>5. \A d \in Clients, r \in Scopes : Announces(d, r) => Announces(d, r)' \/ (d = c /\ r = s)
    BY <1>b, <1>4 DEF Announces
  <1>6. HeldInv' /\ TabInv' /\ UNCHANGED <<sock, live>> /\ ToldInv'
    BY <1>1, <1>a, <1>3, <1>5, ToldAtOnce DEF Known
  <1>7. LoginInv'
    BY <1>1 DEF LoginInv
  <1>q. QED
    BY <1>1, <1>4, <1>6, <1>7, SameDoc, SameLinks

LEMMA LogoutKept ==
    ASSUME SessionInv, NEW t \in Tabs, Logout(t)
    PROVE  SessionInv'
  <1> USE DEF SessionInv
  <1> DEFINE c == sock[t]
             s == live[t]
             job == [NoTask EXCEPT !.pc = "revoke", !.does = "logout",
                                   !.tokens = {held[c][s].token} \ {NoToken}]
  <1>1. /\ loop = Free /\ c # 0 /\ task[c] = NoTask
        /\ Hold(c, s, AutoLogin) /\ Send(c, s, AutoLogin)
        /\ task' = [task EXCEPT ![c] = job] /\ loop' \in {Free, c}
        /\ UNCHANGED <<doc, sessions, issued, born, conn, owner, panels, events, raced>>
    BY DEF Logout, Receives, Yields
  <1>2. c \in Clients /\ owner[c] # NoTab /\ s \in Scopes
    BY <1>1, ConstantsAssumption DEF LinkInv, TabInv
  <1>3. JobOK(c, job) /\ job.pc = "revoke"
    <2>1. {held[c][s].token} \ {NoToken} \subseteq Tokens
      BY <1>2 DEF HeldInv, Identities
    <2>2. job \in Jobs /\ job.pc = "revoke" /\ job.does = "logout" /\ job.snap = {}
      BY <2>1 DEF Jobs, NoTask
    <2> HIDE DEF job
    <2>q. QED
      BY <1>2, <2>2 DEF JobOK
  <1> HIDE DEF c, s, job
  <1>4. TaskInv' /\ \A j \in Clients \cup Apis : task'[j] = IF j = c THEN job ELSE task[j]
    <2>1. job.pc # "idle"
      BY <1>3
    <2>2. loop' = Free \/ (loop' = c /\ job.pc # "idle")
      BY <1>1, <2>1
    <2>3. /\ TaskInv /\ c \in Clients \cup Apis /\ JobOK(c, job) /\ UNCHANGED owner
          /\ task' = [task EXCEPT ![c] = job]
      BY <1>1, <1>2, <1>3
    <2>q. QED
      BY <2>2, <2>3, OneTask
  <1>5. \A d \in Clients, r \in Scopes : Announces(d, r) => Announces(d, r)' \/ (d = c /\ r = s)
    BY <1>1, <1>4, NoTaskIsIdle DEF Announces
  <1>6. HeldInv' /\ TabInv' /\ UNCHANGED <<sock, live>> /\ ToldInv'
    BY <1>1, <1>2, <1>5, GuestIdentities, ToldAtOnce DEF Known
  <1>7. LoginInv'
    BY <1>1 DEF LoginInv
  <1>q. QED
    BY <1>1, <1>4, <1>6, <1>7, SameDoc, SameLinks

LEMMA LogoutRevokesKept ==
    ASSUME SessionInv, NEW c \in Clients, LogoutRevokes(c)
    PROVE  SessionInv'
  <1> USE DEF SessionInv
  <1>1. /\ loop \in {Free, c} /\ task[c].pc = "revoke"
        /\ Reset(c, task[c].tokens, sessions, task[c])
        /\ UNCHANGED <<doc, issued, born, conn, owner, held, panels, tabVars, events>>
    BY DEF LogoutRevokes, Runs
  <1>2. JobOK(c, task[c]) /\ LoginInv
    BY DEF TaskInv
  <1>3. /\ task[c].does = "logout" /\ task[c] \in Jobs /\ task[c].snap = {} /\ owner[c] # NoTab
        /\ task[c].tokens \in SUBSET Tokens
        /\ sessions \in [Tokens -> [user : Users, cred : Credentials] \cup {NoSession}]
    BY <1>1, <1>2 DEF JobOK, Jobs, LoginInv
  <1>4. /\ TaskInv' /\ LoginInv'
        /\ \A j \in Clients \cup Apis : j # c => task'[j] = task[j]
    BY <1>1, <1>3, ResetBegins
  <1>5. \A d \in Clients, r \in Scopes : Announces(d, r) => Announces(d, r)'
    BY <1>1, <1>4 DEF Announces
  <1>6. UNCHANGED <<sock, live, saved, shown>>
    BY <1>1 DEF tabVars
  <1>q. QED
    BY <1>1, <1>4, <1>5, <1>6, SameDoc, SameLinks, SameHeld, SameTab, SameTold

LEMMA ResetScopeKept ==
    ASSUME SessionInv, NEW k \in Clients \cup Apis, ResetScope(k)
    PROVE  SessionInv'
  <1> USE DEF SessionInv
  <1>0. JobOK(k, task[k]) /\ task[k].pc = "reset"
    BY DEF TaskInv, ResetScope, Runs
  <1>a. task[k] \in Jobs /\ \A x \in task[k].snap : x.identity.token # NoToken
    BY <1>0 DEF JobOK
  <1>b. /\ task[k].tokens \subseteq Tokens /\ task[k].clients \subseteq Clients
        /\ task[k].snap \subseteq PairSet
    BY <1>a DEF Jobs
  <1> DEFINE lists == task[k].snap = {}
             snap == IF lists THEN {p \in Pairs({First(Holders(k))}) :
                                       p.identity.token \in task[k].tokens}
                     ELSE task[k].snap
  <1>1. UNCHANGED <<doc, sessions, issued, born, conn, owner, panels, events, raced>>
    BY DEF ResetScope
  <1>c. lists => Holders(k) # {}
    BY DEF ResetScope
  <1>2. PICK p \in snap :
           /\ task' = [task EXCEPT ![k].snap = snap \ {p},
                                   ![k].clients = {c \in @ : c > p.client}]
           /\ IF held[p.client][p.scope] = p.identity
              THEN /\ Hold(p.client, p.scope, AutoLogin)
                   /\ Send(p.client, p.scope, AutoLogin)
                   /\ Yields(k, p.client)
              ELSE loop' = k /\ UNCHANGED <<held, tabVars>>
    BY DEF ResetScope
  <1> HIDE DEF lists, snap
  <1>5. snap \in SUBSET PairSet /\ \A x \in snap : x.identity.token # NoToken
    <2>1. CASE lists
      <3>1. Holders(k) \subseteq Clients
        BY <1>b DEF Holders
      <3>2. First(Holders(k)) \in Clients
        <4>1. Holders(k) # {}
          BY <1>c, <2>1
        <4>2. Holders(k) \in SUBSET Nat
          BY <3>1, Numbers
        <4>3. First(Holders(k)) \in Holders(k)
          BY <4>1, <4>2, FirstIsMember
        <4>q. QED
          BY <3>1, <4>3
      <3>3. Pairs({First(Holders(k))}) \subseteq PairSet
        BY <3>2, PairsType
      <3>5. snap = {x \in Pairs({First(Holders(k))}) : x.identity.token \in task[k].tokens}
        BY <2>1 DEF snap
      <3>6. snap \subseteq Pairs({First(Holders(k))}) /\ \A x \in snap : x.identity.token \in Tokens
        BY <1>b, <3>5
      <3>q. QED
        BY <3>3, <3>6, Numbers
    <2>2. CASE ~lists
      <3>1. snap = task[k].snap
        BY <2>2 DEF snap
      <3>q. QED
        BY <1>a, <1>b, <3>1
    <2>q. QED
      BY <2>1, <2>2
  <1>6. p.client \in Clients /\ p.scope \in Scopes /\ p.identity.token # NoToken
    BY <1>5 DEF PairSet
  <1>d. PICK rest \in SUBSET PairSet : rest = snap \ {p}
    BY <1>5
  <1>e. PICK later \in SUBSET Clients : later = {c \in task[k].clients : c > p.client}
    BY <1>b
  <1>g. PICK job : job = [task[k] EXCEPT !.snap = rest, !.clients = later]
    OBVIOUS
  <1>7. task' = [task EXCEPT ![k] = job]
    BY <1>2, <1>a, <1>d, <1>e, <1>g DEF Jobs, TaskInv
  <1>8. /\ job \in Jobs /\ job.pc = "reset" /\ job.snap = rest /\ job.does = task[k].does
        /\ job.user = task[k].user /\ job.doc = task[k].doc /\ job.token = task[k].token
        /\ job.scope = task[k].scope
    BY <1>0, <1>a, <1>g DEF Jobs
  <1>f. \A x \in job.snap : x.identity.token # NoToken
    BY <1>5, <1>8, <1>d
  <1>9. JobOK(k, job)
    BY <1>0, <1>8, <1>f DEF JobOK
  <1>10. loop' \in {Free, k}
    BY <1>2 DEF Yields
  <1>11. TaskInv' /\ \A j \in Clients \cup Apis : task'[j] = IF j = k THEN job ELSE task[j]
    <2>1. job.pc # "idle"
      BY <1>8
    <2>2. loop' = Free \/ (loop' = k /\ job.pc # "idle")
      BY <1>10, <2>1
    <2>q. QED
      BY <1>1, <1>7, <1>9, <2>2, OneTask
  <1>12. \A d \in Clients, r \in Scopes : Announces(d, r) => Announces(d, r)'
    BY <1>8, <1>11 DEF Announces
  <1>13. HeldInv' /\ TabInv' /\ UNCHANGED <<sock, live>> /\ ToldInv'
    <2>1. CASE held[p.client][p.scope] = p.identity
      <3>1. p.client \in Known
        BY <1>6, <2>1, GuestIdentities DEF HeldInv, Known
      <3>q. QED
        BY <1>1, <1>2, <1>6, <1>12, <2>1, <3>1, GuestIdentities, ToldAtOnce
    <2>2. CASE held[p.client][p.scope] # p.identity
      <3>1. UNCHANGED <<held, tabVars, sock, live, saved, shown>>
        BY <1>2, <2>2 DEF tabVars
      <3>q. QED
        BY <1>1, <1>12, <3>1, SameHeld, SameTab, SameTold
    <2>q. QED
      BY <2>1, <2>2
  <1>14. LoginInv'
    BY <1>1 DEF LoginInv
  <1>q. QED
    BY <1>1, <1>11, <1>13, <1>14, SameDoc, SameLinks

LEMMA FinishKept ==
    ASSUME SessionInv, NEW k \in Clients \cup Apis, Finish(k)
    PROVE  SessionInv'
  <1> USE DEF SessionInv
  <1>1. /\ loop \in {Free, k} /\ loop' = Free /\ task' = [task EXCEPT ![k] = NoTask]
        /\ ~(task[k].pc = "reset" /\ task[k].does = "login")
        /\ UNCHANGED <<doc, sessions, issued, born, conn, owner, held, panels, tabVars, events,
                       raced>>
    BY DEF Finish, Finished, Over, Runs
  <1>2. TaskInv' /\ \A j \in Clients \cup Apis : task'[j] = IF j = k THEN NoTask ELSE task[j]
    BY <1>1, TaskOver
  <1>3. \A d \in Clients, r \in Scopes : Announces(d, r) => Announces(d, r)'
    BY <1>1, <1>2 DEF Announces
  <1>4. LoginInv' /\ UNCHANGED <<sock, live, saved, shown>>
    BY <1>1 DEF LoginInv, tabVars
  <1>q. QED
    BY <1>1, <1>2, <1>3, <1>4, SameDoc, SameLinks, SameHeld, SameTab, SameTold

-----------------------------------------------------------------------------
(* Panel sign-ins and sign-outs.                                           *)

LEMMA ApiTask ==
    ASSUME TaskInv, NEW a \in Apis, NEW job, JobOK(a, job), UNCHANGED owner,
           task' = [task EXCEPT ![a] = job], loop' = Free \/ (loop' = a /\ job.pc # "idle")
    PROVE  /\ TaskInv'
           /\ \A c \in Clients, s \in Scopes : Announces(c, s) => Announces(c, s)'
  <1>1. TaskInv' /\ \A j \in Clients \cup Apis : task'[j] = IF j = a THEN job ELSE task[j]
    BY OneTask
  <1>2. \A c \in Clients : task'[c] = task[c]
    BY <1>1, TasksAssumption
  <1>q. QED
    BY <1>1, <1>2 DEF Announces

LEMMA ApiResets ==
    ASSUME SessionInv, NEW a \in Apis, NEW tokens \in SUBSET Tokens,
           NEW job \in Jobs, job.snap = {}, job.does # "login",
           job.does = "panel in" =>
               job.user \in Users /\ job.doc \in Documents /\ job.token \in Tokens,
           job.does = "refresh" => job.doc \in Documents,
           Reset(a, tokens, sessions, job), UNCHANGED <<owner, issued>>
    PROVE  /\ TaskInv' /\ LoginInv'
           /\ \A c \in Clients, s \in Scopes : Announces(c, s) => Announces(c, s)'
  <1> USE DEF SessionInv
  <1>1. a \notin Clients
    BY TasksAssumption
  <1>2. sessions \in [Tokens -> [user : Users, cred : Credentials] \cup {NoSession}]
    BY DEF LoginInv
  <1>3. TaskInv' /\ LoginInv' /\ \A j \in Clients \cup Apis : j # a => task'[j] = task[j]
    <2>1. /\ a \in Clients \cup Apis
          /\ a \in Clients => owner[a] # NoTab
          /\ job.does \in {"login", "panel in"} =>
               job.user \in Users /\ job.doc \in Documents /\ job.token \in Tokens
          /\ job.does = "login" => a \in Clients /\ job.scope \in Scopes
      BY <1>1
    <2>q. QED
      BY <1>2, <2>1, ResetBegins
  <1>4. \A c \in Clients : task'[c] = task[c]
    BY <1>1, <1>3
  <1>q. QED
    BY <1>3, <1>4 DEF Announces

LEMMA HeldIsKnown ==
    ASSUME HeldInv, NEW c \in Clients, NEW s \in Scopes, held[c][s] # Absent
    PROVE  c \in Known
  BY GuestIdentities DEF HeldInv, Known

LEMMA PanelInKept ==
    ASSUME SessionInv, NEW a \in Apis, NEW u \in Users, PanelIn(a, u)
    PROVE  SessionInv'
  <1> USE DEF SessionInv
  <1>1. /\ loop = Free /\ task[a] = NoTask /\ Counted
        /\ Hashing(a, "panel in", 0, u)
        /\ UNCHANGED <<doc, sessions, born, conn, owner, held, panels, loop, tabVars, raced>>
    BY DEF PanelIn, Request
  <1>2. a \notin Clients /\ task[a].pc = "idle"
    BY <1>1, TasksAssumption, NoTaskIsIdle
  <1>3. /\ TaskInv' /\ LoginInv'
        /\ \A c \in Clients, s \in Scopes : Announces(c, s) => Announces(c, s)'
    BY <1>1, <1>2, HashJob
  <1>4. DocInv'
    BY <1>1, EventCounted
  <1>5. UNCHANGED <<sock, live, saved, shown>>
    BY <1>1 DEF tabVars
  <1>q. QED
    BY <1>1, <1>3, <1>4, <1>5, SameLinks, SameHeld, SameTab, SameTold

LEMMA PanelInHashedKept ==
    ASSUME SessionInv, NEW a \in Apis, PanelInHashed(a)
    PROVE  SessionInv'
  <1> USE DEF SessionInv
  <1>0. JobOK(a, task[a]) /\ task[a].pc = "hash" /\ a \notin Clients
    BY TasksAssumption DEF TaskInv, PanelInHashed
  <1>a. /\ task[a].does = "panel in" /\ task[a] \in Jobs /\ task[a].snap = {}
        /\ task[a].user \in Users /\ task[a].doc \in Documents /\ task[a].token \in Tokens
    BY <1>0 DEF JobOK
  <1>b. PICK pairs \in SUBSET PairSet : pairs = Held(panels \cap conn)
    BY PairsType DEF LinkInv, Known
  <1>c. PICK tokens \in SUBSET Tokens : tokens = TokensOf(pairs)
    BY <1>b, PairsType DEF LinkInv, Known
  <1>1. UNCHANGED <<doc, issued, born, conn, owner, held, panels, tabVars, events, raced>>
    BY DEF PanelInHashed
  <1>2. TaskInv' /\ LoginInv' /\ \A c \in Clients, s \in Scopes : Announces(c, s) => Announces(c, s)'
    <2>1. CASE panels = {}
      <3>1. task' = [task EXCEPT ![a] = NoTask] /\ UNCHANGED sessions /\ loop' = Free
        BY <2>1 DEF PanelInHashed
      <3>2. JobOK(a, NoTask)
        BY NoTaskIsIdle
      <3>3. LoginInv'
        BY <1>1, <3>1 DEF LoginInv
      <3>q. QED
        BY <1>1, <3>1, <3>2, <3>3, ApiTask
    <2>2. CASE panels # {}
      <3>1. /\ sessions' = Started(a) /\ loop' = a
            /\ task' = [task EXCEPT ![a].pc = "panel in", ![a].pairs = pairs, ![a].tokens = tokens]
        BY <1>b, <1>c, <2>2 DEF PanelInHashed
      <3>2. PICK job : job = [task[a] EXCEPT !.pc = "panel in", !.pairs = pairs, !.tokens = tokens]
        OBVIOUS
      <3>3. task' = [task EXCEPT ![a] = job]
        BY <1>a, <3>1, <3>2 DEF Jobs, TaskInv
      <3>4. /\ job \in Jobs /\ job.pc = "panel in" /\ job.does = "panel in" /\ job.snap = {}
            /\ job.user = task[a].user /\ job.doc = task[a].doc /\ job.token = task[a].token
        BY <1>a, <3>2 DEF Jobs
      <3>5. JobOK(a, job)
        BY <1>0, <1>a, <3>4 DEF JobOK
      <3>6. loop' = a /\ job.pc # "idle"
        BY <3>1, <3>4
      <3>7. Started(a) \in [Tokens -> [user : Users, cred : Credentials] \cup {NoSession}]
        BY <1>0, <1>a, SignedInType
      <3>8. LoginInv'
        BY <1>1, <3>1, <3>7 DEF LoginInv
      <3>q. QED
        BY <1>1, <3>3, <3>5, <3>6, <3>8, ApiTask
    <2>q. QED
      BY <2>1, <2>2
  <1>3. UNCHANGED <<sock, live, saved, shown>>
    BY <1>1 DEF tabVars
  <1>q. QED
    BY <1>1, <1>2, <1>3, SameDoc, SameLinks, SameHeld, SameTab, SameTold

LEMMA PanelInScopeKept ==
    ASSUME SessionInv, NEW a \in Apis, PanelInScope(a)
    PROVE  SessionInv'
  <1> USE DEF SessionInv
  <1>0. JobOK(a, task[a]) /\ task[a].pc = "panel in" /\ a \notin Clients
    BY TasksAssumption DEF TaskInv, PanelInScope, Runs
  <1>a. /\ task[a].does = "panel in" /\ task[a] \in Jobs /\ task[a].snap = {}
        /\ task[a].user \in Users /\ task[a].doc \in Documents /\ task[a].token \in Tokens
    BY <1>0 DEF JobOK
  <1>1. UNCHANGED <<doc, sessions, issued, born, conn, owner, panels, events, raced>>
    BY DEF PanelInScope
  <1>2. PICK p \in task[a].pairs :
          /\ task' = [task EXCEPT ![a].pairs = @ \ {p}]
          /\ IF held[p.client][p.scope] # Absent
             THEN /\ Hold(p.client, p.scope, SignedIn(a))
                  /\ Send(p.client, p.scope, SignedIn(a))
                  /\ Yields(a, p.client)
             ELSE loop' = a /\ UNCHANGED <<held, tabVars>>
    BY DEF PanelInScope
  <1>3. p.client \in Clients /\ p.scope \in Scopes
    BY <1>a DEF Jobs, PairSet
  <1>4. PICK rest \in SUBSET PairSet : rest = task[a].pairs \ {p}
    BY <1>a DEF Jobs
  <1>5. PICK job : job = [task[a] EXCEPT !.pairs = rest]
    OBVIOUS
  <1>6. task' = [task EXCEPT ![a] = job]
    BY <1>2, <1>a, <1>4, <1>5 DEF Jobs, TaskInv
  <1>7. /\ job \in Jobs /\ job.pc = "panel in" /\ job.does = "panel in" /\ job.snap = {}
        /\ job.user = task[a].user /\ job.doc = task[a].doc /\ job.token = task[a].token
    BY <1>0, <1>a, <1>5 DEF Jobs
  <1>8. JobOK(a, job)
    BY <1>0, <1>a, <1>7 DEF JobOK
  <1>9. loop' = Free \/ (loop' = a /\ job.pc # "idle")
    BY <1>2, <1>7 DEF Yields
  <1>10. TaskInv' /\ \A c \in Clients, s \in Scopes : Announces(c, s) => Announces(c, s)'
    BY <1>1, <1>6, <1>8, <1>9, ApiTask
  <1>11. HeldInv' /\ TabInv' /\ UNCHANGED <<sock, live>> /\ ToldInv'
    <2>1. CASE held[p.client][p.scope] # Absent
      <3>1. p.client \in Known
        BY <1>3, <2>1, HeldIsKnown
      <3>2. PICK identity \in Identities : identity = SignedIn(a)
        BY <1>0, <1>a, SignedInType
      <3>q. QED
        BY <1>1, <1>2, <1>3, <1>10, <2>1, <3>1, <3>2, ToldAtOnce
    <2>2. CASE held[p.client][p.scope] = Absent
      <3>1. UNCHANGED <<held, tabVars, sock, live, saved, shown>>
        BY <1>2, <2>2 DEF tabVars
      <3>q. QED
        BY <1>1, <1>10, <3>1, SameHeld, SameTab, SameTold
    <2>q. QED
      BY <2>1, <2>2
  <1>12. LoginInv'
    BY <1>1 DEF LoginInv
  <1>q. QED
    BY <1>1, <1>10, <1>11, <1>12, SameDoc, SameLinks

LEMMA PanelInRevokesKept ==
    ASSUME SessionInv, NEW a \in Apis, PanelInRevokes(a)
    PROVE  SessionInv'
  <1> USE DEF SessionInv
  <1>0. JobOK(a, task[a]) /\ task[a].pc = "panel in"
    BY DEF TaskInv, PanelInRevokes, Runs
  <1>a. /\ task[a].does = "panel in" /\ task[a] \in Jobs /\ task[a].snap = {}
        /\ task[a].user \in Users /\ task[a].doc \in Documents /\ task[a].token \in Tokens
    BY <1>0 DEF JobOK
  <1>b. task[a].tokens \in SUBSET Tokens
    BY <1>a DEF Jobs
  <1>1. /\ Reset(a, task[a].tokens, sessions, task[a])
        /\ UNCHANGED <<doc, issued, born, conn, owner, held, panels, tabVars, events>>
    BY DEF PanelInRevokes
  <1>2. /\ TaskInv' /\ LoginInv'
        /\ \A c \in Clients, s \in Scopes : Announces(c, s) => Announces(c, s)'
    BY <1>1, <1>a, <1>b, ApiResets
  <1>3. UNCHANGED <<sock, live, saved, shown>>
    BY <1>1 DEF tabVars
  <1>q. QED
    BY <1>1, <1>2, <1>3, SameDoc, SameLinks, SameHeld, SameTab, SameTold

LEMMA PanelOutKept ==
    ASSUME SessionInv, NEW a \in Apis, PanelOut(a)
    PROVE  SessionInv'
  <1> USE DEF SessionInv
  <1>b. PICK pairs \in SUBSET PairSet : pairs = Held(panels \cap conn)
    BY PairsType DEF LinkInv, Known
  <1>c. PICK tokens \in SUBSET Tokens : tokens = TokensOf(pairs)
    BY <1>b, PairsType DEF LinkInv, Known
  <1>d. PICK job : job = [NoTask EXCEPT !.does = "panel out", !.pairs = pairs]
    OBVIOUS
  <1>1. /\ Counted /\ Reset(a, tokens, sessions, job)
        /\ UNCHANGED <<doc, issued, born, conn, owner, held, panels, tabVars>>
    BY <1>b, <1>c, <1>d DEF PanelOut, Request
  <1>2. job \in Jobs /\ job.does = "panel out" /\ job.snap = {}
    BY <1>d DEF Jobs, NoTask
  <1>3. /\ TaskInv' /\ LoginInv'
        /\ \A c \in Clients, s \in Scopes : Announces(c, s) => Announces(c, s)'
    BY <1>1, <1>2, ApiResets
  <1>4. DocInv'
    BY <1>1, EventCounted
  <1>5. UNCHANGED <<sock, live, saved, shown>>
    BY <1>1 DEF tabVars
  <1>q. QED
    BY <1>1, <1>3, <1>4, <1>5, SameLinks, SameHeld, SameTab, SameTold

LEMMA PanelOutRestKept ==
    ASSUME SessionInv, NEW a \in Apis, PanelOutRest(a)
    PROVE  SessionInv'
  <1> USE DEF SessionInv
  <1>0. JobOK(a, task[a]) /\ task[a].pc = "reset" /\ task[a].does = "panel out"
        /\ task[a].snap = {} /\ a \notin Clients
    BY TasksAssumption DEF TaskInv, PanelOutRest, Over, Runs
  <1>a. task[a] \in Jobs
    BY <1>0 DEF JobOK
  <1>1. /\ task' = [task EXCEPT ![a].pc = "panel out"] /\ loop' = a
        /\ UNCHANGED <<doc, sessions, issued, born, conn, owner, held, panels, tabVars, events,
                       raced>>
    BY DEF PanelOutRest
  <1>2. PICK job : job = [task[a] EXCEPT !.pc = "panel out"]
    OBVIOUS
  <1>3. task' = [task EXCEPT ![a] = job]
    BY <1>1, <1>2
  <1>4. job \in Jobs /\ job.pc = "panel out" /\ job.does = "panel out" /\ job.snap = {}
    BY <1>0, <1>a, <1>2 DEF Jobs
  <1>5. JobOK(a, job)
    BY <1>0, <1>4 DEF JobOK
  <1>6. loop' = a /\ job.pc # "idle"
    BY <1>1, <1>4
  <1>7. TaskInv' /\ \A c \in Clients, s \in Scopes : Announces(c, s) => Announces(c, s)'
    BY <1>1, <1>3, <1>5, <1>6, ApiTask
  <1>8. LoginInv' /\ UNCHANGED <<sock, live, saved, shown>>
    BY <1>1 DEF LoginInv, tabVars
  <1>q. QED
    BY <1>1, <1>7, <1>8, SameDoc, SameLinks, SameHeld, SameTab, SameTold

LEMMA PanelOutScopeKept ==
    ASSUME SessionInv, NEW a \in Apis, PanelOutScope(a)
    PROVE  SessionInv'
  <1> USE DEF SessionInv
  <1>0. JobOK(a, task[a]) /\ task[a].pc = "panel out" /\ a \notin Clients
    BY TasksAssumption DEF TaskInv, PanelOutScope, Runs
  <1>a. task[a] \in Jobs /\ task[a].snap = {}
    BY <1>0 DEF JobOK
  <1>1. UNCHANGED <<doc, issued, born, conn, owner, panels, events>>
    BY DEF PanelOutScope
  <1>2. PICK p \in task[a].pairs :
          /\ task' = [task EXCEPT ![a].pairs = @ \ {p}]
          /\ IF held[p.client][p.scope] \notin {Absent, AutoLogin}
             THEN /\ sessions' = [t \in Tokens |-> IF t = held[p.client][p.scope].token
                                                   THEN NoSession ELSE sessions[t]]
                  /\ raced' = raced \cup {held[p.client][p.scope].token}
                  /\ Hold(p.client, p.scope, AutoLogin)
                  /\ Send(p.client, p.scope, AutoLogin)
                  /\ Yields(a, p.client)
             ELSE loop' = a /\ UNCHANGED <<sessions, raced, held, tabVars>>
    BY DEF PanelOutScope
  <1>3. p.client \in Clients /\ p.scope \in Scopes
    BY <1>a DEF Jobs, PairSet
  <1>4. PICK rest \in SUBSET PairSet : rest = task[a].pairs \ {p}
    BY <1>a DEF Jobs
  <1>5. PICK job : job = [task[a] EXCEPT !.pairs = rest]
    OBVIOUS
  <1>6. task' = [task EXCEPT ![a] = job]
    BY <1>2, <1>a, <1>4, <1>5 DEF Jobs, TaskInv
  <1>7. /\ job \in Jobs /\ job.pc = "panel out" /\ job.does = task[a].does /\ job.snap = {}
        /\ job.user = task[a].user /\ job.doc = task[a].doc /\ job.token = task[a].token
        /\ job.scope = task[a].scope
    BY <1>0, <1>a, <1>5 DEF Jobs
  <1>8. JobOK(a, job)
    BY <1>0, <1>a, <1>7 DEF JobOK
  <1>9. loop' = Free \/ (loop' = a /\ job.pc # "idle")
    BY <1>2, <1>7 DEF Yields
  <1>10. TaskInv' /\ \A c \in Clients, s \in Scopes : Announces(c, s) => Announces(c, s)'
    BY <1>1, <1>6, <1>8, <1>9, ApiTask
  <1>11. HeldInv' /\ TabInv' /\ UNCHANGED <<sock, live>> /\ ToldInv'
    <2>1. CASE held[p.client][p.scope] \notin {Absent, AutoLogin}
      <3>1. p.client \in Known
        BY <1>3, <2>1, HeldIsKnown
      <3>q. QED
        BY <1>1, <1>2, <1>3, <1>10, <2>1, <3>1, GuestIdentities, ToldAtOnce
    <2>2. CASE held[p.client][p.scope] \in {Absent, AutoLogin}
      <3>1. UNCHANGED <<held, tabVars, sock, live, saved, shown>>
        BY <1>2, <2>2 DEF tabVars
      <3>q. QED
        BY <1>1, <1>10, <3>1, SameHeld, SameTab, SameTold
    <2>q. QED
      BY <2>1, <2>2
  <1>12. LoginInv'
    <2>1. held[p.client][p.scope].token \in Tokens \cup {NoToken}
      BY <1>3 DEF HeldInv, Identities
    <2>q. QED
      BY <1>1, <1>2, <2>1 DEF LoginInv
  <1>q. QED
    BY <1>1, <1>10, <1>11, <1>12, SameDoc, SameLinks

-----------------------------------------------------------------------------
(* Writes of users.json.                                                   *)

LEMMA WrittenDocument ==
    ASSUME DocInv, Counted, NEW u \in Users, doc' \in Changes(u)
    PROVE  DocInv'
  <1>1. /\ events \in Nat /\ events' = events + 1 /\ events' \in 0..MaxEvents
        /\ MaxEvents \in Nat
    BY BoundsAssumption DEF DocInv, Counted
  <1>2. /\ doc \in [Users -> [cred : Credentials, group : {0, 1}]]
        /\ \A v \in Users : doc[v].cred \in Nat /\ doc[v].cred <= events + 1
                            /\ doc[v].group \in {0, 1}
    BY BoundsAssumption DEF DocInv, Documents, Credentials
  <1>3. ASSUME NEW cred \in Credentials, cred <= events + 2, doc' = [doc EXCEPT ![u].cred = cred]
        PROVE  DocInv'
    <2>1. doc' \in [Users -> [cred : Credentials, group : {0, 1}]]
      BY <1>2, <1>3
    <2>2. \A v \in Users : doc'[v].cred = IF v = u THEN cred ELSE doc[v].cred
      BY <1>2, <1>3
    <2>3. cred <= events' + 1
      BY <1>1, <1>3, BoundsAssumption DEF Credentials
    <2>4. \A v \in Users : doc[v].cred <= events' + 1
      BY <1>1, <1>2
    <2>5. \A v \in Users : doc'[v].cred <= events' + 1
      BY <2>2, <2>3, <2>4
    <2>q. QED
      BY <1>1, <2>1, <2>5 DEF DocInv, Documents
  <1>4. CASE doc' = [doc EXCEPT ![u].cred = 0]
    <2>1. 0 \in Credentials /\ 0 <= events + 2
      BY <1>1 DEF Credentials
    <2>q. QED
      BY <1>3, <1>4, <2>1
  <1>5. CASE doc' = [doc EXCEPT ![u].cred = @ + 1]
    <2>1. doc[u].cred + 1 <= events + 2 /\ doc[u].cred + 1 \in Nat
      BY <1>1, <1>2
    <2>2. doc[u].cred + 1 \in Credentials
      BY <1>1, <2>1 DEF Credentials
    <2>3. doc' = [doc EXCEPT ![u].cred = doc[u].cred + 1]
      BY <1>2, <1>5
    <2>q. QED
      BY <1>3, <2>1, <2>2, <2>3
  <1>6. CASE doc' = [doc EXCEPT ![u].group = 1 - @]
    <2>1. 1 - doc[u].group \in {0, 1}
      <3>1. doc[u].group = 0 \/ doc[u].group = 1
        BY <1>2
      <3>q. QED
        BY <3>1
    <2>2. PICK group \in {0, 1} : group = 1 - doc[u].group
      BY <2>1
    <2>3. doc' = [doc EXCEPT ![u].group = group]
      BY <1>2, <1>6, <2>2
    <2>4. doc' \in [Users -> [cred : Credentials, group : {0, 1}]]
      BY <1>2, <2>3
    <2>5. \A v \in Users : doc'[v].cred = doc[v].cred
      BY <1>2, <2>3
    <2>6. \A v \in Users : doc[v].cred <= events' + 1
      BY <1>1, <1>2
    <2>q. QED
      BY <1>1, <2>4, <2>5, <2>6 DEF DocInv, Documents
  <1>q. QED
    BY <1>4, <1>5, <1>6 DEF Changes

LEMMA WriteKept ==
    ASSUME SessionInv, NEW a \in Apis, NEW u \in Users, Write(a, u)
    PROVE  SessionInv'
  <1> USE DEF SessionInv
  <1>1. /\ loop = Free /\ Counted /\ doc' \in Changes(u)
        /\ task' = [task EXCEPT ![a] = [NoTask EXCEPT !.pc = "load", !.does = "refresh"]]
        /\ raced' = raced \cup {task[k].token : k \in {k \in DOMAIN task : task[k].user = u}}
        /\ UNCHANGED <<sessions, issued, born, conn, owner, held, panels, loop, tabVars>>
    BY DEF Write, Request
  <1>2. DocInv'
    BY <1>1, WrittenDocument
  <1>3. PICK job : job = [NoTask EXCEPT !.pc = "load", !.does = "refresh"]
    OBVIOUS
  <1>4. job \in Jobs /\ job.pc = "load" /\ job.does = "refresh" /\ job.snap = {}
    BY <1>3 DEF Jobs, NoTask
  <1>5. JobOK(a, job)
    BY <1>4, TasksAssumption DEF JobOK
  <1>6. task' = [task EXCEPT ![a] = job] /\ loop' = Free
    BY <1>1, <1>3
  <1>7. TaskInv' /\ \A c \in Clients, s \in Scopes : Announces(c, s) => Announces(c, s)'
    BY <1>1, <1>5, <1>6, ApiTask
  <1>8. \A k \in DOMAIN task : task[k].token \in Tokens \cup {NoToken}
    BY DEF TaskInv, JobOK, Jobs
  <1>9. LoginInv' /\ UNCHANGED <<sock, live, saved, shown>>
    BY <1>1, <1>8 DEF LoginInv, tabVars
  <1>q. QED
    BY <1>1, <1>2, <1>7, <1>9, SameLinks, SameHeld, SameTab, SameTold

LEMMA RefreshLoadsKept ==
    ASSUME SessionInv, NEW a \in Apis, RefreshLoads(a)
    PROVE  SessionInv'
  <1> USE DEF SessionInv
  <1>0. JobOK(a, task[a]) /\ task[a].pc = "load"
    BY DEF TaskInv, RefreshLoads
  <1>a. /\ task[a].does = "refresh" /\ task[a] \in Jobs /\ task[a].snap = {}
    BY <1>0 DEF JobOK
  <1>b. PICK stale \in SUBSET Tokens :
           stale = {t \in Tokens : sessions[t] # NoSession /\ ~Current(sessions[t])}
    OBVIOUS
  <1>c. PICK job : job = [task[a] EXCEPT !.doc = doc]
    OBVIOUS
  <1>d. job \in Jobs /\ job.does = "refresh" /\ job.doc = doc /\ job.snap = {}
    BY <1>a, <1>c DEF Jobs, DocInv
  <1>1. /\ Reset(a, stale, sessions, job)
        /\ UNCHANGED <<doc, issued, born, conn, owner, held, panels, tabVars, events>>
    BY <1>b, <1>c DEF RefreshLoads
  <1>2. /\ TaskInv' /\ LoginInv'
        /\ \A c \in Clients, s \in Scopes : Announces(c, s) => Announces(c, s)'
    BY <1>1, <1>d, ApiResets DEF DocInv
  <1>3. UNCHANGED <<sock, live, saved, shown>>
    BY <1>1 DEF tabVars
  <1>q. QED
    BY <1>1, <1>2, <1>3, SameDoc, SameLinks, SameHeld, SameTab, SameTold

LEMMA RefreshRestKept ==
    ASSUME SessionInv, NEW a \in Apis, RefreshRest(a)
    PROVE  SessionInv'
  <1> USE DEF SessionInv
  <1>0. /\ JobOK(a, task[a]) /\ task[a].pc = "reset" /\ task[a].does = "refresh"
        /\ task[a].snap = {} /\ a \notin Clients
    BY TasksAssumption DEF TaskInv, RefreshRest, Over, Runs
  <1>a. task[a] \in Jobs /\ task[a].doc \in Documents
    BY <1>0 DEF JobOK
  <1>b. PICK clients \in SUBSET Clients : clients = Known
    BY DEF Known
  <1>1. /\ task' = [task EXCEPT ![a].pc = "refresh", ![a].clients = clients] /\ loop' = a
        /\ UNCHANGED <<doc, sessions, issued, born, conn, owner, held, panels, tabVars, events,
                       raced>>
    BY <1>b DEF RefreshRest
  <1>2. PICK job : job = [task[a] EXCEPT !.pc = "refresh", !.clients = clients]
    OBVIOUS
  <1>3. task' = [task EXCEPT ![a] = job]
    BY <1>1, <1>2, <1>a DEF Jobs, TaskInv
  <1>4. /\ job \in Jobs /\ job.pc = "refresh" /\ job.does = "refresh" /\ job.snap = {}
        /\ job.doc = task[a].doc
    BY <1>0, <1>a, <1>2 DEF Jobs
  <1>5. JobOK(a, job)
    BY <1>0, <1>a, <1>4 DEF JobOK
  <1>6. loop' = a /\ job.pc # "idle"
    BY <1>1, <1>4
  <1>7. TaskInv' /\ \A c \in Clients, s \in Scopes : Announces(c, s) => Announces(c, s)'
    BY <1>1, <1>3, <1>5, <1>6, ApiTask
  <1>8. LoginInv' /\ UNCHANGED <<sock, live, saved, shown>>
    BY <1>1 DEF LoginInv, tabVars
  <1>q. QED
    BY <1>1, <1>7, <1>8, SameDoc, SameLinks, SameHeld, SameTab, SameTold

LEMMA RefreshScopeKept ==
    ASSUME SessionInv, NEW a \in Apis, RefreshScope(a)
    PROVE  SessionInv'
  <1> USE DEF SessionInv
  <1>0. JobOK(a, task[a]) /\ task[a].pc = "refresh" /\ a \notin Clients
    BY TasksAssumption DEF TaskInv, RefreshScope, Runs
  <1>a. task[a] \in Jobs /\ task[a].doc \in Documents
    BY <1>0 DEF JobOK
  <1>b. task[a].clients \subseteq Clients /\ task[a].snap \subseteq PairSet
    BY <1>a DEF Jobs
  <1> DEFINE lists == task[a].snap = {}
             snap == IF lists THEN Outdated(a, First(Behind(a))) ELSE task[a].snap
  <1>1. UNCHANGED <<doc, sessions, issued, born, conn, owner, panels, events, raced>>
    BY DEF RefreshScope
  <1>c. lists => Behind(a) # {}
    BY DEF RefreshScope
  <1>2. PICK p \in snap :
           /\ task' = [task EXCEPT ![a].snap = snap \ {p},
                                   ![a].clients = {c \in @ : c > p.client}]
           /\ IF p.client \in Known
              THEN /\ Hold(p.client, p.scope, Updated(p.identity, task[a].doc))
                   /\ Send(p.client, p.scope, Updated(p.identity, task[a].doc))
              ELSE UNCHANGED <<held, tabVars>>
           /\ Yields(a, p.client)
    BY DEF RefreshScope
  <1> HIDE DEF lists, snap
  <1>5. snap \in SUBSET PairSet
    <2>1. CASE lists
      <3>1. Behind(a) \subseteq Clients
        BY <1>b DEF Behind
      <3>2. First(Behind(a)) \in Clients
        <4>1. Behind(a) # {}
          BY <1>c, <2>1
        <4>2. Behind(a) \in SUBSET Nat
          BY <3>1, Numbers
        <4>3. First(Behind(a)) \in Behind(a)
          BY <4>1, <4>2, FirstIsMember
        <4>q. QED
          BY <3>1, <4>3
      <3>3. Held({First(Behind(a))}) \subseteq PairSet
        BY <3>2, PairsType
      <3>5. snap = Outdated(a, First(Behind(a)))
        BY <2>1 DEF snap
      <3>q. QED
        BY <3>3, <3>5 DEF Outdated
    <2>2. CASE ~lists
      <3>1. snap = task[a].snap
        BY <2>2 DEF snap
      <3>q. QED
        BY <1>b, <3>1
    <2>q. QED
      BY <2>1, <2>2
  <1>6. p.client \in Clients /\ p.scope \in Scopes /\ p.identity \in Identities
    BY <1>5 DEF PairSet
  <1>d. PICK rest \in SUBSET PairSet : rest = snap \ {p}
    BY <1>5
  <1>e. PICK later \in SUBSET Clients : later = {c \in task[a].clients : c > p.client}
    BY <1>b
  <1>g. PICK job : job = [task[a] EXCEPT !.snap = rest, !.clients = later]
    OBVIOUS
  <1>7. task' = [task EXCEPT ![a] = job]
    BY <1>2, <1>a, <1>d, <1>e, <1>g DEF Jobs, TaskInv
  <1>8. /\ job \in Jobs /\ job.pc = "refresh" /\ job.does = task[a].does
        /\ job.user = task[a].user /\ job.doc = task[a].doc /\ job.token = task[a].token
        /\ job.scope = task[a].scope
    BY <1>0, <1>a, <1>g DEF Jobs
  <1>9. JobOK(a, job)
    BY <1>0, <1>a, <1>8 DEF JobOK
  <1>10. loop' = Free \/ (loop' = a /\ job.pc # "idle")
    BY <1>2, <1>8 DEF Yields
  <1>11. TaskInv' /\ \A c \in Clients, s \in Scopes : Announces(c, s) => Announces(c, s)'
    BY <1>1, <1>7, <1>9, <1>10, ApiTask
  <1>12. HeldInv' /\ TabInv' /\ UNCHANGED <<sock, live>> /\ ToldInv'
    <2>1. CASE p.client \in Known
      <3>1. PICK identity \in Identities : identity = Updated(p.identity, task[a].doc)
        BY <1>a, <1>6, UpdatedType
      <3>q. QED
        BY <1>1, <1>2, <1>6, <1>11, <2>1, <3>1, ToldAtOnce
    <2>2. CASE p.client \notin Known
      <3>1. UNCHANGED <<held, tabVars, sock, live, saved, shown>>
        BY <1>2, <2>2 DEF tabVars
      <3>q. QED
        BY <1>1, <1>11, <3>1, SameHeld, SameTab, SameTold
    <2>q. QED
      BY <2>1, <2>2
  <1>13. LoginInv'
    BY <1>1 DEF LoginInv
  <1>q. QED
    BY <1>1, <1>11, <1>12, <1>13, SameDoc, SameLinks

-----------------------------------------------------------------------------
(* The specification.                                                      *)

LEMMA InitSession == Init => SessionInv
  <1> SUFFICES ASSUME Init
               PROVE  SessionInv
    OBVIOUS
  <1>1. DocInv
    BY BoundsAssumption DEF Init, DocInv, Documents, Credentials
  <1>2. LoginInv
    BY BoundsAssumption DEF Init, LoginInv
  <1>3. LinkInv
    BY BoundsAssumption DEF Init, LinkInv
  <1>4. HeldInv
    BY GuestIdentities DEF Init, HeldInv
  <1>5. TabInv
    BY GuestIdentities, Numbers DEF Init, TabInv
  <1>6. TaskInv
    BY NoTaskIsIdle DEF Init, TaskInv
  <1>7. ToldInv
    BY DEF Init, ToldInv
  <1>q. QED
    BY <1>1, <1>2, <1>3, <1>4, <1>5, <1>6, <1>7 DEF SessionInv

LEMMA StepSession == SessionInv /\ [Next]_vars => SessionInv'
  <1> SUFFICES ASSUME SessionInv, [Next]_vars
               PROVE  SessionInv'
    OBVIOUS
  <1>1. CASE \E t \in Tabs : Connect(t) \/ Close(t) \/ RequestIdentity(t) \/ Logout(t)
    BY <1>1, ConnectKept, CloseKept, RequestIdentityKept, LogoutKept
  <1>2. CASE \E c \in Clients : \/ Disconnect(c) \/ Drop(c) \/ LoginHashed(c) \/ LoginAnswers(c)
                                \/ LogoutRevokes(c)
    BY <1>2, DisconnectKept, DropKept, LoginHashedKept, LoginAnswersKept, LogoutRevokesKept
  <1>3. CASE \E t \in Tabs, u \in Users : Login(t, u)
    BY <1>3, LoginKept
  <1>4. CASE \E k \in Clients \cup Apis : ResetScope(k) \/ Finish(k)
    BY <1>4, ResetScopeKept, FinishKept
  <1>5. CASE \E a \in Apis, u \in Users : PanelIn(a, u) \/ Write(a, u)
    BY <1>5, PanelInKept, WriteKept
  <1>6. CASE \E a \in Apis : \/ PanelInHashed(a) \/ PanelInScope(a) \/ PanelInRevokes(a)
                             \/ PanelOut(a) \/ PanelOutRest(a) \/ PanelOutScope(a)
    BY <1>6, PanelInHashedKept, PanelInScopeKept, PanelInRevokesKept, PanelOutKept,
       PanelOutRestKept, PanelOutScopeKept
  <1>7. CASE \E a \in Apis : RefreshLoads(a) \/ RefreshRest(a) \/ RefreshScope(a)
    BY <1>7, RefreshLoadsKept, RefreshRestKept, RefreshScopeKept
  <1>8. CASE UNCHANGED vars
    <2>1. /\ UNCHANGED <<doc, sessions, issued, born, conn, owner, held, panels, task, loop>>
          /\ UNCHANGED <<sock, live, saved, shown, events, raced, tabVars>>
      BY <1>8 DEF vars, tabVars
    <2>2. LoginInv' /\ DocInv' /\ LinkInv' /\ HeldInv' /\ TabInv' /\ TaskInv'
      BY <2>1, SameDoc, SameLinks, SameHeld, SameTab, SameTasks DEF SessionInv, LoginInv
    <2>3. ToldInv'
      BY <2>1, SameTold DEF SessionInv, Announces
    <2>q. QED
      BY <2>2, <2>3 DEF SessionInv
  <1>q. QED
    BY <1>1, <1>2, <1>3, <1>4, <1>5, <1>6, <1>7, <1>8 DEF Next

LEMMA SessionIsTyped == SessionInv => TypeOK
  <1> SUFFICES ASSUME SessionInv
               PROVE  TypeOK
    OBVIOUS
  <1>1. DOMAIN task = Clients \cup Apis /\ task \in [Clients \cup Apis -> Jobs]
    BY DEF SessionInv, TaskInv, JobOK
  <1>2. loop \in {Free} \cup {k \in DOMAIN task : task[k] # NoTask}
    BY <1>1, NoTaskIsIdle DEF SessionInv, TaskInv
  <1>3. \A c \in Clients \ Known : held[c] = Nothing
    BY DEF SessionInv, HeldInv, Known
  <1>q. QED
    BY <1>1, <1>2, <1>3 DEF SessionInv, DocInv, LoginInv, LinkInv, HeldInv, TabInv, TypeOK

(* Sign-ins: every variable holds a value the code could hold, only a      *)
(* handler that has something left to do has the event loop, and a         *)
(* connection that is gone is signed in nowhere and named for no panel     *)
(* (websocket_manager.disconnect).                                         *)
THEOREM SessionsTypeCorrect == Spec => []TypeOK
  <1>1. Init => SessionInv
    BY InitSession
  <1>2. SessionInv /\ [Next]_vars => SessionInv'
    BY StepSession
  <1>3. SessionInv => TypeOK
    BY SessionIsTyped
  <1>q. QED
    BY <1>1, <1>2, <1>3, PTL DEF Spec

(* When the handlers are done, a connected tab shows for every scope the   *)
(* identity the server holds for it, and has its live view's login in its  *)
(* session storage: whatever sign-ins, remounts, resets, panel calls and   *)
(* writes of users.json were interleaved, on any number of tabs.           *)
THEOREM TabsAreTold == Spec => []TabShowsWhatIsHeld
  <1>1. Init => SessionInv
    BY InitSession
  <1>2. SessionInv /\ [Next]_vars => SessionInv'
    BY StepSession
  <1>3. SessionInv => TabShowsWhatIsHeld
    <2> SUFFICES ASSUME SessionInv, Quiet, NEW t \in Tabs, sock[t] \in conn
                 PROVE  /\ shown[t] = held[sock[t]]
                        /\ held[sock[t]][live[t]] # Absent => saved[t] = held[sock[t]][live[t]].token
      BY DEF TabShowsWhatIsHeld
    <2>1. sock[t] \in Clients /\ live[t] \in Scopes
      BY DEF SessionInv, LinkInv, TabInv, Known
    <2>2. task[sock[t]] = NoTask
      BY <2>1 DEF SessionInv, TaskInv, Quiet
    <2>3. \A s \in Scopes : ~Announces(sock[t], s)
      BY <2>2, NoTaskIsIdle DEF Announces
    <2>4. \A s \in Scopes :
             /\ shown[t][s] = held[sock[t]][s]
             /\ live[t] = s /\ held[sock[t]][s] # Absent => saved[t] = held[sock[t]][s].token
      BY <2>3 DEF SessionInv, ToldInv
    <2>5. shown[t] \in [Scopes -> Identities] /\ held[sock[t]] \in [Scopes -> Identities]
      BY <2>1 DEF SessionInv, TabInv, HeldInv
    <2>q. QED
      BY <2>1, <2>4, <2>5
  <1>q. QED
    BY <1>1, <1>2, <1>3, PTL DEF Spec

-----------------------------------------------------------------------------
(* Revoked logins, where the users in users.json are at most deleted.      *)

OnlyDeletes == {"password", "regroup"} \cap Events = {}

Deleted(u) == u # Guest /\ doc[u].cred = 0
Signing(k) == task[k].does \in {"login", "panel in"}
Refreshing(k) == task[k].does = "refresh" /\ task[k].pc \in {"reset", "refresh"}
Blank(job) ==
    /\ job.token = NoToken /\ job.user = Guest
    /\ job.does \notin {"login", "panel in"} /\ job.pc # "hash"

FlatInv ==
    /\ \A u \in Users : doc[u].cred \in {0, 1} /\ doc[u].group = 0
    /\ \A t \in Tokens : sessions[t] # NoSession => sessions[t].cred = 1
    /\ \A c \in Clients, s \in Scopes : held[c][s].user # Guest => held[c][s].group = 0
    /\ \A k \in Clients \cup Apis : Signing(k) =>
         task[k].doc[task[k].user].cred = 1 /\ task[k].doc[task[k].user].group = 0

(* A token is one sign-in's, and nobody has it until it is stored.         *)
TokenInv ==
    /\ \A c \in Clients, s \in Scopes : held[c][s].token <= issued
    /\ \A t \in Tokens : sessions[t] # NoSession => t <= issued
    /\ \A k \in Clients \cup Apis :
         /\ task[k].token <= issued
         /\ Signing(k) \/ Blank(task[k])
         /\ task[k].pc = "hash" =>
              /\ \A c \in Clients, s \in Scopes : held[c][s].token # task[k].token
              /\ sessions[task[k].token] = NoSession
         /\ \A j \in Clients \cup Apis :
              task[j].token = task[k].token /\ j # k => task[k].token = NoToken

(* A login is of one user.  One that is revoked, or whose user is deleted, *)
(* while it is still being announced is recorded.                          *)
OwnerInv ==
    /\ \A c \in Clients, s \in Scopes :
         LET t == held[c][s].token
         IN  t # NoToken /\ sessions[t] # NoSession => sessions[t].user = held[c][s].user
    /\ \A k \in Clients \cup Apis : Signing(k) =>
         LET t == task[k].token
         IN  /\ Deleted(task[k].user) => t \in raced
             /\ task[k].pc # "hash" =>
                  IF sessions[t] = NoSession THEN t \in raced
                  ELSE sessions[t].user = task[k].user

(* All that a refresh does is to sign out.                                 *)
PlanInv ==
    \A k \in Clients \cup Apis : Refreshing(k) =>
        /\ \A u \in Users : task[k].doc[u].group = 0
        /\ task[k].pc = "refresh" =>
             \A p \in task[k].snap : Updated(p.identity, task[k].doc) = AutoLogin

Listed(k, c, s) ==
    \/ c \in task[k].clients
    \/ \E p \in task[k].snap : p.client = c /\ p.scope = s /\ p.identity = held[c][s]

Resets(k, c, s) ==
    task[k].pc = "reset" /\ held[c][s].token \in task[k].tokens /\ Listed(k, c, s)

Removes(k, c, s) ==
    \/ task[k].pc = "load"
    \/ /\ Refreshing(k) /\ task[k].doc[held[c][s].user].cred = 0
       /\ task[k].pc = "refresh" => Listed(k, c, s)

Ordered(job) == \A p \in job.snap, c \in job.clients : p.client < c

(* A handler has still to come to whoever holds a login that is gone.      *)
ComingInv ==
    /\ \A k \in Clients \cup Apis : Ordered(task[k])
    /\ \A c \in Known, s \in Scopes :
         LET t == held[c][s].token
             u == held[c][s].user
         IN  t \notin raced =>
               /\ Deleted(u) => \E k \in Clients \cup Apis : Removes(k, c, s)
               /\ c \in conn /\ t # NoToken /\ sessions[t] = NoSession /\ ~Deleted(u)
                    => \E k \in Clients \cup Apis : Resets(k, c, s)

RevokedInv == FlatInv /\ TokenInv /\ OwnerInv /\ PlanInv /\ ComingInv

LEMMA JobFacts ==
    ASSUME TaskInv, NEW k \in Clients \cup Apis
    PROVE  /\ task[k] \in Jobs
           /\ Signing(k) => task[k].token \in Tokens /\ task[k].user \in Users /\ task[k].user # Guest
           /\ task[k].pc = "hash" => Signing(k)
           /\ task[k].pc \notin {"reset", "refresh"} => task[k].snap = {}
  BY ConstantsAssumption DEF TaskInv, JobOK, Signing

LEMMA HeldFacts ==
    ASSUME HeldInv, NEW c \in Clients, NEW s \in Scopes
    PROVE  /\ held[c][s] \in Identities
           /\ held[c][s].token \in Tokens \cup {NoToken} /\ held[c][s].user \in Users \cup {Guest}
  BY DEF HeldInv, Identities

LEMMA TokenNumbers ==
    ASSUME LoginInv
    PROVE  /\ issued \in Nat /\ NoToken <= issued /\ issued + 1 <= issued + 1
           /\ \A t \in Tokens \cup {NoToken} :
                t <= issued => t <= issued + 1 /\ t # issued + 1
  <1>1. issued \in 0..MaxTokens
    BY DEF LoginInv
  <1>2. issued \in Nat
    BY <1>1, BoundsAssumption
  <1>3. \A t \in Tokens \cup {NoToken} : t \in Nat
    BY BoundsAssumption DEF Tokens, NoToken
  <1>q. QED
    BY <1>2, <1>3 DEF NoToken

(* An identity that a scope is given: the auto-login user's, or a login's  *)
(* that was stored.                                                        *)
Granted(i) ==
    \/ i.user = Guest /\ i.token = NoToken
    \/ /\ i.group = 0 /\ i.token <= issued
       /\ sessions[i.token] # NoSession => sessions[i.token].user = i.user
       /\ \A j \in Clients \cup Apis : task[j].pc = "hash" => task[j].token # i.token

(* One handler goes on, a stored login is one whose password was hashed,   *)
(* and what is revoked while it is announced is recorded.                  *)
GoesOn(k) ==
    /\ issued' = issued /\ raced \subseteq raced'
    /\ \A j \in Clients \cup Apis : j # k => task'[j] = task[j]
    /\ \/ task'[k] = task[k]
       \/ Blank(task'[k])
       \/ /\ task'[k].token = task[k].token /\ task'[k].user = task[k].user
          /\ task'[k].does = task[k].does /\ task'[k].doc = task[k].doc
          /\ task'[k].pc # "hash"
          /\ task[k].pc = "hash" =>
               \/ sessions'[task[k].token] = [user |-> task[k].user, cred |-> 1]
               \/ task[k].token \in raced'

Deletes ==
    /\ \A u \in Users : doc'[u].cred \in {0, doc[u].cred} /\ doc'[u].group = doc[u].group
    /\ \A j \in Clients \cup Apis :
         /\ Signing(j) /\ doc'[task[j].user].cred = 0 /\ doc[task[j].user].cred # 0
         => task[j].token \in raced'

Revokes(k) ==
    \A t \in Tokens :
        \/ sessions'[t] = sessions[t]
        \/ /\ sessions'[t] = NoSession
           /\ \A j \in Clients \cup Apis : Signing(j) /\ task[j].token = t => t \in raced'
        \/ /\ t = task[k].token /\ task[k].pc = "hash" /\ task'[k].pc # "hash"
           /\ task'[k].token = t
           /\ sessions'[t] = [user |-> task[k].user, cred |-> 1]

Grants ==
    \A c \in Clients, s \in Scopes :
        \/ held'[c][s] = held[c][s]
        \/ \E i \in Identities : held'[c][s] = i /\ Granted(i)'

LEMMA SignKept ==
    ASSUME SessionInv, FlatInv, TokenInv, OwnerInv, SessionInv',
           NEW k \in Clients \cup Apis, GoesOn(k), Deletes, Revokes(k), Grants
    PROVE  FlatInv' /\ TokenInv' /\ OwnerInv'
  <1>0. TaskInv /\ HeldInv /\ TaskInv' /\ HeldInv'
    BY DEF SessionInv
  <1>1. \A j \in Clients \cup Apis :
          /\ \/ Blank(task'[j])
             \/ /\ task'[j].token = task[j].token /\ task'[j].user = task[j].user
                /\ task'[j].does = task[j].does /\ task'[j].doc = task[j].doc
          /\ task'[j].pc = "hash" => task'[j] = task[j]
          /\ j # k => task'[j] = task[j]
    BY DEF GoesOn, Blank
  <1>2. \A j \in Clients \cup Apis :
          /\ Signing(j) => /\ task[j].token \in Tokens /\ task[j].token # NoToken
                           /\ task[j].user \in Users /\ task[j].user # Guest
          /\ task[j].pc = "hash" => Signing(j)
    BY <1>0, JobFacts, Numbers
  <1>3. \A j \in Clients \cup Apis : Signing(j)' => Signing(j) /\ ~Blank(task'[j])
    BY <1>1 DEF Signing, Blank
  <1>4. \A c \in Clients, s \in Scopes :
          /\ held[c][s].token \in Tokens \cup {NoToken} /\ held'[c][s].token \in Tokens \cup {NoToken}
          /\ held[c][s].user \in Users \cup {Guest}
    <2>1. \A c \in Clients, s \in Scopes : held[c][s].token \in Tokens \cup {NoToken}
                                          /\ held[c][s].user \in Users \cup {Guest}
      BY <1>0, HeldFacts
    <2>2. \A c \in Clients, s \in Scopes : held'[c][s].token \in Tokens \cup {NoToken}
      BY <1>0 DEF HeldInv, Identities
    <2>q. QED
      BY <2>1, <2>2
  <1>5. FlatInv'
    <2>1. \A u \in Users : doc'[u].cred \in {0, 1} /\ doc'[u].group = 0
      BY DEF FlatInv, Deletes
    <2>2. \A t \in Tokens : sessions'[t] # NoSession => sessions'[t].cred = 1
      BY DEF FlatInv, Revokes
    <2>3. \A c \in Clients, s \in Scopes : held'[c][s].user # Guest => held'[c][s].group = 0
      BY DEF FlatInv, Grants, Granted
    <2>4. \A j \in Clients \cup Apis : Signing(j)' =>
             task'[j].doc[task'[j].user].cred = 1 /\ task'[j].doc[task'[j].user].group = 0
      BY <1>1, <1>3 DEF FlatInv
    <2>q. QED
      BY <2>1, <2>2, <2>3, <2>4 DEF FlatInv
  <1>6. TokenInv'
    <2>1. \A c \in Clients, s \in Scopes : held'[c][s].token <= issued'
      <3>1. NoToken <= issued
        BY TokenNumbers DEF SessionInv
      <3>q. QED
        BY <3>1 DEF TokenInv, GoesOn, Grants, Granted
    <2>2. \A t \in Tokens : sessions'[t] # NoSession => t <= issued'
      BY DEF TokenInv, GoesOn, Revokes
    <2>3. \A j \in Clients \cup Apis : task'[j].token <= issued'
      <3>1. NoToken <= issued
        BY TokenNumbers DEF SessionInv
      <3>q. QED
        BY <1>1, <3>1 DEF TokenInv, GoesOn, Blank
    <2>4. \A j \in Clients \cup Apis : Signing(j)' \/ Blank(task'[j])
      <3>1. ASSUME NEW j \in Clients \cup Apis, ~Blank(task'[j])
            PROVE  task'[j].does \in {"login", "panel in"}
        <4>1. CASE Signing(j)
          BY <1>1, <3>1, <4>1 DEF Signing
        <4>2. CASE Blank(task[j])
          <5>1. /\ task'[j].token = task[j].token /\ task'[j].user = task[j].user
                /\ task'[j].does = task[j].does
            BY <1>1, <3>1
          <5>2. task'[j].pc = "hash" => task'[j] = task[j]
            BY <1>1
          <5>q. QED
            BY <3>1, <4>2, <5>1, <5>2 DEF Blank
        <4>q. QED
          BY <4>1, <4>2 DEF TokenInv
      <3>q. QED
        BY <3>1 DEF Signing
    <2>5. ASSUME NEW j \in Clients \cup Apis, task'[j].pc = "hash"
          PROVE  /\ \A c \in Clients, s \in Scopes : held'[c][s].token # task'[j].token
                 /\ sessions'[task'[j].token] = NoSession
      <3>1. task'[j] = task[j] /\ task[j].pc = "hash" /\ task[j].token \in Tokens
            /\ task[j].token # NoToken
        BY <1>1, <1>2, <2>5
      <3>2. \A c \in Clients, s \in Scopes : held'[c][s].token # task'[j].token
        <4>1. \A c \in Clients, s \in Scopes : held[c][s].token # task[j].token
          BY <3>1 DEF TokenInv
        <4>q. QED
          BY <2>5, <3>1, <4>1 DEF Grants, Granted
      <3>3. sessions[task[j].token] = NoSession
        BY <3>1 DEF TokenInv
      <3>4. CASE j = k
        BY <2>5, <3>1, <3>2, <3>3, <3>4 DEF Revokes
      <3>5. CASE j # k
        <4>1. task[j].token # task[k].token
          BY <3>1, <3>5 DEF TokenInv
        <4>q. QED
          BY <3>1, <3>2, <3>3, <4>1 DEF Revokes
      <3>q. QED
        BY <3>4, <3>5
    <2>6. \A j, i \in Clients \cup Apis : task'[i].token = task'[j].token /\ i # j
                                            => task'[j].token = NoToken
      BY <1>1 DEF TokenInv, Blank
    <2>q. QED
      BY <2>1, <2>2, <2>3, <2>4, <2>5, <2>6 DEF TokenInv
  <1>7. OwnerInv'
    <2>1. ASSUME NEW c \in Clients, NEW s \in Scopes, held'[c][s].token # NoToken,
                 sessions'[held'[c][s].token] # NoSession
          PROVE  sessions'[held'[c][s].token].user = held'[c][s].user
      <3>1. CASE held'[c][s] = held[c][s]
        <4>1. held[c][s].token \in Tokens
          BY <1>4, <2>1, <3>1
        <4>2. CASE sessions'[held[c][s].token] = sessions[held[c][s].token]
          BY <2>1, <3>1, <4>2 DEF OwnerInv
        <4>3. CASE held[c][s].token = task[k].token /\ task[k].pc = "hash"
          BY <4>3 DEF TokenInv
        <4>q. QED
          BY <2>1, <3>1, <4>1, <4>2, <4>3 DEF Revokes
      <3>2. CASE \E i \in Identities : held'[c][s] = i /\ Granted(i)'
        BY <2>1, <3>2 DEF Granted
      <3>q. QED
        BY <3>1, <3>2 DEF Grants
    <2>2. ASSUME NEW j \in Clients \cup Apis, Signing(j)'
          PROVE  /\ Deleted(task[j].user)' => task'[j].token \in raced'
                 /\ task'[j].pc # "hash" =>
                      IF sessions'[task'[j].token] = NoSession THEN task'[j].token \in raced'
                      ELSE sessions'[task'[j].token].user = task'[j].user
      <3>1. /\ Signing(j) /\ task'[j].token = task[j].token /\ task'[j].user = task[j].user
            /\ task[j].token \in Tokens /\ task[j].user \in Users /\ task[j].user # Guest
        BY <1>1, <1>2, <1>3, <2>2
      <3>2. Deleted(task[j].user)' => task'[j].token \in raced'
        <4>1. doc'[task[j].user].cred = 0 => task[j].token \in raced'
          BY <3>1 DEF OwnerInv, Deletes, Deleted, GoesOn
        <4>q. QED
          BY <3>1, <4>1 DEF Deleted
      <3>3. ASSUME task'[j].pc # "hash"
            PROVE  IF sessions'[task[j].token] = NoSession THEN task[j].token \in raced'
                   ELSE sessions'[task[j].token].user = task[j].user
        <4>1. CASE task[j].pc # "hash"
          <5>1. IF sessions[task[j].token] = NoSession THEN task[j].token \in raced'
                ELSE sessions[task[j].token].user = task[j].user
            BY <3>1, <4>1 DEF OwnerInv, GoesOn
          <5>2. CASE sessions'[task[j].token] = sessions[task[j].token]
            BY <5>1, <5>2
          <5>3. CASE sessions'[task[j].token] = NoSession /\ task[j].token \in raced'
            BY <5>3
          <5>4. CASE task[j].token = task[k].token /\ task[k].pc = "hash"
            BY <3>1, <4>1, <5>4, <1>2 DEF TokenInv
          <5>q. QED
            BY <3>1, <5>2, <5>3, <5>4 DEF Revokes
        <4>2. CASE task[j].pc = "hash"
          <5>1. j = k
            BY <1>1, <3>3, <4>2
          <5>2. \/ sessions'[task[k].token] = [user |-> task[k].user, cred |-> 1]
                \/ task[k].token \in raced'
            BY <2>2, <3>3, <4>2, <5>1 DEF GoesOn, Blank, Signing
          <5>3. sessions[task[k].token] = NoSession
            BY <4>2, <5>1 DEF TokenInv
          <5>4. CASE sessions'[task[j].token] = NoSession
            <6>1. sessions'[task[k].token] # [user |-> task[k].user, cred |-> 1]
              BY <3>1, <5>1, <5>4 DEF NoSession
            <6>q. QED
              BY <5>1, <5>2, <5>4, <6>1
          <5>5. CASE sessions'[task[j].token] # NoSession
            <6>1. sessions'[task[j].token] = [user |-> task[k].user, cred |-> 1]
              BY <3>1, <5>1, <5>3, <5>5 DEF Revokes
            <6>q. QED
              BY <5>1, <5>5, <6>1
          <5>q. QED
            BY <5>4, <5>5
        <4>q. QED
          BY <4>1, <4>2
      <3>q. QED
        BY <3>1, <3>2, <3>3
    <2>q. QED
      BY <2>1, <2>2 DEF OwnerInv
  <1>q. QED
    BY <1>5, <1>6, <1>7

(* A sign-in begins: its token is new.                                     *)
LEMMA HashSignKept ==
    ASSUME SessionInv, FlatInv, TokenInv, OwnerInv, SessionInv', NEW k \in Clients \cup Apis,
           NEW does \in {"login", "panel in"}, NEW scope \in Scopes \cup {0}, NEW u \in Users,
           Hashing(k, does, scope, u), task[k] = NoTask,
           UNCHANGED <<doc, sessions, held, raced>>
    PROVE  FlatInv' /\ TokenInv' /\ OwnerInv'
  <1>0. TaskInv /\ HeldInv /\ DocInv /\ LoginInv
    BY DEF SessionInv
  <1>a. doc' = doc /\ sessions' = sessions /\ held' = held /\ raced' = raced
    OBVIOUS
  <1>1. /\ issued' = issued + 1 /\ doc[u].cred # 0
        /\ task' = [task EXCEPT ![k] = [NoTask EXCEPT !.pc = "hash", !.does = does,
                                           !.scope = scope, !.user = u, !.token = issued + 1,
                                           !.doc = doc]]
    BY DEF Hashing
  <1>2. PICK job : job = [NoTask EXCEPT !.pc = "hash", !.does = does, !.scope = scope, !.user = u,
                                        !.token = issued + 1, !.doc = doc]
    OBVIOUS
  <1>3. /\ job.pc = "hash" /\ job.does = does /\ job.user = u /\ job.token = issued + 1
        /\ job.doc = doc
    BY <1>2 DEF NoTask
  <1>4. \A j \in Clients \cup Apis : task'[j] = IF j = k THEN job ELSE task[j]
    BY <1>0, <1>1, <1>2 DEF TaskInv
  <1>5. doc[u].cred = 1 /\ doc[u].cred # 0 /\ doc[u].group = 0 /\ u # Guest
    BY <1>1, ConstantsAssumption DEF FlatInv
  <1>6. FlatInv'
    <2>1. \A j \in Clients \cup Apis : Signing(j)' =>
             task'[j].doc[task'[j].user].cred = 1 /\ task'[j].doc[task'[j].user].group = 0
      BY <1>3, <1>4, <1>5 DEF FlatInv, Signing
    <2>q. QED
      BY <2>1 DEF FlatInv
  <1>7. /\ issued \in Nat
        /\ \A j \in Clients \cup Apis : task[j].token \in Tokens \cup {NoToken}
        /\ \A c \in Clients, s \in Scopes : held[c][s].token \in Tokens \cup {NoToken}
    <2>1. issued \in Nat
      BY <1>0, TokenNumbers
    <2>2. \A j \in Clients \cup Apis : task[j].token \in Tokens \cup {NoToken}
      BY <1>0, JobFacts DEF Jobs
    <2>3. \A c \in Clients, s \in Scopes : held[c][s].token \in Tokens \cup {NoToken}
      BY <1>0, HeldFacts
    <2>q. QED
      BY <2>1, <2>2, <2>3
  <1>8. \A t \in Tokens \cup {NoToken} : t <= issued => t <= issued' /\ t # issued + 1
    BY <1>0, <1>1, TokenNumbers
  <1>9. /\ issued + 1 <= issued' /\ issued + 1 # NoToken
        /\ issued + 1 \in Tokens
    <2>1. issued + 1 \in Tokens
      BY <1>0, NextToken DEF Hashing
    <2>q. QED
      BY <1>0, <1>1, <2>1, TokenNumbers, Numbers
  <1>10. TokenInv'
    <2>1. \A c \in Clients, s \in Scopes : held'[c][s].token <= issued'
      BY <1>7, <1>8 DEF TokenInv
    <2>2. \A t \in Tokens : sessions'[t] # NoSession => t <= issued'
      BY <1>8 DEF TokenInv
    <2>3. \A j \in Clients \cup Apis : task'[j].token <= issued'
      BY <1>3, <1>4, <1>7, <1>8, <1>9 DEF TokenInv
    <2>4. \A j \in Clients \cup Apis : Signing(j)' \/ Blank(task'[j])
      BY <1>3, <1>4 DEF TokenInv, Signing
    <2>5. ASSUME NEW j \in Clients \cup Apis, task'[j].pc = "hash"
          PROVE  /\ \A c \in Clients, s \in Scopes : held'[c][s].token # task'[j].token
                 /\ sessions'[task'[j].token] = NoSession
      <3>1. CASE j = k
        <4>1. task'[j].token = issued + 1
          BY <1>3, <1>4, <3>1
        <4>2. \A c \in Clients, s \in Scopes : held[c][s].token # issued + 1
          BY <1>7, <1>8 DEF TokenInv
        <4>3. sessions[issued + 1] = NoSession
          BY <1>8, <1>9 DEF TokenInv
        <4>q. QED
          BY <4>1, <4>2, <4>3
      <3>2. CASE j # k
        <4>1. task'[j] = task[j]
          BY <1>4, <3>2
        <4>q. QED
          <5>1. task[j].pc = "hash"
            BY <2>5, <4>1
          <5>2. /\ \A c \in Clients, s \in Scopes : held[c][s].token # task[j].token
                /\ sessions[task[j].token] = NoSession
            BY <5>1 DEF TokenInv
          <5>q. QED
            BY <1>a, <4>1, <5>2
      <3>q. QED
        BY <3>1, <3>2
    <2>6. ASSUME NEW j \in Clients \cup Apis, NEW i \in Clients \cup Apis,
                 task'[i].token = task'[j].token, i # j
          PROVE  task'[j].token = NoToken
      <3>1. \A n \in Clients \cup Apis : task[n].token # issued + 1
        BY <1>7, <1>8 DEF TokenInv
      <3>2. i # k /\ j # k
        BY <1>3, <1>4, <2>6, <3>1
      <3>q. QED
        BY <1>4, <2>6, <3>2 DEF TokenInv
    <2>q. QED
      BY <2>1, <2>2, <2>3, <2>4, <2>5, <2>6 DEF TokenInv
  <1>11. OwnerInv'
    <2>1. ASSUME NEW j \in Clients \cup Apis, Signing(j)'
          PROVE  /\ Deleted(task[j].user)' => task'[j].token \in raced'
                 /\ task'[j].pc # "hash" =>
                      IF sessions'[task'[j].token] = NoSession THEN task'[j].token \in raced'
                      ELSE sessions'[task'[j].token].user = task'[j].user
      <3>1. CASE j = k
        <4>1. task'[j].user = u /\ task'[j].pc = "hash"
          BY <1>3, <1>4, <3>1
        <4>2. doc'[u].cred # 0
          BY <1>5, <1>a
        <4>q. QED
          BY <4>1, <4>2 DEF Deleted
      <3>2. CASE j # k
        <4>1. task'[j] = task[j] /\ Signing(j)
          BY <1>4, <2>1, <3>2 DEF Signing
        <4>q. QED
          BY <4>1 DEF OwnerInv, Deleted
      <3>q. QED
        BY <3>1, <3>2
    <2>q. QED
      BY <2>1 DEF OwnerInv
  <1>q. QED
    BY <1>6, <1>10, <1>11

-----------------------------------------------------------------------------
(* Whom a handler still comes to.                                          *)

Sound(c, s) ==
    /\ ~Deleted(held[c][s].user)
    /\ held[c][s].token = NoToken \/ sessions[held[c][s].token] # NoSession

(* A scope that keeps its identity: the step of a handler k does not       *)
(* forget it.                                                              *)
Stays(k, c, s) ==
    LET t == held[c][s].token
        u == held[c][s].user
    IN  /\ held'[c][s] = held[c][s] /\ c \in Known /\ (c \in conn' => c \in conn)
        /\ u # Guest /\ doc'[u].cred = 0 =>
             Removes(k, c, s)' \/ (doc[u].cred = 0 /\ ~Removes(k, c, s))
        /\ c \in conn' /\ t # NoToken /\ sessions'[t] = NoSession
             /\ (u = Guest \/ doc'[u].cred # 0) =>
             \/ Resets(k, c, s)'
             \/ /\ sessions[t] = NoSession /\ (u = Guest \/ doc[u].cred # 0)
                /\ ~Resets(k, c, s)

LEMMA ComingKept ==
    ASSUME ComingInv, NEW k \in Clients \cup Apis, raced \subseteq raced',
           \A j \in Clients \cup Apis : j # k => task'[j] = task[j],
           Ordered(task'[k]),
           \A c \in Clients, s \in Scopes :
               c \in Known' /\ held'[c][s].token \notin raced' => Sound(c, s)' \/ Stays(k, c, s)
    PROVE  ComingInv'
  <1>1. \A j \in Clients \cup Apis : Ordered(task'[j])
    BY DEF ComingInv
  <1>2. ASSUME NEW c \in Clients, c \in Known', NEW s \in Scopes, held'[c][s].token \notin raced'
        PROVE  /\ Deleted(held[c][s].user)' => \E j \in Clients \cup Apis : Removes(j, c, s)'
               /\ c \in conn' /\ held'[c][s].token # NoToken
                  /\ sessions'[held'[c][s].token] = NoSession /\ ~Deleted(held[c][s].user)'
                    => \E j \in Clients \cup Apis : Resets(j, c, s)'
    <2>1. CASE Sound(c, s)'
      BY <2>1 DEF Sound
    <2>2. CASE Stays(k, c, s)
      <3>1. /\ held'[c][s] = held[c][s] /\ c \in Known /\ (c \in conn' => c \in conn)
            /\ held[c][s].token \notin raced
        BY <1>2, <2>2 DEF Stays
      <3>2. ASSUME NEW j \in Clients \cup Apis, j # k
            PROVE  (Removes(j, c, s) => Removes(j, c, s)') /\ (Resets(j, c, s) => Resets(j, c, s)')
        <4>1. task'[j] = task[j]
          BY <3>2
        <4>q. QED
          BY <3>1, <4>1 DEF Removes, Resets, Listed, Refreshing
      <3>3. ASSUME Deleted(held[c][s].user)'
            PROVE  \E j \in Clients \cup Apis : Removes(j, c, s)'
        <4>1. held[c][s].user # Guest /\ doc'[held[c][s].user].cred = 0
          BY <3>1, <3>3 DEF Deleted
        <4>2. CASE Removes(k, c, s)'
          BY <4>2
        <4>3. CASE doc[held[c][s].user].cred = 0 /\ ~Removes(k, c, s)
          <5>1. PICK j \in Clients \cup Apis : Removes(j, c, s)
            BY <3>1, <4>1, <4>3 DEF ComingInv, Deleted
          <5>q. QED
            BY <3>2, <4>3, <5>1
        <4>q. QED
          BY <2>2, <4>1, <4>2, <4>3 DEF Stays
      <3>4. ASSUME c \in conn', held'[c][s].token # NoToken,
                   sessions'[held'[c][s].token] = NoSession, ~Deleted(held[c][s].user)'
            PROVE  \E j \in Clients \cup Apis : Resets(j, c, s)'
        <4>1. /\ held[c][s].token # NoToken /\ sessions'[held[c][s].token] = NoSession
              /\ held[c][s].user = Guest \/ doc'[held[c][s].user].cred # 0
          BY <3>1, <3>4 DEF Deleted
        <4>2. CASE Resets(k, c, s)'
          BY <4>2
        <4>3. CASE /\ sessions[held[c][s].token] = NoSession
                   /\ held[c][s].user = Guest \/ doc[held[c][s].user].cred # 0
                   /\ ~Resets(k, c, s)
          <5>1. PICK j \in Clients \cup Apis : Resets(j, c, s)
            BY <3>1, <3>4, <4>1, <4>3 DEF ComingInv, Deleted
          <5>q. QED
            BY <3>2, <4>3, <5>1
        <4>q. QED
          BY <2>2, <3>4, <4>1, <4>2, <4>3 DEF Stays
      <3>q. QED
        BY <3>3, <3>4
    <2>q. QED
      BY <1>2, <2>1, <2>2
  <1>q. QED
    BY <1>1, <1>2 DEF ComingInv, Known

LEMMA PlanKept ==
    ASSUME PlanInv, NEW k \in Clients \cup Apis,
           \A j \in Clients \cup Apis : j # k => task'[j] = task[j],
           Refreshing(k)' =>
               /\ \A u \in Users : task'[k].doc[u].group = 0
               /\ task'[k].pc = "refresh" =>
                    \A p \in task'[k].snap : Updated(p.identity, task'[k].doc) = AutoLogin
    PROVE  PlanInv'
  <1>1. ASSUME NEW j \in Clients \cup Apis, Refreshing(j)'
        PROVE  /\ \A u \in Users : task'[j].doc[u].group = 0
               /\ task'[j].pc = "refresh" =>
                    \A p \in task'[j].snap : Updated(p.identity, task'[j].doc) = AutoLogin
    <2>1. CASE j = k
      BY <1>1, <2>1
    <2>2. CASE j # k
      <3>1. task'[j] = task[j] /\ Refreshing(j)
        BY <1>1, <2>2 DEF Refreshing
      <3>q. QED
        BY <3>1 DEF PlanInv
    <2>q. QED
      BY <2>1, <2>2
  <1>q. QED
    BY <1>1 DEF PlanInv

LEMMA PairOf ==
    ASSUME NEW c \in Clients, NEW s \in Scopes
    PROVE  LET p == [client |-> c, scope |-> s, identity |-> held[c][s]]
           IN  /\ p \in Pairs({c})
               /\ held[c][s].token # NoToken => held[c][s].token \in TokensOf(Pairs({c}))
               /\ held[c][s] # Absent => p \in Held({c})
  <1>1. [client |-> c, scope |-> s, identity |-> held[c][s]] \in Pairs({c})
    BY DEF Pairs
  <1>2. [client |-> c, scope |-> s, identity |-> held[c][s]].identity = held[c][s]
    OBVIOUS
  <1>q. QED
    BY <1>1, <1>2 DEF TokensOf, Held

LEMMA OverResets ==
    ASSUME SessionInv, NEW k \in Clients \cup Apis, Over(k)
    PROVE  /\ \A c \in Clients, s \in Scopes : ~Resets(k, c, s)
           /\ task[k].pc = "reset" /\ task[k].snap = {}
  <1>1. task[k].pc = "reset" /\ task[k].snap = {} /\ Holders(k) = {}
    BY DEF Over, Runs
  <1>2. ASSUME NEW c \in Clients, NEW s \in Scopes, Resets(k, c, s)
        PROVE  FALSE
    <2>1. c \in task[k].clients /\ held[c][s].token \in task[k].tokens
      BY <1>1, <1>2 DEF Resets, Listed
    <2>2. task[k].tokens \subseteq Tokens
      BY JobFacts DEF SessionInv, Jobs
    <2>3. held[c][s].token \in TokensOf(Pairs({c}))
      BY <2>1, <2>2, Numbers, PairOf
    <2>q. QED
      BY <1>1, <2>1, <2>3 DEF Holders
  <1>q. QED
    BY <1>1, <1>2

LEMMA DeletedIsOutdated ==
    ASSUME SessionInv, NEW k \in Clients \cup Apis, NEW c \in Clients, NEW s \in Scopes,
           held[c][s].user # Guest, task[k].doc[held[c][s].user].cred = 0
    PROVE  [client |-> c, scope |-> s, identity |-> held[c][s]] \in Outdated(k, c)
  <1>1. held[c][s] # Absent /\ held[c][s] # AutoLogin
    BY GuestIdentities
  <1>2. Updated(held[c][s], task[k].doc) = AutoLogin
    BY DEF Updated
  <1>3. [client |-> c, scope |-> s, identity |-> held[c][s]] \in Held({c})
    BY <1>1, PairOf
  <1>q. QED
    BY <1>1, <1>2, <1>3 DEF Outdated

LEMMA RefreshOver ==
    ASSUME SessionInv, NEW k \in Clients \cup Apis, task[k].pc = "refresh", task[k].snap = {},
           Behind(k) = {}
    PROVE  \A c \in Clients, s \in Scopes : held[c][s].user # Guest => ~Removes(k, c, s)
  <1> SUFFICES ASSUME NEW c \in Clients, NEW s \in Scopes, held[c][s].user # Guest,
                      Removes(k, c, s)
               PROVE  FALSE
    OBVIOUS
  <1>1. c \in task[k].clients /\ task[k].doc[held[c][s].user].cred = 0
    BY DEF Removes, Listed
  <1>2. Outdated(k, c) # {}
    BY <1>1, DeletedIsOutdated
  <1>q. QED
    BY <1>1, <1>2 DEF Behind

LEMMA ResetComing ==
    ASSUME SessionInv, ComingInv, NEW k \in Clients \cup Apis, NEW tokens \in SUBSET Tokens,
           NEW started, NEW job \in Jobs, job.snap = {}, Reset(k, tokens, started, job),
           UNCHANGED <<doc, conn, owner>>, task[k].pc # "reset",
           \A c \in Clients, s \in Scopes :
               Removes(k, c, s) => job.does = "refresh" /\ job.doc = doc,
           \A t \in Tokens : started[t] = NoSession => sessions[t] = NoSession,
           \A c \in Clients, s \in Scopes :
               held'[c][s] = held[c][s] \/ held'[c][s].token \in raced' \/ Sound(c, s)'
    PROVE  ComingInv'
  <1>0. TaskInv /\ LinkInv /\ HeldInv
    BY DEF SessionInv
  <1>1. /\ sessions' = [t \in Tokens |-> IF t \in tokens THEN NoSession ELSE started[t]]
        /\ raced' = raced \cup {t \in tokens : InFlight(t)}
        /\ task' = [task EXCEPT ![k] = [job EXCEPT !.pc = "reset", !.tokens = tokens,
                                        !.clients = Known \cap conn]]
    BY DEF Reset
  <1>a. doc' = doc /\ conn' = conn /\ owner' = owner
    OBVIOUS
  <1>2. PICK clients \in SUBSET Clients : clients = Known \cap conn
    BY DEF Known
  <1>3. PICK next : next = [job EXCEPT !.pc = "reset", !.tokens = tokens, !.clients = clients]
    OBVIOUS
  <1>4. /\ next.pc = "reset" /\ next.tokens = tokens /\ next.clients = clients /\ next.snap = {}
        /\ next.does = job.does /\ next.doc = job.doc
    BY <1>3 DEF Jobs
  <1>5. task' = [task EXCEPT ![k] = next]
    BY <1>1, <1>2, <1>3
  <1>6. \A j \in Clients \cup Apis : task'[j] = IF j = k THEN next ELSE task[j]
    BY <1>0, <1>5 DEF TaskInv
  <1>7. Ordered(task'[k])
    BY <1>4, <1>6 DEF Ordered
  <1>8. ASSUME NEW c \in Clients, NEW s \in Scopes, c \in Known', held'[c][s] = held[c][s],
               held'[c][s].token \notin raced'
        PROVE  Stays(k, c, s)
    <2>1. c \in Known /\ held[c][s].token \in Tokens \cup {NoToken}
      BY <1>0, <1>a, <1>8, HeldFacts DEF Known
    <2>2. ASSUME held[c][s].user # Guest, doc'[held[c][s].user].cred = 0
          PROVE  Removes(k, c, s)' \/ (doc[held[c][s].user].cred = 0 /\ ~Removes(k, c, s))
      <3>1. CASE ~Removes(k, c, s)
        BY <1>a, <2>2, <3>1
      <3>2. CASE Removes(k, c, s)
        <4>1. /\ task'[k].pc = "reset" /\ task'[k].does = "refresh" /\ task'[k].doc = doc
          BY <1>4, <1>6, <3>2
        <4>2. held'[c][s].user = held[c][s].user /\ doc[held[c][s].user].cred = 0
          BY <1>a, <1>8, <2>2
        <4>q. QED
          BY <4>1, <4>2 DEF Removes, Refreshing
      <3>q. QED
        BY <3>1, <3>2
    <2>3. ASSUME c \in conn', held[c][s].token # NoToken, sessions'[held[c][s].token] = NoSession,
                 held[c][s].user = Guest \/ doc'[held[c][s].user].cred # 0
          PROVE  \/ Resets(k, c, s)'
                 \/ /\ sessions[held[c][s].token] = NoSession
                    /\ held[c][s].user = Guest \/ doc[held[c][s].user].cred # 0
                    /\ ~Resets(k, c, s)
      <3>1. CASE held[c][s].token \in tokens
        <4>1. /\ task'[k].pc = "reset" /\ task'[k].tokens = tokens /\ c \in task'[k].clients
          BY <1>2, <1>4, <1>6, <1>a, <2>1, <2>3
        <4>q. QED
          BY <1>8, <3>1, <4>1 DEF Resets, Listed
      <3>2. CASE held[c][s].token \notin tokens
        <4>1. sessions[held[c][s].token] = NoSession
          BY <1>1, <2>1, <2>3, <3>2
        <4>2. ~Resets(k, c, s)
          BY DEF Resets
        <4>q. QED
          BY <1>a, <2>3, <4>1, <4>2
      <3>q. QED
        BY <3>1, <3>2
    <2>q. QED
      BY <1>8, <1>a, <2>1, <2>2, <2>3 DEF Stays
  <1>9. raced \subseteq raced'
    BY <1>1
  <1>q. QED
    BY <1>6, <1>7, <1>8, <1>9, ComingKept

LEMMA GuestGranted ==
    ASSUME NEW c \in Clients, NEW s \in Scopes,
           held'[c][s].user = Guest, held'[c][s].token = NoToken, held'[c][s] \in Identities
    PROVE  Sound(c, s)' /\ \E i \in Identities : held'[c][s] = i /\ Granted(i)'
  <1>1. Sound(c, s)'
    BY DEF Sound, Deleted
  <1>2. PICK i \in Identities : i = held'[c][s]
    OBVIOUS
  <1>3. Granted(i)'
    BY <1>2 DEF Granted
  <1>q. QED
    BY <1>1, <1>2, <1>3

(* Nothing happens to the handlers and the logins.                         *)
LEMMA LinksRevoked ==
    ASSUME SessionInv, SessionInv', RevokedInv, NEW k \in Clients \cup Apis,
           UNCHANGED <<doc, sessions, issued, task, raced>>,
           \A c \in Clients : \/ /\ held'[c] = held[c] /\ (c \in Known' => c \in Known)
                                 /\ (c \in conn' => c \in conn)
                              \/ held'[c] = Nothing
    PROVE  RevokedInv'
  <1>1. ASSUME NEW c \in Clients, NEW s \in Scopes, held'[c] = Nothing
        PROVE  Sound(c, s)' /\ \E i \in Identities : held'[c][s] = i /\ Granted(i)'
    BY <1>1, GuestIdentities, GuestGranted
  <1>2. doc' = doc /\ sessions' = sessions /\ issued' = issued /\ task' = task /\ raced' = raced
    OBVIOUS
  <1>3. GoesOn(k) /\ Deletes /\ Revokes(k)
    BY <1>2 DEF GoesOn, Deletes, Revokes
  <1>4. Grants
    BY <1>1 DEF Grants
  <1>5. FlatInv' /\ TokenInv' /\ OwnerInv'
    BY <1>3, <1>4, SignKept DEF RevokedInv
  <1>6. PlanInv'
    BY <1>2 DEF RevokedInv, PlanInv, Refreshing
  <1>7. ComingInv'
    <2>1. ASSUME NEW c \in Clients, NEW s \in Scopes, c \in Known', held'[c] # Nothing
          PROVE  Stays(k, c, s)
      <3>1. /\ held'[c] = held[c] /\ c \in Known /\ (c \in conn' => c \in conn)
        BY <2>1
      <3>2. Removes(k, c, s) => Removes(k, c, s)'
        BY <1>2, <3>1 DEF Removes, Refreshing, Listed
      <3>3. Resets(k, c, s) => Resets(k, c, s)'
        BY <1>2, <3>1 DEF Resets, Listed
      <3>q. QED
        BY <1>2, <3>1, <3>2, <3>3 DEF Stays
    <2>2. Ordered(task'[k])
      BY <1>2 DEF RevokedInv, ComingInv
    <2>q. QED
      BY <1>1, <1>2, <2>1, <2>2, ComingKept DEF RevokedInv
  <1>q. QED
    BY <1>5, <1>6, <1>7 DEF RevokedInv

LEMMA ConnectRevoked ==
    ASSUME SessionInv, SessionInv', RevokedInv, NEW t \in Tabs, Connect(t)
    PROVE  RevokedInv'
  <1>1. /\ born' = born + 1 /\ born' \in Clients /\ owner[born'] = NoTab
        /\ conn' = conn \cup {born'} /\ owner' = [owner EXCEPT ![born'] = t]
        /\ UNCHANGED <<doc, sessions, issued, held, task, raced>>
    BY BoundsAssumption DEF Connect, SessionInv, LinkInv, Clients
  <1>2. held[born'] = Nothing
    BY <1>1 DEF SessionInv, HeldInv
  <1>3. \A c \in Clients : c # born' => owner'[c] = owner[c]
    BY <1>1 DEF SessionInv, LinkInv
  <1>q. QED
    BY <1>1, <1>2, <1>3, LinksRevoked DEF Known

LEMMA CloseRevoked ==
    ASSUME SessionInv, SessionInv', RevokedInv, NEW t \in Tabs, Close(t)
    PROVE  RevokedInv'
  <1>1. sock[t] \in Clients
    BY DEF Close, SessionInv, LinkInv
  <1>2. UNCHANGED <<doc, sessions, issued, conn, owner, held, task, raced>>
    BY DEF Close
  <1>q. QED
    BY <1>1, <1>2, LinksRevoked DEF Known

LEMMA DisconnectRevoked ==
    ASSUME SessionInv, SessionInv', RevokedInv, NEW c \in Clients, Disconnect(c)
    PROVE  RevokedInv'
  <1>1. /\ conn' = conn \ {c} /\ owner' = [owner EXCEPT ![c] = NoTab]
        /\ held' = [held EXCEPT ![c] = Nothing]
        /\ UNCHANGED <<doc, sessions, issued, task, raced>>
    BY DEF Disconnect
  <1>2. \A d \in Clients : /\ held'[d] = IF d = c THEN Nothing ELSE held[d]
                           /\ d # c => owner'[d] = owner[d]
    BY <1>1 DEF SessionInv, HeldInv, LinkInv
  <1>q. QED
    BY <1>1, <1>2, LinksRevoked DEF Known

LEMMA DropRevoked ==
    ASSUME SessionInv, SessionInv', RevokedInv, NEW c \in Clients, Drop(c)
    PROVE  RevokedInv'
  <1>1. conn' = conn \ {c} /\ UNCHANGED <<doc, sessions, issued, owner, held, task, raced>>
    BY DEF Drop
  <1>q. QED
    BY <1>1, LinksRevoked DEF Known

(* A view is given the login in its tab's session storage, or that login   *)
(* is over: its user was deleted.                                          *)
LEMMA RequestRevoked ==
    ASSUME SessionInv, SessionInv', RevokedInv, NEW t \in Tabs, RequestIdentity(t)
    PROVE  RevokedInv'
  <1>0. LinkInv /\ HeldInv /\ TabInv /\ LoginInv /\ DocInv /\ TaskInv /\ HeldInv'
        /\ FlatInv /\ TokenInv /\ OwnerInv /\ PlanInv /\ ComingInv
    BY DEF SessionInv, RevokedInv
  <1>1. sock[t] \in Clients /\ live[t] \in Scopes /\ saved[t] \in Tokens \cup {NoToken}
    BY <1>0 DEF RequestIdentity, Receives, LinkInv, TabInv
  <1>2. PICK c \in Clients : c = sock[t]
    BY <1>1
  <1>3. PICK s \in Scopes : s = IF held[c][live[t]] = Absent THEN live[t] ELSE live[t] + 1
    BY <1>2 DEF RequestIdentity
  <1>4. PICK identity \in Identities : identity = Resumed(saved[t])
    BY <1>0, <1>1, ResumedType
  <1>5. /\ sessions' = IF saved[t] # NoToken /\ identity = AutoLogin
                       THEN [sessions EXCEPT ![saved[t]] = NoSession] ELSE sessions
        /\ held' = [held EXCEPT ![c][s] = identity]
        /\ UNCHANGED <<doc, issued, conn, owner, task, raced>>
    BY <1>2, <1>3, <1>4 DEF RequestIdentity, Hold
  <1>a. doc' = doc /\ issued' = issued /\ conn' = conn /\ owner' = owner /\ task' = task
        /\ raced' = raced
    BY <1>5
  <1>6. \A d \in Clients, r \in Scopes :
           held'[d][r] = IF d = c /\ r = s THEN identity ELSE held[d][r]
    BY <1>0, <1>5 DEF HeldInv
  <1>7. /\ identity = AutoLogin /\ (saved[t] # NoToken => ~Current(sessions[saved[t]]))
        \/ /\ saved[t] # NoToken /\ Current(sessions[saved[t]]) /\ sessions[saved[t]] # NoSession
           /\ identity = [user |-> sessions[saved[t]].user,
                          group |-> doc[sessions[saved[t]].user].group, token |-> saved[t]]
           /\ identity # AutoLogin
    <2>1. CASE saved[t] # NoToken /\ Current(sessions[saved[t]])
      <3>1. identity = [user |-> sessions[saved[t]].user,
                        group |-> doc[sessions[saved[t]].user].group, token |-> saved[t]]
        BY <1>4, <2>1 DEF Resumed
      <3>2. identity.token # AutoLogin.token
        BY <2>1, <3>1, GuestIdentities
      <3>q. QED
        BY <2>1, <3>1, <3>2 DEF Current
    <2>2. CASE ~(saved[t] # NoToken /\ Current(sessions[saved[t]]))
      <3>1. identity = AutoLogin
        BY <1>4, <2>2 DEF Resumed
      <3>q. QED
        BY <2>2, <3>1
    <2>q. QED
      BY <2>1, <2>2
  (* What ends here is a deleted user's.                                   *)
  <1>8. ASSUME NEW n \in Tokens, sessions'[n] # sessions[n]
        PROVE  /\ sessions'[n] = NoSession /\ sessions[n] # NoSession
               /\ sessions[n].user \in Users /\ doc[sessions[n].user].cred = 0
    <2>1. /\ n = saved[t] /\ n # NoToken /\ identity = AutoLogin
          /\ sessions'[n] = NoSession /\ sessions[n] # NoSession
      BY <1>0, <1>5, <1>8 DEF LoginInv
    <2>2. ~Current(sessions[n])
      BY <1>7, <2>1
    <2>3. sessions[n].user \in Users
      BY <1>0, <2>1 DEF LoginInv
    <2>4. doc[sessions[n].user].cred # 1
      BY <1>0, <2>1, <2>2 DEF Current, FlatInv
    <2>5. doc[sessions[n].user].cred \in {0, 1}
      BY <1>0, <2>3 DEF FlatInv
    <2>q. QED
      BY <2>1, <2>3, <2>4, <2>5
  <1>9. Deletes /\ GoesOn(c)
    BY <1>a DEF Deletes, GoesOn
  <1>10. Revokes(c)
    <2>1. ASSUME NEW n \in Tokens, sessions'[n] # sessions[n], NEW j \in Clients \cup Apis,
                 Signing(j), task[j].token = n
          PROVE  n \in raced'
      <3>1. /\ sessions[n] # NoSession /\ sessions[n].user \in Users
            /\ doc[sessions[n].user].cred = 0
        BY <1>8, <2>1
      <3>2. task[j].pc # "hash"
        BY <1>0, <2>1, <3>1 DEF TokenInv
      <3>3. sessions[n].user = task[j].user
        BY <1>0, <2>1, <3>1, <3>2 DEF OwnerInv
      <3>4. Deleted(task[j].user)
        BY <3>1, <3>3, ConstantsAssumption DEF Deleted
      <3>q. QED
        BY <1>0, <1>a, <2>1, <3>4 DEF OwnerInv
    <2>q. QED
      BY <1>8, <2>1 DEF Revokes
  <1>11. ASSUME identity # AutoLogin
         PROVE  /\ Granted(identity)' /\ Sound(c, s)'
    <2>1. /\ saved[t] \in Tokens /\ Current(sessions[saved[t]]) /\ sessions[saved[t]] # NoSession
          /\ identity = [user |-> sessions[saved[t]].user,
                         group |-> doc[sessions[saved[t]].user].group, token |-> saved[t]]
          /\ sessions' = sessions
      BY <1>1, <1>5, <1>7, <1>11
    <2>2. sessions[saved[t]].user \in Users
      BY <1>0, <2>1 DEF LoginInv
    <2>3. identity.group = 0 /\ identity.token = saved[t] /\ identity.user = sessions[saved[t]].user
      BY <1>0, <2>1, <2>2 DEF FlatInv
    <2>4. saved[t] <= issued /\ \A j \in Clients \cup Apis : task[j].pc = "hash" => task[j].token # saved[t]
      BY <1>0, <2>1 DEF TokenInv
    <2>5. Granted(identity)'
      BY <1>a, <2>1, <2>3, <2>4 DEF Granted
    <2>6. doc[sessions[saved[t]].user].cred = 1
      BY <1>0, <2>1, <2>2 DEF Current, FlatInv
    <2>7. doc[sessions[saved[t]].user].cred # 0
      BY <2>6
    <2>8. held'[c][s] = identity
      BY <1>6
    <2>9. Sound(c, s)'
      BY <1>a, <2>1, <2>3, <2>7, <2>8 DEF Sound, Deleted
    <2>q. QED
      BY <2>5, <2>9
  <1>12. Sound(c, s)' /\ \E i \in Identities : held'[c][s] = i /\ Granted(i)'
    <2>1. CASE identity = AutoLogin
      BY <1>6, <2>1, GuestIdentities, GuestGranted
    <2>2. CASE identity # AutoLogin
      BY <1>6, <1>11, <2>2
    <2>q. QED
      BY <2>1, <2>2
  <1>13. Grants
    BY <1>6, <1>12 DEF Grants
  <1>14. FlatInv' /\ TokenInv' /\ OwnerInv'
    BY <1>0, <1>9, <1>10, <1>13, SignKept
  <1>15. PlanInv'
    BY <1>0, <1>a DEF PlanInv, Refreshing
  <1>16. ComingInv'
    <2>1. ASSUME NEW d \in Clients, NEW r \in Scopes, d \in Known', ~(d = c /\ r = s)
          PROVE  Stays(c, d, r)
      <3>1. held'[d][r] = held[d][r] /\ d \in Known
        BY <1>6, <1>a, <2>1 DEF Known
      <3>2. (Removes(c, d, r) => Removes(c, d, r)') /\ (Resets(c, d, r) => Resets(c, d, r)')
        BY <1>a, <3>1 DEF Removes, Refreshing, Listed, Resets
      <3>3. ASSUME held[d][r].token # NoToken, sessions'[held[d][r].token] = NoSession,
                   held[d][r].user = Guest \/ doc'[held[d][r].user].cred # 0
            PROVE  sessions[held[d][r].token] = NoSession
        <4>1. held[d][r].token \in Tokens
          BY <1>0, <3>3, HeldFacts
        <4>2. CASE sessions'[held[d][r].token] # sessions[held[d][r].token]
          <5>1. /\ sessions[held[d][r].token] # NoSession
                /\ sessions[held[d][r].token].user \in Users
                /\ doc[sessions[held[d][r].token].user].cred = 0
            BY <1>8, <4>1, <4>2
          <5>2. sessions[held[d][r].token].user = held[d][r].user
            BY <1>0, <3>3, <5>1 DEF OwnerInv
          <5>q. QED
            BY <1>a, <3>3, <5>1, <5>2, ConstantsAssumption
        <4>q. QED
          BY <3>3, <4>2
      <3>q. QED
        BY <1>a, <3>1, <3>2, <3>3 DEF Stays
    <2>2. Ordered(task'[c])
      BY <1>0, <1>a DEF ComingInv
    <2>q. QED
      BY <1>0, <1>a, <1>12, <2>1, <2>2, ComingKept
  <1>q. QED
    BY <1>14, <1>15, <1>16 DEF RevokedInv

(* A handler that resets and refreshes nothing.                            *)
LEMMA AsideComing ==
    ASSUME SessionInv, ComingInv, NEW k \in Clients \cup Apis,
           task[k].pc \notin {"load", "reset", "refresh"}, task'[k].snap = {},
           \A j \in Clients \cup Apis : j # k => task'[j] = task[j],
           UNCHANGED <<doc, conn, owner>>, raced \subseteq raced',
           \A t \in Tokens : sessions'[t] = NoSession => sessions[t] = NoSession \/ t \in raced',
           \A c \in Clients, s \in Scopes :
               held'[c][s] = held[c][s] \/ held'[c][s].token \in raced' \/ Sound(c, s)'
    PROVE  ComingInv'
  <1>1. doc' = doc /\ conn' = conn /\ owner' = owner
    OBVIOUS
  <1>2. \A c \in Clients, s \in Scopes : ~Removes(k, c, s) /\ ~Resets(k, c, s)
    BY DEF Removes, Resets, Refreshing
  <1>3. ASSUME NEW c \in Clients, NEW s \in Scopes, c \in Known', held'[c][s] = held[c][s],
               held'[c][s].token \notin raced'
        PROVE  Stays(k, c, s)
    <2>1. held[c][s].token \in Tokens \cup {NoToken}
      BY HeldFacts DEF SessionInv
    <2>2. held[c][s].token # NoToken /\ sessions'[held[c][s].token] = NoSession
            => sessions[held[c][s].token] = NoSession
      BY <1>3, <2>1
    <2>q. QED
      BY <1>1, <1>2, <1>3, <2>2 DEF Stays, Known
  <1>4. Ordered(task'[k])
    BY DEF Ordered
  <1>q. QED
    BY <1>3, <1>4, ComingKept

LEMMA HashRevoked ==
    ASSUME SessionInv, SessionInv', RevokedInv, NEW k \in Clients \cup Apis,
           NEW does \in {"login", "panel in"}, NEW scope \in Scopes \cup {0}, NEW u \in Users,
           Hashing(k, does, scope, u), task[k] = NoTask,
           UNCHANGED <<doc, sessions, held, conn, owner, raced>>
    PROVE  RevokedInv'
  <1>1. PICK job : job = [NoTask EXCEPT !.pc = "hash", !.does = does, !.scope = scope, !.user = u,
                                        !.token = issued + 1, !.doc = doc]
    OBVIOUS
  <1>2. job.pc = "hash" /\ job.snap = {}
    BY <1>1 DEF NoTask
  <1>3. task' = [task EXCEPT ![k] = job]
    BY <1>1 DEF Hashing
  <1>4. \A j \in Clients \cup Apis : task'[j] = IF j = k THEN job ELSE task[j]
    BY <1>3 DEF SessionInv, TaskInv
  <1>5. FlatInv' /\ TokenInv' /\ OwnerInv'
    BY HashSignKept DEF RevokedInv
  <1>6. PlanInv'
    <2>1. ~Refreshing(k)'
      BY <1>2, <1>4 DEF Refreshing
    <2>q. QED
      BY <1>4, <2>1, PlanKept DEF RevokedInv
  <1>7. ComingInv'
    <2>1. task[k].pc = "idle" /\ task'[k].snap = {}
      BY <1>2, <1>4, NoTaskIsIdle
    <2>2. /\ held' = held /\ raced' = raced /\ sessions' = sessions
          /\ UNCHANGED <<doc, conn, owner>>
      OBVIOUS
    <2>q. QED
      BY <1>4, <2>1, <2>2, AsideComing DEF RevokedInv
  <1>q. QED
    BY <1>5, <1>6, <1>7 DEF RevokedInv

LEMMA LoginRevoked ==
    ASSUME SessionInv, SessionInv', RevokedInv, NEW t \in Tabs, NEW u \in Users, Login(t, u)
    PROVE  RevokedInv'
  <1>1. /\ sock[t] \in Clients /\ task[sock[t]] = NoTask /\ live[t] \in Scopes
        /\ Hashing(sock[t], "login", live[t], u)
        /\ UNCHANGED <<doc, sessions, held, conn, owner, raced>>
    BY DEF Login, Receives, SessionInv, LinkInv, TabInv
  <1>q. QED
    BY <1>1, HashRevoked

LEMMA PanelInRevoked ==
    ASSUME SessionInv, SessionInv', RevokedInv, NEW a \in Apis, NEW u \in Users, PanelIn(a, u)
    PROVE  RevokedInv'
  <1>1. /\ task[a] = NoTask /\ Hashing(a, "panel in", 0, u)
        /\ UNCHANGED <<doc, sessions, held, conn, owner, raced>>
    BY DEF PanelIn, Request
  <1>q. QED
    BY <1>1, HashRevoked

LEMMA PanelInHashedRevoked ==
    ASSUME SessionInv, SessionInv', RevokedInv, NEW a \in Apis, PanelInHashed(a)
    PROVE  RevokedInv'
  <1>0. /\ TaskInv /\ JobOK(a, task[a]) /\ task[a].pc = "hash" /\ a \notin Clients
        /\ FlatInv /\ TokenInv /\ OwnerInv /\ PlanInv /\ ComingInv /\ LoginInv
    BY TasksAssumption DEF SessionInv, TaskInv, PanelInHashed, RevokedInv
  <1>a. /\ task[a].does = "panel in" /\ task[a] \in Jobs /\ task[a].snap = {} /\ Signing(a)
        /\ task[a].token \in Tokens
    BY <1>0 DEF JobOK, Signing
  <1>1. doc' = doc /\ issued' = issued /\ conn' = conn /\ owner' = owner /\ held' = held
        /\ raced' = raced
    BY DEF PanelInHashed
  <1>2. CASE panels = {}
    <2>1. task' = [task EXCEPT ![a] = NoTask] /\ sessions' = sessions
      BY <1>2 DEF PanelInHashed
    <2>2. \A j \in Clients \cup Apis : task'[j] = IF j = a THEN NoTask ELSE task[j]
      BY <1>0, <2>1 DEF TaskInv
    <2>3. Blank(NoTask) /\ NoTask.snap = {} /\ NoTask.pc = "idle"
      BY DEF Blank, NoTask
    <2>4. GoesOn(a) /\ Deletes /\ Revokes(a) /\ Grants
      BY <1>1, <2>1, <2>2, <2>3 DEF GoesOn, Deletes, Revokes, Grants
    <2>5. FlatInv' /\ TokenInv' /\ OwnerInv'
      BY <1>0, <2>4, SignKept
    <2>6. PlanInv'
      <3>1. ~Refreshing(a)'
        BY <2>2, <2>3 DEF Refreshing
      <3>q. QED
        BY <1>0, <2>2, <3>1, PlanKept
    <2>7. ComingInv'
      BY <1>0, <1>1, <2>1, <2>2, <2>3, AsideComing
    <2>q. QED
      BY <2>5, <2>6, <2>7 DEF RevokedInv
  <1>3. CASE panels # {}
    <2>1. /\ sessions' = Started(a)
          /\ task' = [task EXCEPT ![a].pc = "panel in",
                                  ![a].pairs = Held(panels \cap conn),
                                  ![a].tokens = TokensOf(Held(panels \cap conn))]
      BY <1>3 DEF PanelInHashed
    <2>2. PICK job : job = [task[a] EXCEPT !.pc = "panel in", !.pairs = Held(panels \cap conn),
                                           !.tokens = TokensOf(Held(panels \cap conn))]
      OBVIOUS
    <2>3. task' = [task EXCEPT ![a] = job]
      BY <1>0, <1>a, <2>1, <2>2 DEF Jobs, TaskInv
    <2>4. \A j \in Clients \cup Apis : task'[j] = IF j = a THEN job ELSE task[j]
      BY <1>0, <2>3 DEF TaskInv
    <2>5. /\ job.pc = "panel in" /\ job.does = "panel in" /\ job.snap = {}
          /\ job.user = task[a].user /\ job.doc = task[a].doc /\ job.token = task[a].token
      BY <1>a, <2>2 DEF Jobs
    <2>6. task[a].doc[task[a].user].cred = 1
      BY <1>0, <1>a DEF FlatInv
    <2>7. \A n \in Tokens : sessions'[n] = IF n = task[a].token
                                           THEN [user |-> task[a].user, cred |-> 1]
                                           ELSE sessions[n]
      BY <1>0, <1>a, <2>1, <2>6 DEF Started, LoginInv
    <2>8. GoesOn(a) /\ Deletes /\ Grants
      BY <1>1, <1>a, <2>4, <2>5, <2>7 DEF GoesOn, Deletes, Grants
    <2>9. Revokes(a)
      BY <1>0, <1>a, <2>4, <2>5, <2>7 DEF Revokes
    <2>10. FlatInv' /\ TokenInv' /\ OwnerInv'
      BY <1>0, <2>8, <2>9, SignKept
    <2>11. PlanInv'
      <3>1. ~Refreshing(a)'
        BY <2>4, <2>5 DEF Refreshing
      <3>q. QED
        BY <1>0, <2>4, <3>1, PlanKept
    <2>12. ComingInv'
      <3>1. \A n \in Tokens : sessions'[n] = NoSession => sessions[n] = NoSession
        BY <1>0, <2>7 DEF TokenInv
      <3>q. QED
        BY <1>0, <1>1, <2>4, <2>5, <3>1, AsideComing
    <2>q. QED
      BY <2>10, <2>11, <2>12 DEF RevokedInv
  <1>q. QED
    BY <1>2, <1>3

LEMMA LoginHashedRevoked ==
    ASSUME SessionInv, SessionInv', RevokedInv, NEW c \in Clients, LoginHashed(c)
    PROVE  RevokedInv'
  <1>0. /\ TaskInv /\ JobOK(c, task[c]) /\ task[c].pc = "hash" /\ HeldInv /\ LoginInv
        /\ FlatInv /\ TokenInv /\ OwnerInv /\ PlanInv /\ ComingInv
    BY DEF SessionInv, TaskInv, LoginHashed, RevokedInv
  <1>a. /\ task[c].does = "login" /\ task[c] \in Jobs /\ task[c].snap = {} /\ Signing(c)
        /\ task[c].token \in Tokens /\ task[c].scope \in Scopes
    BY <1>0 DEF JobOK, Signing
  <1>b. PICK s \in Scopes : s = task[c].scope
    BY <1>a
  <1>c. PICK tokens \in SUBSET Tokens : tokens = {held[c][s].token} \ {NoToken}
    BY <1>0, HeldFacts
  <1>d. PICK identity \in Identities : identity = SignedIn(c)
    BY <1>0, <1>a, SignedInType
  <1>1. /\ held' = [held EXCEPT ![c][s] = identity]
        /\ Reset(c, tokens, Started(c), task[c])
    BY <1>b, <1>c, <1>d DEF LoginHashed, Hold
  <1>2. doc' = doc /\ issued' = issued /\ conn' = conn /\ owner' = owner
    BY DEF LoginHashed
  <1>3. PICK job : job = [task[c] EXCEPT !.pc = "reset", !.tokens = tokens,
                                         !.clients = Known \cap conn]
    OBVIOUS
  <1>4. \A j \in Clients \cup Apis : task'[j] = IF j = c THEN job ELSE task[j]
    BY <1>0, <1>1, <1>3 DEF TaskInv, Reset
  <1>5. /\ job.pc = "reset" /\ job.does = "login" /\ job.snap = {}
        /\ job.user = task[c].user /\ job.doc = task[c].doc /\ job.token = task[c].token
    BY <1>a, <1>3 DEF Jobs
  <1>6. task[c].doc[task[c].user].cred = 1 /\ task[c].doc[task[c].user].group = 0
    BY <1>0, <1>a DEF FlatInv
  <1>7. /\ identity.user = task[c].user /\ identity.group = 0 /\ identity.token = task[c].token
    BY <1>6, <1>d DEF SignedIn
  <1>8. \A n \in Tokens : sessions'[n] = IF n \in tokens THEN NoSession
                                         ELSE IF n = task[c].token
                                         THEN [user |-> task[c].user, cred |-> 1]
                                         ELSE sessions[n]
    BY <1>0, <1>1, <1>a, <1>6 DEF Started, LoginInv, Reset
  <1>9. raced' = raced \cup {n \in tokens : InFlight(n)}
    BY <1>1 DEF Reset
  <1>10. task[c].token \notin tokens
    BY <1>0, <1>c DEF TokenInv
  <1>11. \A d \in Clients, r \in Scopes :
           held'[d][r] = IF d = c /\ r = s THEN identity ELSE held[d][r]
    BY <1>0, <1>1 DEF HeldInv
  <1>12. GoesOn(c)
    BY <1>2, <1>4, <1>5, <1>8, <1>9, <1>10, <1>a DEF GoesOn
  <1>13. Deletes
    BY <1>2 DEF Deletes
  <1>14. Revokes(c)
    <2>1. \A n \in tokens : \A j \in Clients \cup Apis : task[j].token = n => n \in raced'
      <3>1. DOMAIN task = Clients \cup Apis
        BY <1>0 DEF TaskInv
      <3>q. QED
        BY <1>9, <3>1 DEF InFlight
    <2>q. QED
      BY <1>0, <1>4, <1>5, <1>8, <2>1 DEF Revokes
  <1>15. Granted(identity)'
    <2>1. task[c].token # NoToken
      BY <1>a, Numbers
    <2>2. \A j \in Clients \cup Apis : task'[j].pc = "hash" => task'[j].token # task[c].token
      BY <1>0, <1>4, <1>5, <2>1 DEF TokenInv
    <2>3. identity.token <= issued' /\ sessions'[identity.token].user = identity.user
      BY <1>0, <1>2, <1>7, <1>8, <1>10, <1>a DEF TokenInv
    <2>q. QED
      BY <1>7, <2>2, <2>3 DEF Granted
  <1>16. Grants
    BY <1>11, <1>15 DEF Grants
  <1>17. FlatInv' /\ TokenInv' /\ OwnerInv'
    BY <1>0, <1>12, <1>13, <1>14, <1>16, SignKept
  <1>18. PlanInv'
    <2>1. ~Refreshing(c)'
      BY <1>4, <1>5 DEF Refreshing
    <2>q. QED
      BY <1>0, <1>4, <2>1, PlanKept
  (* The user may have been deleted while the password was hashed.         *)
  <1>19. held'[c][s].token \in raced' \/ Sound(c, s)'
    <2>1. held'[c][s] = identity /\ task[c].user # Guest
      BY <1>0, <1>11, <1>a, JobFacts
    <2>2. CASE doc[task[c].user].cred = 0
      <3>1. task[c].token \in raced
        BY <1>0, <1>a, <2>1, <2>2 DEF OwnerInv, Deleted
      <3>q. QED
        BY <1>7, <1>9, <2>1, <3>1
    <2>3. CASE doc[task[c].user].cred # 0
      <3>1. sessions'[task[c].token] = [user |-> task[c].user, cred |-> 1]
        BY <1>8, <1>10, <1>a
      <3>2. sessions'[task[c].token] # NoSession
        BY <2>1, <3>1 DEF NoSession
      <3>q. QED
        BY <1>2, <1>7, <2>1, <2>3, <3>2 DEF Sound, Deleted
    <2>q. QED
      BY <2>2, <2>3
  <1>20. ComingInv'
    <2>1. \A n \in Tokens : Started(c)[n] = NoSession => sessions[n] = NoSession
      <3>1. \A n \in Tokens : n # task[c].token => Started(c)[n] = sessions[n]
        BY <1>0 DEF Started, LoginInv
      <3>2. sessions[task[c].token] = NoSession
        BY <1>0 DEF TokenInv
      <3>q. QED
        BY <3>1, <3>2
    <2>2. \A d \in Clients, r \in Scopes : ~Removes(c, d, r)
      BY <1>0 DEF Removes, Refreshing
    <2>3. \A d \in Clients, r \in Scopes :
             held'[d][r] = held[d][r] \/ held'[d][r].token \in raced' \/ Sound(d, r)'
      BY <1>11, <1>19
    <2>4. UNCHANGED <<doc, conn, owner>> /\ task[c].pc # "reset"
      BY <1>0, <1>2
    <2>q. QED
      BY <1>0, <1>1, <1>a, <2>1, <2>2, <2>3, <2>4, ResetComing
  <1>q. QED
    BY <1>17, <1>18, <1>20 DEF RevokedInv

(* A handler goes on and no login begins or ends.                          *)
LEMMA SameLogins ==
    ASSUME SessionInv, SessionInv', RevokedInv, NEW k \in Clients \cup Apis, NEW job,
           task' = [task EXCEPT ![k] = job], UNCHANGED <<doc, sessions, issued, raced>>, Grants,
           \/ Blank(job)
           \/ /\ job.token = task[k].token /\ job.user = task[k].user
              /\ job.does = task[k].does /\ job.doc = task[k].doc
              /\ job.pc # "hash" /\ task[k].pc # "hash"
    PROVE  /\ \A j \in Clients \cup Apis : task'[j] = IF j = k THEN job ELSE task[j]
           /\ FlatInv' /\ TokenInv' /\ OwnerInv'
  <1>1. \A j \in Clients \cup Apis : task'[j] = IF j = k THEN job ELSE task[j]
    BY DEF SessionInv, TaskInv
  <1>2. doc' = doc /\ sessions' = sessions /\ issued' = issued /\ raced' = raced
    OBVIOUS
  <1>3. GoesOn(k) /\ Deletes /\ Revokes(k)
    BY <1>1, <1>2 DEF GoesOn, Deletes, Revokes
  <1>4. FlatInv' /\ TokenInv' /\ OwnerInv'
    BY <1>3, SignKept DEF RevokedInv
  <1>q. QED
    BY <1>1, <1>4

LEMMA NoTaskIsBlank == Blank(NoTask) /\ NoTask.snap = {} /\ NoTask.clients = {}
  BY DEF Blank, NoTask

(* A handler's resets are over, and it goes on to refresh, or not.         *)
LEMMA OverRevoked ==
    ASSUME SessionInv, SessionInv', RevokedInv, NEW k \in Clients \cup Apis, Over(k), NEW job,
           task' = [task EXCEPT ![k] = job],
           UNCHANGED <<doc, sessions, issued, conn, owner, held, raced>>,
           \/ Blank(job)
           \/ /\ job.token = task[k].token /\ job.user = task[k].user
              /\ job.does = task[k].does /\ job.doc = task[k].doc /\ job.pc # "hash",
           job.snap = {},
           IF task[k].does = "refresh"
           THEN /\ job.pc = "refresh" /\ job.does = "refresh" /\ job.doc = task[k].doc
                /\ job.clients = Known
           ELSE job.pc \notin {"reset", "refresh"}
    PROVE  RevokedInv'
  <1>0. FlatInv /\ TokenInv /\ OwnerInv /\ PlanInv /\ ComingInv
    BY DEF RevokedInv
  <1>a. doc' = doc /\ sessions' = sessions /\ conn' = conn /\ owner' = owner /\ held' = held
        /\ raced' = raced
    OBVIOUS
  <1>1. /\ task[k].pc = "reset" /\ \A c \in Clients, s \in Scopes : ~Resets(k, c, s)
    BY OverResets
  <1>2. Grants
    BY <1>a DEF Grants
  <1>3. task[k].pc # "hash"
    BY <1>1
  <1>4. /\ \A j \in Clients \cup Apis : task'[j] = IF j = k THEN job ELSE task[j]
        /\ FlatInv' /\ TokenInv' /\ OwnerInv'
    BY <1>2, <1>3, SameLogins
  <1>5. PlanInv'
    <2>1. ASSUME Refreshing(k)'
          PROVE  /\ \A u \in Users : task'[k].doc[u].group = 0
                 /\ \A p \in task'[k].snap : Updated(p.identity, task'[k].doc) = AutoLogin
      <3>1. job.pc \in {"reset", "refresh"} /\ job.does = "refresh"
        BY <1>4, <2>1 DEF Refreshing
      <3>2. task[k].does = "refresh" /\ job.doc = task[k].doc
        BY <3>1
      <3>3. \A u \in Users : task[k].doc[u].group = 0
        BY <1>0, <1>1, <3>2 DEF PlanInv, Refreshing
      <3>q. QED
        BY <1>4, <3>2, <3>3
    <2>q. QED
      BY <1>0, <1>4, <2>1, PlanKept
  <1>6. ComingInv'
    <2>1. ASSUME NEW c \in Clients, NEW s \in Scopes, c \in Known'
          PROVE  Stays(k, c, s)
      <3>1. c \in Known
        BY <1>a, <2>1 DEF Known
      <3>2. Removes(k, c, s) => Removes(k, c, s)'
        <4>1. CASE task[k].does = "refresh"
          <5>1. /\ task'[k].pc = "refresh" /\ task'[k].does = "refresh"
                /\ task'[k].doc = task[k].doc /\ c \in task'[k].clients
            BY <1>4, <3>1, <4>1
          <5>q. QED
            BY <1>1, <1>a, <5>1 DEF Removes, Refreshing, Listed
        <4>2. CASE task[k].does # "refresh"
          BY <1>1, <4>2 DEF Removes, Refreshing
        <4>q. QED
          BY <4>1, <4>2
      <3>q. QED
        BY <1>1, <1>a, <3>1, <3>2 DEF Stays
    <2>2. Ordered(task'[k])
      BY <1>4 DEF Ordered
    <2>q. QED
      BY <1>0, <1>4, <1>a, <2>1, <2>2, ComingKept
  <1>q. QED
    BY <1>4, <1>5, <1>6 DEF RevokedInv

LEMMA LoginAnswersRevoked ==
    ASSUME SessionInv, SessionInv', RevokedInv, NEW c \in Clients, LoginAnswers(c)
    PROVE  RevokedInv'
  <1>1. /\ Over(c) /\ task[c].does = "login" /\ task' = [task EXCEPT ![c] = NoTask]
        /\ UNCHANGED <<doc, sessions, issued, conn, owner, held, raced>>
    BY DEF LoginAnswers
  <1>2. NoTask.pc \notin {"reset", "refresh"} /\ task[c].does # "refresh"
    BY <1>1, NoTaskIsIdle
  <1>q. QED
    BY <1>1, <1>2, NoTaskIsBlank, OverRevoked

LEMMA PanelOutRestRevoked ==
    ASSUME SessionInv, SessionInv', RevokedInv, NEW a \in Apis, PanelOutRest(a)
    PROVE  RevokedInv'
  <1>1. /\ Over(a) /\ task[a].does = "panel out"
        /\ task' = [task EXCEPT ![a].pc = "panel out"]
        /\ UNCHANGED <<doc, sessions, issued, conn, owner, held, raced>>
    BY DEF PanelOutRest
  <1>2. PICK job : job = [task[a] EXCEPT !.pc = "panel out"]
    OBVIOUS
  <1>3. task' = [task EXCEPT ![a] = job]
    BY <1>1, <1>2
  <1>4. task[a] \in Jobs /\ task[a].snap = {}
    BY <1>1, JobFacts, OverResets DEF SessionInv
  <1>5. /\ job.pc = "panel out" /\ job.does = task[a].does /\ job.snap = {}
        /\ job.token = task[a].token /\ job.user = task[a].user /\ job.doc = task[a].doc
    BY <1>2, <1>4 DEF Jobs
  <1>6. job.pc \notin {"reset", "refresh"} /\ job.pc # "hash" /\ task[a].does # "refresh"
    BY <1>1, <1>5
  <1>q. QED
    BY <1>1, <1>3, <1>5, <1>6, OverRevoked

LEMMA RefreshRestRevoked ==
    ASSUME SessionInv, SessionInv', RevokedInv, NEW a \in Apis, RefreshRest(a)
    PROVE  RevokedInv'
  <1>1. /\ Over(a) /\ task[a].does = "refresh"
        /\ task' = [task EXCEPT ![a].pc = "refresh", ![a].clients = Known]
        /\ UNCHANGED <<doc, sessions, issued, conn, owner, held, raced>>
    BY DEF RefreshRest
  <1>2. PICK job : job = [task[a] EXCEPT !.pc = "refresh", !.clients = Known]
    OBVIOUS
  <1>4. task[a] \in Jobs /\ task[a].snap = {}
    BY <1>1, JobFacts, OverResets DEF SessionInv
  <1>3. task' = [task EXCEPT ![a] = job]
    BY <1>1, <1>2, <1>4 DEF Jobs, SessionInv, TaskInv
  <1>5. /\ job.pc = "refresh" /\ job.does = "refresh" /\ job.snap = {} /\ job.clients = Known
        /\ job.token = task[a].token /\ job.user = task[a].user /\ job.doc = task[a].doc
    BY <1>1, <1>2, <1>4 DEF Jobs
  <1>6. job.pc # "hash" /\ job.does = task[a].does
    BY <1>1, <1>5
  <1>q. QED
    BY <1>1, <1>3, <1>5, <1>6, OverRevoked

LEMMA FinishRevoked ==
    ASSUME SessionInv, SessionInv', RevokedInv, NEW k \in Clients \cup Apis, Finish(k)
    PROVE  RevokedInv'
  <1>1. /\ task' = [task EXCEPT ![k] = NoTask] /\ Finished(k)
        /\ UNCHANGED <<doc, sessions, issued, conn, owner, held, raced>>
    BY DEF Finish
  <1>2. CASE Over(k) /\ task[k].does \in {"logout", "panel in"}
    <2>1. NoTask.pc \notin {"reset", "refresh"} /\ task[k].does # "refresh"
      BY <1>2, NoTaskIsIdle
    <2>q. QED
      BY <1>1, <1>2, <2>1, NoTaskIsBlank, OverRevoked
  <1>3. CASE ~Over(k)
    <2>1. /\ task[k].pc \in {"panel out", "refresh"}
          /\ task[k].pc = "refresh" => task[k].snap = {} /\ Behind(k) = {}
      BY <1>1, <1>3 DEF Finished, Runs
    <2>a. doc' = doc /\ sessions' = sessions /\ conn' = conn /\ owner' = owner /\ held' = held
          /\ raced' = raced
      BY <1>1
    <2>2. Grants
      BY <2>a DEF Grants
    <2>3. /\ \A j \in Clients \cup Apis : task'[j] = IF j = k THEN NoTask ELSE task[j]
          /\ FlatInv' /\ TokenInv' /\ OwnerInv'
      BY <1>1, <2>2, NoTaskIsBlank, SameLogins
    <2>4. PlanInv'
      <3>1. ~Refreshing(k)'
        BY <2>3, NoTaskIsIdle DEF Refreshing
      <3>q. QED
        BY <2>3, <3>1, PlanKept DEF RevokedInv
    <2>5. ComingInv'
      <3>1. ASSUME NEW c \in Clients, NEW s \in Scopes, c \in Known'
            PROVE  Stays(k, c, s)
        <4>1. ~Resets(k, c, s)
          BY <2>1 DEF Resets
        <4>2. held[c][s].user # Guest => ~Removes(k, c, s)
          <5>1. CASE task[k].pc = "refresh"
            BY <2>1, <5>1, RefreshOver
          <5>2. CASE task[k].pc # "refresh"
            BY <2>1, <5>2 DEF Removes, Refreshing
          <5>q. QED
            BY <5>1, <5>2
        <4>q. QED
          BY <2>a, <3>1, <4>1, <4>2 DEF Stays, Known
      <3>2. Ordered(task'[k])
        BY <2>3, NoTaskIsBlank DEF Ordered
      <3>q. QED
        BY <2>3, <2>a, <3>1, <3>2, ComingKept DEF RevokedInv
    <2>q. QED
      BY <2>3, <2>4, <2>5 DEF RevokedInv
  <1>4. CASE Over(k) /\ task[k].does \notin {"logout", "panel in"}
    <2>1. task[k].pc = "reset"
      BY <1>4 DEF Over, Runs
    <2>q. QED
      BY <1>1, <1>4, <2>1 DEF Finished, Runs
  <1>q. QED
    BY <1>2, <1>3, <1>4

(* Logins are revoked.                                                     *)
LEMMA ResetRevoked ==
    ASSUME SessionInv, SessionInv', RevokedInv, NEW k \in Clients \cup Apis,
           NEW tokens \in SUBSET Tokens, NEW job \in Jobs, job.snap = {},
           Reset(k, tokens, sessions, job), UNCHANGED <<doc, issued, conn, owner, held>>,
           task[k].pc \notin {"hash", "reset", "refresh"}, Blank(job) \/ job = task[k],
           job.does = "refresh" => job.doc = doc,
           task[k].pc = "load" => job.does = "refresh"
    PROVE  RevokedInv'
  <1>0. FlatInv /\ TokenInv /\ OwnerInv /\ PlanInv /\ ComingInv /\ TaskInv /\ LoginInv
    BY DEF RevokedInv, SessionInv
  <1>a. doc' = doc /\ issued' = issued /\ conn' = conn /\ owner' = owner /\ held' = held
    OBVIOUS
  <1>1. PICK next : next = [job EXCEPT !.pc = "reset", !.tokens = tokens, !.clients = Known \cap conn]
    OBVIOUS
  <1>2. \A j \in Clients \cup Apis : task'[j] = IF j = k THEN next ELSE task[j]
    BY <1>0, <1>1 DEF TaskInv, Reset
  <1>3. /\ next.pc = "reset" /\ next.does = job.does /\ next.snap = {}
        /\ next.user = job.user /\ next.doc = job.doc /\ next.token = job.token
    BY <1>1 DEF Jobs
  <1>4. \A n \in Tokens : sessions'[n] = IF n \in tokens THEN NoSession ELSE sessions[n]
    BY DEF Reset
  <1>5. raced' = raced \cup {n \in tokens : InFlight(n)}
    BY DEF Reset
  <1>6. GoesOn(k)
    <2>1. Blank(job) => Blank(next)
      BY <1>3 DEF Blank
    <2>q. QED
      BY <1>2, <1>3, <1>5, <1>a, <2>1 DEF GoesOn
  <1>7. Deletes /\ Grants
    BY <1>a DEF Deletes, Grants
  <1>8. Revokes(k)
    <2>1. \A n \in tokens : \A j \in Clients \cup Apis : task[j].token = n => n \in raced'
      <3>1. DOMAIN task = Clients \cup Apis
        BY <1>0 DEF TaskInv
      <3>q. QED
        BY <1>5, <3>1 DEF InFlight
    <2>q. QED
      BY <1>4, <2>1 DEF Revokes
  <1>9. FlatInv' /\ TokenInv' /\ OwnerInv'
    BY <1>0, <1>6, <1>7, <1>8, SignKept
  <1>10. PlanInv'
    <2>1. Refreshing(k)' => task'[k].doc = doc /\ task'[k].pc = "reset"
      BY <1>2, <1>3 DEF Refreshing
    <2>2. \A u \in Users : doc[u].group = 0
      BY <1>0 DEF FlatInv
    <2>q. QED
      BY <1>0, <1>2, <2>1, <2>2, PlanKept
  <1>11. ComingInv'
    <2>1. \A c \in Clients, s \in Scopes : Removes(k, c, s) => job.does = "refresh" /\ job.doc = doc
      BY DEF Removes, Refreshing
    <2>2. task[k].pc # "reset" /\ held' = held
      BY <1>a
    <2>q. QED
      BY <1>0, <2>1, <2>2, ResetComing
  <1>q. QED
    BY <1>9, <1>10, <1>11 DEF RevokedInv

LEMMA LogoutRevokesRevoked ==
    ASSUME SessionInv, SessionInv', RevokedInv, NEW c \in Clients, LogoutRevokes(c)
    PROVE  RevokedInv'
  <1>1. /\ task[c].pc = "revoke" /\ Reset(c, task[c].tokens, sessions, task[c])
        /\ UNCHANGED <<doc, issued, conn, owner, held>>
    BY DEF LogoutRevokes, Runs
  <1>2. task[c] \in Jobs /\ JobOK(c, task[c])
    BY JobFacts DEF SessionInv, TaskInv
  <1>3. task[c].tokens \in SUBSET Tokens /\ task[c].snap = {} /\ task[c].does = "logout"
    BY <1>1, <1>2 DEF Jobs, JobOK
  <1>4. task[c].pc \notin {"hash", "reset", "refresh"} /\ task[c].does # "refresh"
    BY <1>1, <1>3
  <1>q. QED
    BY <1>1, <1>2, <1>3, <1>4, ResetRevoked

LEMMA PanelInRevokesRevoked ==
    ASSUME SessionInv, SessionInv', RevokedInv, NEW a \in Apis, PanelInRevokes(a)
    PROVE  RevokedInv'
  <1>1. /\ task[a].pc = "panel in" /\ Reset(a, task[a].tokens, sessions, task[a])
        /\ UNCHANGED <<doc, issued, conn, owner, held>>
    BY DEF PanelInRevokes, Runs
  <1>2. task[a] \in Jobs /\ JobOK(a, task[a])
    BY JobFacts DEF SessionInv, TaskInv
  <1>3. task[a].tokens \in SUBSET Tokens /\ task[a].snap = {} /\ task[a].does = "panel in"
    BY <1>1, <1>2 DEF Jobs, JobOK
  <1>4. task[a].pc \notin {"hash", "reset", "refresh"} /\ task[a].does # "refresh"
    BY <1>1, <1>3
  <1>q. QED
    BY <1>1, <1>2, <1>3, <1>4, ResetRevoked

LEMMA PanelOutRevoked ==
    ASSUME SessionInv, SessionInv', RevokedInv, NEW a \in Apis, PanelOut(a)
    PROVE  RevokedInv'
  <1>b. PICK pairs \in SUBSET PairSet : pairs = Held(panels \cap conn)
    BY PairsType DEF SessionInv, LinkInv, Known
  <1>c. PICK tokens \in SUBSET Tokens : tokens = TokensOf(pairs)
    BY <1>b, PairsType DEF SessionInv, LinkInv, Known
  <1>d. PICK job : job = [NoTask EXCEPT !.does = "panel out", !.pairs = pairs]
    OBVIOUS
  <1>1. /\ task[a] = NoTask /\ Reset(a, tokens, sessions, job)
        /\ UNCHANGED <<doc, issued, conn, owner, held>>
    BY <1>b, <1>c, <1>d DEF PanelOut, Request
  <1>2. job \in Jobs /\ job.does = "panel out" /\ job.snap = {} /\ Blank(job)
    BY <1>d DEF Jobs, NoTask, Blank
  <1>3. task[a].pc = "idle" /\ job.does # "refresh"
    BY <1>1, <1>2, NoTaskIsIdle
  <1>4. task[a].pc \notin {"hash", "reset", "refresh", "load"}
    BY <1>3
  <1>q. QED
    BY <1>1, <1>2, <1>3, <1>4, ResetRevoked

LEMMA RefreshLoadsRevoked ==
    ASSUME SessionInv, SessionInv', RevokedInv, NEW a \in Apis, RefreshLoads(a)
    PROVE  RevokedInv'
  <1>0. JobOK(a, task[a]) /\ task[a].pc = "load" /\ task[a] \in Jobs
    BY JobFacts DEF SessionInv, TaskInv, RefreshLoads
  <1>a. task[a].does = "refresh" /\ task[a].snap = {}
    BY <1>0 DEF JobOK
  <1>b. PICK stale \in SUBSET Tokens :
           stale = {t \in Tokens : sessions[t] # NoSession /\ ~Current(sessions[t])}
    OBVIOUS
  <1>c. PICK job : job = [task[a] EXCEPT !.doc = doc]
    OBVIOUS
  <1>1. Reset(a, stale, sessions, job) /\ UNCHANGED <<doc, issued, conn, owner, held>>
    BY <1>b, <1>c DEF RefreshLoads
  <1>2. /\ job \in Jobs /\ job.does = "refresh" /\ job.doc = doc /\ job.snap = {}
        /\ job.token = task[a].token /\ job.user = task[a].user /\ job.pc = "load"
    BY <1>0, <1>a, <1>c DEF Jobs, SessionInv, DocInv
  <1>3. Blank(task[a])
    BY <1>a DEF RevokedInv, TokenInv, Signing
  <1>4. Blank(job)
    BY <1>2, <1>3 DEF Blank
  <1>5. task[a].pc \notin {"hash", "reset", "refresh"}
    BY <1>0
  <1>q. QED
    BY <1>1, <1>2, <1>4, <1>5, ResetRevoked

LEMMA LogoutRevoked ==
    ASSUME SessionInv, SessionInv', RevokedInv, NEW t \in Tabs, Logout(t)
    PROVE  RevokedInv'
  <1>0. HeldInv /\ HeldInv' /\ TaskInv
    BY DEF SessionInv
  <1>a. sock[t] \in Clients /\ live[t] \in Scopes
    BY DEF Logout, Receives, SessionInv, LinkInv, TabInv
  <1>b. PICK c \in Clients, s \in Scopes : c = sock[t] /\ s = live[t]
    BY <1>a
  <1>c. PICK job : job = [NoTask EXCEPT !.pc = "revoke", !.does = "logout",
                                        !.tokens = {held[c][s].token} \ {NoToken}]
    OBVIOUS
  <1>1. /\ task[c] = NoTask /\ held' = [held EXCEPT ![c][s] = AutoLogin]
        /\ task' = [task EXCEPT ![c] = job]
        /\ UNCHANGED <<doc, sessions, issued, conn, owner, raced>>
    BY <1>b, <1>c DEF Logout, Receives, Hold
  <1>2. Blank(job) /\ job.pc = "revoke" /\ job.snap = {}
    BY <1>c DEF NoTask, Blank
  <1>3. \A d \in Clients, r \in Scopes :
           held'[d][r] = IF d = c /\ r = s THEN AutoLogin ELSE held[d][r]
    BY <1>0, <1>1 DEF HeldInv
  <1>4. Sound(c, s)' /\ \E i \in Identities : held'[c][s] = i /\ Granted(i)'
    BY <1>3, GuestIdentities, GuestGranted
  <1>5. Grants
    BY <1>3, <1>4 DEF Grants
  <1>6. /\ \A j \in Clients \cup Apis : task'[j] = IF j = c THEN job ELSE task[j]
        /\ FlatInv' /\ TokenInv' /\ OwnerInv'
    BY <1>1, <1>2, <1>5, SameLogins
  <1>7. PlanInv'
    <2>1. ~Refreshing(c)'
      BY <1>2, <1>6 DEF Refreshing
    <2>q. QED
      BY <1>6, <2>1, PlanKept DEF RevokedInv
  <1>8. ComingInv'
    <2>1. task[c].pc = "idle" /\ task'[c].snap = {}
      BY <1>1, <1>2, <1>6, NoTaskIsIdle
    <2>2. sessions' = sessions /\ raced' = raced /\ UNCHANGED <<doc, conn, owner>>
      BY <1>1
    <2>3. \A d \in Clients, r \in Scopes : held'[d][r] = held[d][r] \/ Sound(d, r)'
      BY <1>3, <1>4
    <2>q. QED
      BY <1>6, <2>1, <2>2, <2>3, AsideComing DEF RevokedInv
  <1>q. QED
    BY <1>6, <1>7, <1>8 DEF RevokedInv

LEMMA PanelInScopeRevoked ==
    ASSUME SessionInv, SessionInv', RevokedInv, NEW a \in Apis, PanelInScope(a)
    PROVE  RevokedInv'
  <1>0. /\ HeldInv /\ HeldInv' /\ TaskInv /\ JobOK(a, task[a]) /\ task[a].pc = "panel in"
        /\ FlatInv /\ TokenInv /\ OwnerInv
    BY DEF SessionInv, RevokedInv, PanelInScope, Runs, TaskInv
  <1>a. /\ task[a].does = "panel in" /\ task[a] \in Jobs /\ task[a].snap = {} /\ Signing(a)
        /\ task[a].token \in Tokens
    BY <1>0 DEF JobOK, Signing
  <1>b. PICK identity \in Identities : identity = SignedIn(a)
    BY <1>0, <1>a, SignedInType DEF SessionInv
  <1>1. UNCHANGED <<doc, sessions, issued, conn, owner, raced>>
    BY DEF PanelInScope
  <1>c. doc' = doc /\ sessions' = sessions /\ issued' = issued /\ raced' = raced
    BY <1>1
  <1>2. PICK p \in task[a].pairs :
          /\ task' = [task EXCEPT ![a].pairs = @ \ {p}]
          /\ \/ held' = [held EXCEPT ![p.client][p.scope] = identity]
             \/ held' = held
    BY <1>b DEF PanelInScope, Hold
  <1>3. p.client \in Clients /\ p.scope \in Scopes
    BY <1>a DEF Jobs, PairSet
  <1>d. PICK c \in Clients, s \in Scopes : c = p.client /\ s = p.scope
    BY <1>3
  <1>4. PICK job : job = [task[a] EXCEPT !.pairs = task[a].pairs \ {p}]
    OBVIOUS
  <1>5. task' = [task EXCEPT ![a] = job]
    BY <1>2, <1>a, <1>4 DEF Jobs, TaskInv
  <1>6. /\ job.pc = "panel in" /\ job.does = task[a].does /\ job.snap = {}
        /\ job.user = task[a].user /\ job.doc = task[a].doc /\ job.token = task[a].token
    BY <1>0, <1>a, <1>4 DEF Jobs
  <1>7. \A d \in Clients, r \in Scopes :
           held'[d][r] = held[d][r] \/ (d = c /\ r = s /\ held'[d][r] = identity)
    <2>1. held' = held \/ held' = [held EXCEPT ![c][s] = identity]
      BY <1>2, <1>d
    <2>2. ASSUME held' = [held EXCEPT ![c][s] = identity], NEW d \in Clients, NEW r \in Scopes
          PROVE  held'[d][r] = IF d = c /\ r = s THEN identity ELSE held[d][r]
      BY <1>0, <2>2 DEF HeldInv
    <2>q. QED
      BY <2>1, <2>2
  <1>8. /\ identity.user = task[a].user /\ identity.group = 0 /\ identity.token = task[a].token
    BY <1>0, <1>a, <1>b DEF SignedIn, FlatInv
  <1>9. \A j \in Clients \cup Apis : task'[j] = IF j = a THEN job ELSE task[j]
    BY <1>0, <1>5 DEF TaskInv
  <1>10. Granted(identity)'
    <2>1. task[a].token # NoToken
      BY <1>a, Numbers
    <2>2. \A j \in Clients \cup Apis : task'[j].pc = "hash" => task'[j].token # task[a].token
      BY <1>0, <1>6, <1>9, <2>1 DEF TokenInv
    <2>3. sessions[task[a].token] # NoSession => sessions[task[a].token].user = task[a].user
      BY <1>0, <1>a DEF OwnerInv
    <2>4. identity.token <= issued'
      BY <1>0, <1>c, <1>8 DEF TokenInv
    <2>5. sessions'[identity.token] # NoSession => sessions'[identity.token].user = identity.user
      BY <1>c, <1>8, <2>3
    <2>6. \A j \in Clients \cup Apis : task'[j].pc = "hash" => task'[j].token # identity.token
      BY <1>8, <2>2
    <2>q. QED
      BY <1>8, <2>4, <2>5, <2>6 DEF Granted
  <1>11. Grants
    BY <1>7, <1>10 DEF Grants
  <1>12. FlatInv' /\ TokenInv' /\ OwnerInv'
    <2>1. job.pc # "hash" /\ task[a].pc # "hash"
      BY <1>0, <1>6
    <2>q. QED
      BY <1>1, <1>5, <1>6, <1>11, <2>1, SameLogins
  <1>13. PlanInv'
    <2>1. ~Refreshing(a)'
      BY <1>6, <1>9 DEF Refreshing
    <2>q. QED
      BY <1>9, <2>1, PlanKept DEF RevokedInv
  <1>14. ComingInv'
    <2>1. task[a].pc \notin {"load", "reset", "refresh"} /\ task'[a].snap = {}
      BY <1>0, <1>6, <1>9
    <2>2. ASSUME NEW d \in Clients, NEW r \in Scopes, held'[d][r] # held[d][r]
          PROVE  held'[d][r].token \in raced' \/ Sound(d, r)'
      <3>1. held'[d][r] = identity
        BY <1>7, <2>2
      <3>2. /\ Deleted(task[a].user) => task[a].token \in raced
            /\ sessions[task[a].token] = NoSession => task[a].token \in raced
        BY <1>0, <1>a DEF OwnerInv
      <3>q. QED
        BY <1>c, <1>8, <3>1, <3>2 DEF Sound, Deleted
    <2>q. QED
      BY <1>1, <1>c, <1>9, <2>1, <2>2, AsideComing DEF RevokedInv
  <1>q. QED
    BY <1>12, <1>13, <1>14 DEF RevokedInv

LEMMA PanelOutScopeRevoked ==
    ASSUME SessionInv, SessionInv', RevokedInv, NEW a \in Apis, PanelOutScope(a)
    PROVE  RevokedInv'
  <1>0. /\ HeldInv /\ HeldInv' /\ TaskInv /\ JobOK(a, task[a]) /\ task[a].pc = "panel out"
        /\ FlatInv /\ TokenInv /\ OwnerInv
    BY DEF SessionInv, RevokedInv, PanelOutScope, Runs, TaskInv
  <1>a. task[a] \in Jobs /\ task[a].snap = {}
    BY <1>0 DEF JobOK
  <1>1. UNCHANGED <<doc, issued, conn, owner>>
    BY DEF PanelOutScope
  <1>c. doc' = doc /\ issued' = issued
    BY <1>1
  <1>2. PICK p \in task[a].pairs :
          /\ task' = [task EXCEPT ![a].pairs = @ \ {p}]
          /\ \/ /\ held' = [held EXCEPT ![p.client][p.scope] = AutoLogin]
                /\ sessions' = [t \in Tokens |-> IF t = held[p.client][p.scope].token
                                                 THEN NoSession ELSE sessions[t]]
                /\ raced' = raced \cup {held[p.client][p.scope].token}
             \/ held' = held /\ sessions' = sessions /\ raced' = raced
    BY DEF PanelOutScope, Hold
  <1>3. p.client \in Clients /\ p.scope \in Scopes
    BY <1>a DEF Jobs, PairSet
  <1>d. PICK c \in Clients, s \in Scopes : c = p.client /\ s = p.scope
    BY <1>3
  <1>4. PICK job : job = [task[a] EXCEPT !.pairs = task[a].pairs \ {p}]
    OBVIOUS
  <1>5. task' = [task EXCEPT ![a] = job]
    BY <1>2, <1>a, <1>4 DEF Jobs, TaskInv
  <1>6. /\ job.pc = "panel out" /\ job.does = task[a].does /\ job.snap = {}
        /\ job.user = task[a].user /\ job.doc = task[a].doc /\ job.token = task[a].token
    BY <1>0, <1>a, <1>4 DEF Jobs
  <1>7. \A d \in Clients, r \in Scopes :
           held'[d][r] = held[d][r] \/ (d = c /\ r = s /\ held'[d][r] = AutoLogin)
    <2>1. held' = held \/ held' = [held EXCEPT ![c][s] = AutoLogin]
      BY <1>2, <1>d
    <2>2. ASSUME held' = [held EXCEPT ![c][s] = AutoLogin], NEW d \in Clients, NEW r \in Scopes
          PROVE  held'[d][r] = IF d = c /\ r = s THEN AutoLogin ELSE held[d][r]
      BY <1>0, <2>2 DEF HeldInv
    <2>q. QED
      BY <2>1, <2>2
  <1>8. raced \subseteq raced' /\ \A t \in Tokens : \/ sessions'[t] = sessions[t]
                                                    \/ sessions'[t] = NoSession /\ t \in raced'
    BY <1>2
  <1>9. \A j \in Clients \cup Apis : task'[j] = IF j = a THEN job ELSE task[j]
    BY <1>0, <1>5 DEF TaskInv
  <1>10. \A d \in Clients, r \in Scopes : held'[d][r] # held[d][r] =>
            Sound(d, r)' /\ \E i \in Identities : held'[d][r] = i /\ Granted(i)'
    BY <1>7, GuestIdentities, GuestGranted
  <1>11. Grants
    BY <1>10 DEF Grants
  <1>12. FlatInv' /\ TokenInv' /\ OwnerInv'
    <2>1. job.pc # "hash" /\ task[a].pc # "hash"
      BY <1>0, <1>6
    <2>2. GoesOn(a)
      BY <1>6, <1>8, <1>9, <1>c, <2>1 DEF GoesOn
    <2>3. Deletes /\ Revokes(a)
      BY <1>8, <1>c DEF Deletes, Revokes
    <2>q. QED
      BY <1>0, <1>11, <2>2, <2>3, SignKept
  <1>13. PlanInv'
    <2>1. ~Refreshing(a)'
      BY <1>6, <1>9 DEF Refreshing
    <2>q. QED
      BY <1>9, <2>1, PlanKept DEF RevokedInv
  <1>14. ComingInv'
    <2>1. task[a].pc \notin {"load", "reset", "refresh"} /\ task'[a].snap = {}
      BY <1>0, <1>6, <1>9
    <2>2. \A t \in Tokens : sessions'[t] = NoSession => sessions[t] = NoSession \/ t \in raced'
      BY <1>8
    <2>q. QED
      BY <1>1, <1>8, <1>9, <1>10, <2>1, <2>2, AsideComing DEF RevokedInv
  <1>q. QED
    BY <1>12, <1>13, <1>14 DEF RevokedInv

(* A deletion: the refresh that will follow knows of it.                   *)
LEMMA WriteRevoked ==
    ASSUME OnlyDeletes, SessionInv, SessionInv', RevokedInv, NEW a \in Apis, NEW u \in Users,
           Write(a, u)
    PROVE  RevokedInv'
  <1>0. /\ TaskInv /\ DocInv /\ FlatInv /\ TokenInv /\ OwnerInv /\ ComingInv /\ HeldInv
    BY DEF SessionInv, RevokedInv
  <1>1. /\ task[a] = NoTask /\ doc' \in Changes(u)
        /\ task' = [task EXCEPT ![a] = [NoTask EXCEPT !.pc = "load", !.does = "refresh"]]
        /\ raced' = raced \cup {task[k].token : k \in {k \in DOMAIN task : task[k].user = u}}
        /\ UNCHANGED <<sessions, issued, conn, owner, held>>
    BY DEF Write, Request
  <1>a. sessions' = sessions /\ issued' = issued /\ conn' = conn /\ owner' = owner /\ held' = held
    BY <1>1
  <1>2. doc' = [doc EXCEPT ![u].cred = 0]
    BY <1>1 DEF Changes, OnlyDeletes
  <1>3. \A v \in Users : /\ doc'[v].cred = IF v = u THEN 0 ELSE doc[v].cred
                         /\ doc'[v].group = doc[v].group
    BY <1>0, <1>2 DEF DocInv, Documents
  <1>4. PICK job : job = [NoTask EXCEPT !.pc = "load", !.does = "refresh"]
    OBVIOUS
  <1>5. job.pc = "load" /\ job.snap = {} /\ Blank(job)
    BY <1>4 DEF NoTask, Blank
  <1>6. \A j \in Clients \cup Apis : task'[j] = IF j = a THEN job ELSE task[j]
    BY <1>0, <1>1, <1>4 DEF TaskInv
  <1>7. \A j \in Clients \cup Apis : task[j].user = u => task[j].token \in raced'
    <2>1. DOMAIN task = Clients \cup Apis
      BY <1>0 DEF TaskInv
    <2>q. QED
      BY <1>1, <2>1
  <1>8. Deletes
    <2>1. ASSUME NEW j \in Clients \cup Apis, Signing(j), doc'[task[j].user].cred = 0,
                 doc[task[j].user].cred # 0
          PROVE  task[j].token \in raced'
      <3>1. task[j].user \in Users
        BY <1>0, <2>1, JobFacts
      <3>2. task[j].user = u
        BY <1>3, <2>1, <3>1
      <3>q. QED
        BY <1>7, <3>2
    <2>q. QED
      BY <1>3, <2>1 DEF Deletes
  <1>9. GoesOn(a) /\ Revokes(a) /\ Grants
    BY <1>1, <1>a, <1>5, <1>6 DEF GoesOn, Revokes, Grants
  <1>10. FlatInv' /\ TokenInv' /\ OwnerInv'
    BY <1>0, <1>8, <1>9, SignKept
  <1>11. PlanInv'
    <2>1. ~Refreshing(a)'
      BY <1>5, <1>6 DEF Refreshing
    <2>q. QED
      BY <1>6, <2>1, PlanKept DEF RevokedInv
  <1>12. ComingInv'
    <2>1. ASSUME NEW c \in Clients, NEW s \in Scopes, c \in Known'
          PROVE  Stays(a, c, s)
      <3>1. Removes(a, c, s)'
        BY <1>5, <1>6 DEF Removes
      <3>2. task[a].pc = "idle"
        BY <1>1, NoTaskIsIdle
      <3>3. ~Resets(a, c, s)
        BY <3>2 DEF Resets
      <3>4. held[c][s].user \in Users \cup {Guest}
        BY <1>0, HeldFacts
      <3>5. held[c][s].user = Guest \/ doc'[held[c][s].user].cred # 0
              => held[c][s].user = Guest \/ doc[held[c][s].user].cred # 0
        BY <1>3, <3>4
      <3>q. QED
        BY <1>a, <2>1, <3>1, <3>3, <3>5 DEF Stays, Known
    <2>2. Ordered(task'[a]) /\ raced \subseteq raced'
      BY <1>1, <1>5, <1>6 DEF Ordered
    <2>q. QED
      BY <1>0, <1>6, <2>1, <2>2, ComingKept
  <1>q. QED
    BY <1>10, <1>11, <1>12 DEF RevokedInv

-----------------------------------------------------------------------------
(* The resets and the refreshes, scope by scope.                           *)

(* The scopes of one connection after another: who is listed and is not    *)
(* the one whose turn it is stays listed.                                  *)
LEMMA ComesTo ==
    ASSUME HeldInv, ComingInv, NEW k \in Clients \cup Apis, NEW snap \in SUBSET PairSet, NEW p \in snap,
           NEW job, job.snap = snap \ {p}, job.clients = {c \in task[k].clients : c > p.client},
           task'[k] = job, task[k].clients \subseteq Clients, NEW S \in SUBSET Nat,
           IF task[k].snap = {} THEN S # {} /\ \A x \in snap : x.client = First(S)
           ELSE snap = task[k].snap
    PROVE  /\ Ordered(job)
           /\ \A c \in Clients, s \in Scopes :
                LET me == [client |-> c, scope |-> s, identity |-> held[c][s]]
                IN  /\ held'[c][s] = held[c][s] /\ p # me /\ Listed(k, c, s)
                    /\ task[k].snap = {} => c \in S /\ (c = First(S) => me \in snap)
                    => Listed(k, c, s)'
  <1>1. p.client \in Nat /\ \A c \in Clients : c \in Nat
    BY Numbers DEF PairSet
  <1>2. Ordered(task[k])
    BY DEF ComingInv
  <1>3. Ordered(job)
    <2>1. ASSUME NEW x \in job.snap, NEW c \in job.clients
          PROVE  x.client < c
      <3>1. c \in Nat /\ c > p.client /\ x \in snap /\ c \in task[k].clients
        BY <1>1
      <3>2. CASE task[k].snap = {}
        <4>1. x.client = p.client
          BY <3>1, <3>2
        <4>q. QED
          BY <1>1, <3>1, <4>1
      <3>3. CASE task[k].snap # {}
        BY <1>2, <3>1, <3>3 DEF Ordered
      <3>q. QED
        BY <3>2, <3>3
    <2>q. QED
      BY <2>1 DEF Ordered
  <1>4. ASSUME NEW c \in Clients, NEW s \in Scopes, held'[c][s] = held[c][s], Listed(k, c, s),
               NEW me \in PairSet, me = [client |-> c, scope |-> s, identity |-> held[c][s]], p # me,
               task[k].snap = {} => c \in S /\ (c = First(S) => me \in snap)
        PROVE  Listed(k, c, s)'
    <2>1. CASE task[k].snap = {}
      <3>1. c \in task[k].clients /\ c \in S /\ p.client = First(S)
        BY <1>4, <2>1 DEF Listed
      <3>2. First(S) <= c
        BY <3>1, FirstIsMember
      <3>3. CASE c > p.client
        <4>1. c \in task'[k].clients
          BY <3>1, <3>3
        <4>q. QED
          BY <4>1 DEF Listed
      <3>4. CASE ~(c > p.client)
        <4>1. c = First(S)
          BY <1>1, <3>1, <3>2, <3>4
        <4>2. me \in task'[k].snap
          BY <1>4, <2>1, <4>1
        <4>3. me.client = c /\ me.scope = s /\ me.identity = held'[c][s]
          BY <1>4
        <4>q. QED
          BY <4>2, <4>3 DEF Listed
      <3>q. QED
        BY <3>3, <3>4
    <2>2. CASE task[k].snap # {}
      <3>1. CASE c \in task[k].clients
        <4>1. p.client < c
          BY <1>2, <2>2, <3>1 DEF Ordered
        <4>2. c \in task'[k].clients
          BY <1>1, <3>1, <4>1
        <4>q. QED
          BY <4>2 DEF Listed
      <3>2. CASE \E x \in task[k].snap : x.client = c /\ x.scope = s /\ x.identity = held[c][s]
        <4>1. PICK x \in snap : x.client = c /\ x.scope = s /\ x.identity = held[c][s]
          BY <2>2, <3>2
        <4>2. x = me
          BY <1>4, <4>1 DEF PairSet
        <4>3. x \in task'[k].snap
          BY <1>4, <4>2
        <4>q. QED
          BY <1>4, <4>1, <4>3 DEF Listed
      <3>q. QED
        BY <1>4, <3>1, <3>2 DEF Listed
    <2>q. QED
      BY <2>1, <2>2
  <1>5. ASSUME NEW c \in Clients, NEW s \in Scopes, held'[c][s] = held[c][s], Listed(k, c, s),
               p # [client |-> c, scope |-> s, identity |-> held[c][s]],
               task[k].snap = {} =>
                 /\ c \in S
                 /\ c = First(S) =>
                      [client |-> c, scope |-> s, identity |-> held[c][s]] \in snap
        PROVE  Listed(k, c, s)'
    <2>1. [client |-> c, scope |-> s, identity |-> held[c][s]] \in PairSet
      BY HeldFacts DEF PairSet
    <2>q. QED
      BY <1>4, <1>5, <2>1
  <1>q. QED
    BY <1>3, <1>5

LEMMA ResetScopeRevoked ==
    ASSUME SessionInv, SessionInv', RevokedInv, NEW k \in Clients \cup Apis, ResetScope(k)
    PROVE  RevokedInv'
  <1>0. /\ HeldInv /\ HeldInv' /\ TaskInv /\ JobOK(k, task[k]) /\ task[k].pc = "reset"
        /\ FlatInv /\ TokenInv /\ OwnerInv /\ PlanInv /\ ComingInv
    BY DEF SessionInv, RevokedInv, TaskInv, ResetScope, Runs
  <1>a. task[k] \in Jobs
    BY <1>0 DEF JobOK
  <1>b. /\ task[k].tokens \subseteq Tokens /\ task[k].clients \subseteq Clients
        /\ task[k].snap \subseteq PairSet
    BY <1>a DEF Jobs
  <1>1. /\ doc' = doc /\ sessions' = sessions /\ issued' = issued /\ conn' = conn
        /\ owner' = owner /\ raced' = raced
    BY DEF ResetScope
  <1> DEFINE lists == task[k].snap = {}
             listed == IF lists THEN {x \in Pairs({First(Holders(k))}) :
                                         x.identity.token \in task[k].tokens}
                       ELSE task[k].snap
  <1>2. PICK p \in listed :
           /\ task' = [task EXCEPT ![k].snap = listed \ {p},
                                   ![k].clients = {c \in @ : c > p.client}]
           /\ held' = IF held[p.client][p.scope] = p.identity
                      THEN [held EXCEPT ![p.client][p.scope] = AutoLogin] ELSE held
    BY DEF ResetScope, Hold
  <1>c. lists => Holders(k) # {}
    BY DEF ResetScope
  <1> HIDE DEF lists, listed
  <1>3. Holders(k) \in SUBSET Nat /\ Holders(k) \subseteq Clients
    BY <1>b, Numbers DEF Holders
  <1>4. lists => First(Holders(k)) \in Clients
    BY <1>c, <1>3, FirstIsMember
  <1>5. PICK snap \in SUBSET PairSet : snap = listed
    <2>1. CASE lists
      <3>1. Pairs({First(Holders(k))}) \subseteq PairSet
        BY <1>0, <1>4, <2>1, PairsType
      <3>q. QED
        BY <2>1, <3>1 DEF listed
    <2>2. CASE ~lists
      BY <1>b, <2>2 DEF listed
    <2>q. QED
      BY <2>1, <2>2
  <1>6. p \in snap /\ p.client \in Clients /\ p.scope \in Scopes
    BY <1>5 DEF PairSet
  <1>7. PICK job : job = [task[k] EXCEPT !.snap = snap \ {p},
                                         !.clients = {c \in task[k].clients : c > p.client}]
    OBVIOUS
  <1>8. task' = [task EXCEPT ![k] = job]
    BY <1>2, <1>5, <1>7, <1>a DEF Jobs, TaskInv
  <1>9. /\ job.pc = "reset" /\ job.does = task[k].does /\ job.user = task[k].user
        /\ job.doc = task[k].doc /\ job.token = task[k].token /\ job.tokens = task[k].tokens
        /\ job.snap = snap \ {p} /\ job.clients = {c \in task[k].clients : c > p.client}
    BY <1>0, <1>7, <1>a DEF Jobs
  <1>10. \A c \in Clients, s \in Scopes :
            \/ held'[c][s] = AutoLogin
            \/ /\ held'[c][s] = held[c][s]
               /\ p # [client |-> c, scope |-> s, identity |-> held[c][s]]
    <2>1. ASSUME NEW c \in Clients, NEW s \in Scopes
          PROVE  \/ held'[c][s] = AutoLogin
                 \/ /\ held'[c][s] = held[c][s]
                    /\ p # [client |-> c, scope |-> s, identity |-> held[c][s]]
      <3>1. CASE held[p.client][p.scope] = p.identity
        <4>1. held'[c][s] = IF c = p.client /\ s = p.scope THEN AutoLogin ELSE held[c][s]
          BY <1>0, <1>2, <1>6, <3>1 DEF HeldInv
        <4>q. QED
          BY <4>1
      <3>2. CASE held[p.client][p.scope] # p.identity
        BY <1>2, <3>2
      <3>q. QED
        BY <3>1, <3>2
    <2>q. QED
      BY <2>1
  <1>11. \A c \in Clients, s \in Scopes : held'[c][s] = AutoLogin =>
            Sound(c, s)' /\ \E i \in Identities : held'[c][s] = i /\ Granted(i)'
    BY GuestIdentities, GuestGranted
  <1>12. Grants
    BY <1>10, <1>11 DEF Grants
  <1>13. /\ \A j \in Clients \cup Apis : task'[j] = IF j = k THEN job ELSE task[j]
         /\ FlatInv' /\ TokenInv' /\ OwnerInv'
    <2>1. job.pc # "hash" /\ task[k].pc # "hash"
      BY <1>0, <1>9
    <2>q. QED
      BY <1>1, <1>8, <1>9, <1>12, <2>1, SameLogins
  <1>14. PlanInv'
    <2>1. Refreshing(k)' => Refreshing(k) /\ task'[k].doc = task[k].doc /\ task'[k].pc # "refresh"
      BY <1>0, <1>9, <1>13 DEF Refreshing
    <2>2. Refreshing(k)' => \A u \in Users : task'[k].doc[u].group = 0
      BY <1>0, <2>1 DEF PlanInv
    <2>q. QED
      BY <1>0, <1>13, <2>1, <2>2, PlanKept
  <1>15. ComingInv'
    <2>1. task'[k] = job
      BY <1>13
    <2>2. IF task[k].snap = {} THEN Holders(k) # {} /\ \A x \in snap : x.client = First(Holders(k))
          ELSE snap = task[k].snap
      <3>1. CASE lists
        <4>1. \A x \in Pairs({First(Holders(k))}) : x.client = First(Holders(k))
          BY DEF Pairs
        <4>q. QED
          BY <1>5, <1>c, <3>1, <4>1 DEF lists, listed
      <3>2. CASE ~lists
        BY <1>5, <3>2 DEF lists, listed
      <3>q. QED
        BY <3>1, <3>2
    <2>3. /\ Ordered(job)
          /\ \A c \in Clients, s \in Scopes :
               LET me == [client |-> c, scope |-> s, identity |-> held[c][s]]
               IN  /\ held'[c][s] = held[c][s] /\ p # me /\ Listed(k, c, s)
                   /\ task[k].snap = {} => c \in Holders(k) /\ (c = First(Holders(k)) => me \in snap)
                   => Listed(k, c, s)'
      BY <1>0, <1>3, <1>6, <1>9, <1>b, <2>1, <2>2, ComesTo
    <2>4. ASSUME NEW c \in Clients, NEW s \in Scopes, c \in Known', held'[c][s] = held[c][s],
                 p # [client |-> c, scope |-> s, identity |-> held[c][s]]
          PROVE  Stays(k, c, s)
      <3>1. c \in Known
        BY <1>1, <2>4 DEF Known
      <3>2. Removes(k, c, s) => Removes(k, c, s)'
        BY <1>0, <1>9, <2>1, <2>4 DEF Removes, Refreshing
      <3>3. ASSUME Resets(k, c, s)
            PROVE  Resets(k, c, s)'
        <4>1. held[c][s].token \in task[k].tokens /\ Listed(k, c, s)
          BY <3>3 DEF Resets
        <4>2. /\ held[c][s].token \in TokensOf(Pairs({c}))
              /\ [client |-> c, scope |-> s, identity |-> held[c][s]] \in Pairs({c})
          BY <1>b, <4>1, Numbers, PairOf
        <4>3. ASSUME lists
              PROVE  /\ c \in Holders(k)
                     /\ c = First(Holders(k)) =>
                          [client |-> c, scope |-> s, identity |-> held[c][s]] \in snap
          <5>1. c \in task[k].clients
            BY <4>1, <4>3 DEF Listed, lists
          <5>2. c \in Holders(k)
            BY <4>1, <4>2, <5>1 DEF Holders
          <5>q. QED
            BY <1>5, <4>1, <4>2, <4>3, <5>2 DEF listed
        <4>4. Listed(k, c, s)'
          BY <2>3, <2>4, <4>1, <4>3 DEF lists
        <4>q. QED
          BY <1>9, <2>1, <2>4, <4>1, <4>4 DEF Resets
      <3>q. QED
        BY <1>1, <2>4, <3>1, <3>2, <3>3 DEF Stays
    <2>5. \A c \in Clients, s \in Scopes :
             c \in Known' /\ held'[c][s].token \notin raced' => Sound(c, s)' \/ Stays(k, c, s)
      BY <1>10, <1>11, <2>4
    <2>6. Ordered(task'[k]) /\ raced \subseteq raced'
      BY <1>1, <2>1, <2>3
    <2>q. QED
      BY <1>0, <1>13, <2>5, <2>6, ComingKept
  <1>q. QED
    BY <1>13, <1>14, <1>15 DEF RevokedInv

(* Where no group changes, an identity that is listed is a deleted user's. *)
LEMMA OutdatedIsDeleted ==
    ASSUME SessionInv, FlatInv, NEW k \in Clients \cup Apis, NEW c \in Clients,
           \A u \in Users : task[k].doc[u].group = 0, NEW p \in Outdated(k, c)
    PROVE  Updated(p.identity, task[k].doc) = AutoLogin
  <1>1. /\ p \in Held({c}) /\ Updated(p.identity, task[k].doc) # p.identity
    BY DEF Outdated
  <1>2. p.scope \in Scopes /\ p.identity = held[c][p.scope]
    BY <1>1 DEF Held, Pairs
  <1>3. p.identity \in Identities /\ p.identity.user # Guest
    BY <1>1, <1>2, HeldFacts DEF SessionInv, Updated
  <1>4. p.identity.user \in Users /\ p.identity.group = 0
    BY <1>2, <1>3 DEF Identities, FlatInv
  <1>5. task[k].doc[p.identity.user].group = 0
    BY <1>4
  <1>6. [p.identity EXCEPT !.group = task[k].doc[p.identity.user].group] = p.identity
    BY <1>3, <1>4, <1>5 DEF Identities
  <1>q. QED
    BY <1>1, <1>3, <1>6 DEF Updated

LEMMA RefreshScopeRevoked ==
    ASSUME SessionInv, SessionInv', RevokedInv, NEW a \in Apis, RefreshScope(a)
    PROVE  RevokedInv'
  <1>0. /\ HeldInv /\ HeldInv' /\ TaskInv /\ JobOK(a, task[a]) /\ task[a].pc = "refresh"
        /\ FlatInv /\ TokenInv /\ OwnerInv /\ PlanInv /\ ComingInv
    BY DEF SessionInv, RevokedInv, TaskInv, RefreshScope, Runs
  <1>a. task[a] \in Jobs
    BY <1>0 DEF JobOK
  <1>b. task[a].clients \subseteq Clients /\ task[a].snap \subseteq PairSet
    BY <1>a DEF Jobs
  <1>1. /\ doc' = doc /\ sessions' = sessions /\ issued' = issued /\ conn' = conn
        /\ owner' = owner /\ raced' = raced
    BY DEF RefreshScope
  <1> DEFINE lists == task[a].snap = {}
             listed == IF lists THEN Outdated(a, First(Behind(a))) ELSE task[a].snap
  <1>2. PICK p \in listed :
           /\ task' = [task EXCEPT ![a].snap = listed \ {p},
                                   ![a].clients = {c \in @ : c > p.client}]
           /\ held' = IF p.client \in Known
                      THEN [held EXCEPT ![p.client][p.scope] = Updated(p.identity, task[a].doc)]
                      ELSE held
    BY DEF RefreshScope, Hold
  <1>c. lists => Behind(a) # {}
    BY DEF RefreshScope
  <1> HIDE DEF lists, listed
  <1>3. Behind(a) \in SUBSET Nat /\ Behind(a) \subseteq Clients
    BY <1>b, Numbers DEF Behind
  <1>4. lists => First(Behind(a)) \in Clients
    BY <1>c, <1>3, FirstIsMember
  <1>5. PICK snap \in SUBSET PairSet : snap = listed
    <2>1. CASE lists
      <3>1. Held({First(Behind(a))}) \subseteq PairSet
        BY <1>0, <1>4, <2>1, PairsType
      <3>q. QED
        BY <2>1, <3>1 DEF listed, Outdated
    <2>2. CASE ~lists
      BY <1>b, <2>2 DEF listed
    <2>q. QED
      BY <2>1, <2>2
  <1>6. p \in snap /\ p.client \in Clients /\ p.scope \in Scopes
    BY <1>5 DEF PairSet
  <1>d. ASSUME task[a].does = "refresh"
        PROVE  /\ \A u \in Users : task[a].doc[u].group = 0
               /\ \A x \in snap : Updated(x.identity, task[a].doc) = AutoLogin
    <2>1. /\ \A u \in Users : task[a].doc[u].group = 0
          /\ \A x \in task[a].snap : Updated(x.identity, task[a].doc) = AutoLogin
      BY <1>0, <1>d DEF PlanInv, Refreshing
    <2>2. CASE lists
      <3>1. snap = Outdated(a, First(Behind(a)))
        BY <1>5, <2>2 DEF listed
      <3>q. QED
        BY <1>0, <1>4, <2>1, <2>2, <3>1, OutdatedIsDeleted
    <2>3. CASE ~lists
      BY <1>5, <2>1, <2>3 DEF listed
    <2>q. QED
      BY <2>1, <2>2, <2>3
  <1>e. task[a].does = "refresh"
    BY <1>0 DEF JobOK
  <1>7. PICK job : job = [task[a] EXCEPT !.snap = snap \ {p},
                                         !.clients = {c \in task[a].clients : c > p.client}]
    OBVIOUS
  <1>8. task' = [task EXCEPT ![a] = job]
    BY <1>2, <1>5, <1>7, <1>a DEF Jobs, TaskInv
  <1>9. /\ job.pc = "refresh" /\ job.does = task[a].does /\ job.user = task[a].user
        /\ job.doc = task[a].doc /\ job.token = task[a].token
        /\ job.snap = snap \ {p} /\ job.clients = {c \in task[a].clients : c > p.client}
    BY <1>0, <1>7, <1>a DEF Jobs
  <1>10. \A c \in Clients, s \in Scopes :
            \/ held'[c][s] = AutoLogin
            \/ /\ held'[c][s] = held[c][s]
               /\ c \in Known => p # [client |-> c, scope |-> s, identity |-> held[c][s]]
    <2>1. ASSUME NEW c \in Clients, NEW s \in Scopes
          PROVE  \/ held'[c][s] = AutoLogin
                 \/ /\ held'[c][s] = held[c][s]
                    /\ c \in Known => p # [client |-> c, scope |-> s, identity |-> held[c][s]]
      <3>1. CASE p.client \in Known
        <4>1. held' = [held EXCEPT ![p.client][p.scope] = AutoLogin]
          BY <1>2, <1>6, <1>d, <1>e, <3>1
        <4>2. held'[c][s] = IF c = p.client /\ s = p.scope THEN AutoLogin ELSE held[c][s]
          BY <1>0, <1>6, <4>1 DEF HeldInv
        <4>q. QED
          BY <4>2
      <3>2. CASE p.client \notin Known
        BY <1>2, <3>2
      <3>q. QED
        BY <3>1, <3>2
    <2>q. QED
      BY <2>1
  <1>11. \A c \in Clients, s \in Scopes : held'[c][s] = AutoLogin =>
            Sound(c, s)' /\ \E i \in Identities : held'[c][s] = i /\ Granted(i)'
    BY GuestIdentities, GuestGranted
  <1>12. Grants
    BY <1>10, <1>11 DEF Grants
  <1>13. /\ \A j \in Clients \cup Apis : task'[j] = IF j = a THEN job ELSE task[j]
         /\ FlatInv' /\ TokenInv' /\ OwnerInv'
    <2>1. job.pc # "hash" /\ task[a].pc # "hash"
      BY <1>0, <1>9
    <2>q. QED
      BY <1>1, <1>8, <1>9, <1>12, <2>1, SameLogins
  <1>14. PlanInv'
    <2>1. /\ \A u \in Users : task'[a].doc[u].group = 0
          /\ \A x \in task'[a].snap : Updated(x.identity, task'[a].doc) = AutoLogin
      BY <1>9, <1>13, <1>d, <1>e
    <2>q. QED
      BY <1>0, <1>13, <2>1, PlanKept
  <1>15. ComingInv'
    <2>1. task'[a] = job
      BY <1>13
    <2>2. IF task[a].snap = {} THEN Behind(a) # {} /\ \A x \in snap : x.client = First(Behind(a))
          ELSE snap = task[a].snap
      <3>1. CASE lists
        <4>1. \A x \in Outdated(a, First(Behind(a))) : x.client = First(Behind(a))
          BY DEF Pairs, Held, Outdated
        <4>q. QED
          BY <1>5, <1>c, <3>1, <4>1 DEF lists, listed
      <3>2. CASE ~lists
        BY <1>5, <3>2 DEF lists, listed
      <3>q. QED
        BY <3>1, <3>2
    <2>3. /\ Ordered(job)
          /\ \A c \in Clients, s \in Scopes :
               LET me == [client |-> c, scope |-> s, identity |-> held[c][s]]
               IN  /\ held'[c][s] = held[c][s] /\ p # me /\ Listed(a, c, s)
                   /\ task[a].snap = {} => c \in Behind(a) /\ (c = First(Behind(a)) => me \in snap)
                   => Listed(a, c, s)'
      BY <1>0, <1>3, <1>6, <1>9, <1>b, <2>1, <2>2, ComesTo
    <2>4. ASSUME NEW c \in Clients, NEW s \in Scopes, c \in Known', held'[c][s] = held[c][s],
                 c \in Known => p # [client |-> c, scope |-> s, identity |-> held[c][s]]
          PROVE  Stays(a, c, s)
      <3>1. c \in Known
        BY <1>1, <2>4 DEF Known
      <3>2. ~Resets(a, c, s)
        BY <1>0 DEF Resets
      <3>3. ASSUME Removes(a, c, s), held[c][s].user # Guest
            PROVE  Removes(a, c, s)'
        <4>1. task[a].doc[held[c][s].user].cred = 0 /\ Listed(a, c, s)
          BY <1>0, <3>3 DEF Removes
        <4>2. [client |-> c, scope |-> s, identity |-> held[c][s]] \in Outdated(a, c)
          BY <3>3, <4>1, DeletedIsOutdated
        <4>3. ASSUME lists
              PROVE  /\ c \in Behind(a)
                     /\ c = First(Behind(a)) =>
                          [client |-> c, scope |-> s, identity |-> held[c][s]] \in snap
          <5>1. c \in task[a].clients
            BY <4>1, <4>3 DEF Listed, lists
          <5>2. c \in Behind(a)
            BY <4>2, <5>1 DEF Behind
          <5>q. QED
            BY <1>5, <4>2, <4>3, <5>2 DEF listed
        <4>4. Listed(a, c, s)'
          BY <2>3, <2>4, <3>1, <4>1, <4>3 DEF lists
        <4>5. Refreshing(a)' /\ task'[a].doc[held'[c][s].user].cred = 0
          BY <1>9, <1>e, <2>1, <2>4, <4>1 DEF Refreshing
        <4>q. QED
          BY <4>4, <4>5 DEF Removes
      <3>q. QED
        BY <1>1, <2>4, <3>1, <3>2, <3>3 DEF Stays
    <2>5. \A c \in Clients, s \in Scopes :
             c \in Known' /\ held'[c][s].token \notin raced' => Sound(c, s)' \/ Stays(a, c, s)
      BY <1>10, <1>11, <2>4
    <2>6. Ordered(task'[a]) /\ raced \subseteq raced'
      BY <1>1, <2>1, <2>3
    <2>q. QED
      BY <1>0, <1>13, <2>5, <2>6, ComingKept
  <1>q. QED
    BY <1>13, <1>14, <1>15 DEF RevokedInv

-----------------------------------------------------------------------------
LEMMA InitRevoked == Init => RevokedInv
  <1> SUFFICES ASSUME Init
               PROVE  RevokedInv
    OBVIOUS
  <1>1. /\ \A c \in Clients, s \in Scopes : held[c][s].user = Guest /\ held[c][s].token = NoToken
        /\ \A k \in Clients \cup Apis : task[k] = NoTask /\ task[k].snap = {}
        /\ \A t \in Tokens : sessions[t] = NoSession
        /\ \A u \in Users : doc[u].cred = 1 /\ doc[u].group = 0
        /\ issued = 0
    BY GuestIdentities, NoTaskIsIdle DEF Init
  <1>2. \A k \in Clients \cup Apis : /\ ~Signing(k) /\ ~Refreshing(k) /\ Blank(task[k])
                                     /\ task[k].token = NoToken /\ task[k].pc # "hash"
    BY <1>1, NoTaskIsIdle, NoTaskIsBlank DEF Signing, Refreshing, Blank
  <1>3. FlatInv
    BY <1>1, <1>2 DEF FlatInv
  <1>4. TokenInv
    <2>1. NoToken <= issued
      BY <1>1 DEF NoToken
    <2>q. QED
      BY <1>1, <1>2, <2>1 DEF TokenInv
  <1>5. OwnerInv
    BY <1>1, <1>2 DEF OwnerInv
  <1>6. PlanInv
    BY <1>2 DEF PlanInv
  <1>7. ComingInv
    <2>1. \A k \in Clients \cup Apis : Ordered(task[k])
      BY <1>1 DEF Ordered
    <2>2. \A c \in Clients, s \in Scopes : ~Deleted(held[c][s].user) /\ held[c][s].token = NoToken
      BY <1>1 DEF Deleted
    <2>3. Known \subseteq Clients
      BY DEF Known
    <2>q. QED
      BY <2>1, <2>2, <2>3 DEF ComingInv
  <1>q. QED
    BY <1>3, <1>4, <1>5, <1>6, <1>7 DEF RevokedInv

LEMMA StepRevoked ==
    ASSUME OnlyDeletes, SessionInv, RevokedInv, [Next]_vars
    PROVE  RevokedInv'
  <1>0. SessionInv'
    BY StepSession
  <1>1. CASE \E t \in Tabs : Connect(t) \/ Close(t) \/ RequestIdentity(t) \/ Logout(t)
    BY <1>0, <1>1, ConnectRevoked, CloseRevoked, RequestRevoked, LogoutRevoked
  <1>2. CASE \E c \in Clients : Disconnect(c) \/ Drop(c)
    BY <1>0, <1>2, DisconnectRevoked, DropRevoked
  <1>3. CASE \E c \in Clients : LoginHashed(c) \/ LoginAnswers(c) \/ LogoutRevokes(c)
    BY <1>0, <1>3, LoginHashedRevoked, LoginAnswersRevoked, LogoutRevokesRevoked
  <1>4. CASE \E t \in Tabs, u \in Users : Login(t, u)
    BY <1>0, <1>4, LoginRevoked
  <1>5. CASE \E k \in Clients \cup Apis : ResetScope(k) \/ Finish(k)
    BY <1>0, <1>5, ResetScopeRevoked, FinishRevoked
  <1>6. CASE \E a \in Apis, u \in Users : PanelIn(a, u) \/ Write(a, u)
    BY <1>0, <1>6, PanelInRevoked, WriteRevoked
  <1>7. CASE \E a \in Apis : PanelInHashed(a) \/ PanelInScope(a) \/ PanelInRevokes(a)
    BY <1>0, <1>7, PanelInHashedRevoked, PanelInScopeRevoked, PanelInRevokesRevoked
  <1>8. CASE \E a \in Apis : PanelOut(a) \/ PanelOutRest(a) \/ PanelOutScope(a)
    BY <1>0, <1>8, PanelOutRevoked, PanelOutRestRevoked, PanelOutScopeRevoked
  <1>9. CASE \E a \in Apis : RefreshLoads(a) \/ RefreshRest(a) \/ RefreshScope(a)
    BY <1>0, <1>9, RefreshLoadsRevoked, RefreshRestRevoked, RefreshScopeRevoked
  <1>10. CASE UNCHANGED vars
    <2>1. UNCHANGED <<doc, sessions, issued, conn, owner, held, task, raced>>
      BY <1>10 DEF vars
    <2>2. FlatInv' /\ TokenInv' /\ OwnerInv' /\ PlanInv'
      BY <2>1 DEF RevokedInv, FlatInv, TokenInv, OwnerInv, PlanInv, Signing, Deleted, Refreshing
    <2>3. ComingInv'
      BY <2>1 DEF RevokedInv, ComingInv, Ordered, Deleted, Refreshing, Removes, Resets, Listed, Known
    <2>q. QED
      BY <2>2, <2>3 DEF RevokedInv
  <1>q. QED
    BY <1>1, <1>2, <1>3, <1>4, <1>5, <1>6, <1>7, <1>8, <1>9, <1>10 DEF Next

(* "All monitors of a panel sign out together", and so does everyone who   *)
(* resumed the login: where the users of users.json are at most deleted,   *)
(* when the handlers are done no connected scope holds a revoked login and *)
(* no connection is signed in as a deleted user, whatever went on during   *)
(* the resets (_reset_sessions, refresh_identities).                       *)
THEOREM RevokedGoesOut == OnlyDeletes /\ Spec => []RevokedIsOut
  <1>1. OnlyDeletes /\ Init => OnlyDeletes /\ SessionInv /\ RevokedInv
    BY InitSession, InitRevoked
  <1>2. OnlyDeletes /\ SessionInv /\ RevokedInv /\ [Next]_vars => (OnlyDeletes /\ SessionInv /\ RevokedInv)'
    BY StepSession, StepRevoked DEF OnlyDeletes
  <1>3. SessionInv /\ RevokedInv => RevokedIsOut
    <2> SUFFICES ASSUME SessionInv, RevokedInv, Quiet, NEW p \in Held(Known),
                        p.identity.token \notin raced,
                        \/ /\ p.client \in conn /\ p.identity.token # NoToken
                           /\ sessions[p.identity.token] = NoSession
                        \/ p.identity.user # Guest /\ doc[p.identity.user].cred = 0
                 PROVE  FALSE
      BY DEF RevokedIsOut
    <2>1. /\ p.client \in Known /\ p.scope \in Scopes
          /\ p.identity = held[p.client][p.scope]
      BY DEF Held, Pairs
    <2>2. p.client \in Clients
      BY <2>1 DEF Known
    <2>3. \A k \in Clients \cup Apis : task[k] = NoTask
      BY DEF Quiet, SessionInv, TaskInv
    <2>4. \A k \in Clients \cup Apis : task[k].pc = "idle"
      BY <2>3, NoTaskIsIdle
    <2>5. \A k \in Clients \cup Apis, c \in Clients, s \in Scopes :
             ~Removes(k, c, s) /\ ~Resets(k, c, s)
      BY <2>4 DEF Removes, Resets, Refreshing
    <2>6. /\ ~Deleted(held[p.client][p.scope].user)
          /\ ~(/\ p.client \in conn /\ held[p.client][p.scope].token # NoToken
               /\ sessions[held[p.client][p.scope].token] = NoSession)
      BY <2>1, <2>2, <2>5 DEF RevokedInv, ComingInv
    <2>q. QED
      BY <2>1, <2>6 DEF Deleted
  <1>q. QED
    BY <1>1, <1>2, <1>3, PTL DEF Spec
=============================================================================
