------------------------------ MODULE Accounts ------------------------------
(***************************************************************************)
(* The accounts of users at the identity provider, the rows of users in    *)
(* the database, the cache in front of the provider, and what a ban ends.  *)
(*                                                                         *)
(* A request is the list of the calls it still has to await, its todo; an  *)
(* action makes the call at the head of the list.  The calls of different  *)
(* requests interleave, and a call that throws ends its request.  The      *)
(* accounts of other applications at the provider are left out.            *)
(***************************************************************************)
EXTENDS Integers, Sequences, FiniteSets

CONSTANTS
  Procs,    \* requests in flight at once
  Users,    \* ids of users: bound on the accounts and rows
  Names,    \* user names at the provider
  Mails,    \* mail addresses: they are user names too
  Sessions, \* bound: sessions of a user at once, and its refresh tokens
  None,
  Settings  \* what is explored together, see setting

Roles == {"customer", "photographer", "manager"}
Kinds == {"register", "migrated", "visit", "sign", "find", "list", "listRole", "create",
          "update", "ban", "unban", "upgrade", "expire", "sync"}

ASSUME AccountsAssumption ==
  /\ Mails \subseteq Names
  /\ None \notin Users \cup Names
  /\ IsFiniteSet(Procs) /\ IsFiniteSet(Users) /\ IsFiniteSet(Sessions)
  /\ Settings \subseteq [procs : SUBSET Procs, kinds : SUBSET Kinds, users : SUBSET Users,
                         failures : Nat]

VARIABLES
  setting,   \* never changes: how many requests are in flight at once, of which kinds,
             \* about which users, and how many calls fail
  account,   \* accounts at the identity provider
  row,       \* the User table
  sessions, tokens, \* sessions and refresh tokens of each account
  access,    \* users who hold an access token that has not run out
  userCache, \* findFirst: whether an account is active
  roleCache, \* getUserRoles
  listCache, \* findUsersHasRole, and findUsers as "all"
  req,       \* requests in flight
  leaving,   \* history: <<p, u>>, the ban p deactivated u, who was not activated since
  out,       \* history: users whose ban is complete, and not activated since
  failures   \* calls that failed so far

identityVars == <<account, sessions, tokens, access>>
cacheVars == <<userCache, roleCache, listCache>>
history == <<leaving, out>>
vars == <<setting, identityVars, row, cacheVars, req, history, failures>>

NoAccount == [name |-> None, mail |-> None, active |-> FALSE, roles |-> {}]
NoRow == [name |-> None, mail |-> None]
Idle == [kind |-> "none", todo |-> <<>>, user |-> None, name |-> None, mail |-> None,
         role |-> None, active |-> None, roles |-> {}, ids |-> {}, users |-> {}]

Lists == Roles \cup {"all"}

TypeOK ==
  /\ setting \in Settings
  /\ account \in [Users -> {NoAccount} \cup
       [name : Names, mail : Mails \cup {None}, active : BOOLEAN, roles : SUBSET Roles]]
  /\ row \in [Users -> [name : Names \cup {None}, mail : Mails \cup {None}]]
  /\ sessions \in [Users -> SUBSET Sessions] /\ tokens \in [Users -> SUBSET Sessions]
  /\ access \subseteq Users
  /\ userCache \in [Users -> BOOLEAN \cup {None}]
  /\ roleCache \in [Users -> (SUBSET Roles) \cup {None}]
  /\ listCache \in [Lists -> (SUBSET Users) \cup {None}]
  /\ \A p \in Procs :
       /\ DOMAIN req[p] = DOMAIN Idle
       /\ req[p].user \in Users \cup {None} /\ req[p].role \in Roles \cup {None}
       /\ req[p].roles \subseteq Roles /\ req[p].users \subseteq Users
  /\ leaving \subseteq Procs \X Users /\ out \subseteq Users
  /\ failures \in 0..setting.failures

HasAccount(u) == account[u] # NoAccount
HasRow(u) == row[u] # NoRow
NameTaken(n) == \E u \in Users : account[u].name = n

\* Rows may come from before the identity provider, without an account there.
Init ==
  /\ setting \in Settings
  /\ account = [u \in Users |-> NoAccount]
  /\ row \in [Users -> {NoRow} \cup [name : Names \ Mails, mail : Mails]]
  /\ \A u \in Users : HasRow(u) => u \in setting.users /\ "migrated" \in setting.kinds
  /\ sessions = [u \in Users |-> {}] /\ tokens = [u \in Users |-> {}]
  /\ access = {} /\ leaving = {} /\ out = {}
  /\ userCache = [u \in Users |-> None]
  /\ roleCache = [u \in Users |-> None]
  /\ listCache = [r \in Lists |-> None]
  /\ req = [p \in Procs |-> Idle]
  /\ failures = 0

-----------------------------------------------------------------------------
(* Requests, as the calls they await *)

\* clearCache deletes the keys of one pattern after another.
Clear == <<"clearLists", "clearRoles", "clearUsers">>
AddRole == <<"add">> \o Clear
DropRoles == <<"loadRoles">> \o Clear
FindOne == <<"findFirst", "getRoles", "repair">>
Upsert == <<"findName", "insert">> \o AddRole \o Clear
Create == <<"checkMail", "insert">> \o AddRole \o Clear \o <<"insertRow">> \o FindOne

\* Mutant: the role an account has is kept when it is given another.
UpdateMutant(mail, role) ==
  (IF mail = None THEN <<>> ELSE <<"checkMail">>) \o <<"patch">>
    \o (IF role = None THEN <<>> ELSE AddRole) \o Clear \o <<"updateRow">> \o FindOne

Update(mail, role) ==
  (IF mail = None THEN <<>> ELSE <<"checkMail">>) \o <<"patch">>
    \o (IF role = None THEN <<>> ELSE DropRoles \o AddRole) \o Clear \o <<"updateRow">> \o FindOne

\* Mutant: the account is deactivated last.
BanMutant == <<"listSessions", "listTokens", "deactivate">> \o Clear
Ban == <<"deactivate", "listSessions", "listTokens">> \o Clear

Unban == <<"activate">> \o Clear

Doing(p, call) == req[p].todo # <<>> /\ Head(req[p].todo) = call
Rest(p) == Tail(req[p].todo)
Set(p, r) == req' = [req EXCEPT ![p] = IF r.todo = <<>> THEN Idle ELSE r]
Then(p, todo) == Set(p, [req[p] EXCEPT !.todo = todo])
Proceed(p) == Then(p, Rest(p))

\* A call throws, or there is nothing more to do; a synchronisation goes on to the next row.
Stop(p) == Then(p, IF req[p].kind = "sync" /\ req[p].mail # None THEN <<"nextRow">> ELSE <<>>)

\* The request goes on with one such call for each of these.
Each(call, set) == [i \in 1..Cardinality(set) |-> call]

Begin(p, kind, todo, r) ==
  /\ kind \in setting.kinds /\ p \in setting.procs /\ req[p] = Idle
  /\ req' = [req EXCEPT ![p] = [r EXCEPT !.kind = kind, !.todo = todo]]

About(u, role) == [Idle EXCEPT !.user = u, !.role = role]

RequestAbout(p, u) ==
  \/ /\ HasRow(u)
     /\ Begin(p, "find", FindOne, About(u, None)) \/ Begin(p, "list", FindOne, About(u, None))
  \/ /\ HasAccount(u)
     /\ \/ Begin(p, "ban", Ban, About(u, None))
        \/ Begin(p, "unban", Unban, About(u, None))
        \/ Begin(p, "upgrade", DropRoles \o AddRole, About(u, "photographer"))
        \/ Begin(p, "expire", <<"removeRole">> \o Clear, About(u, "photographer"))
        \/ \E m \in Mails \cup {None}, r \in Roles \cup {None}, a \in BOOLEAN \cup {None} :
             Begin(p, "update", Update(m, r), [About(u, r) EXCEPT !.mail = m, !.active = a])

Request(p) ==
  /\ \/ \E u \in setting.users : RequestAbout(p, u)
     \/ \E n \in Names \ Mails, m \in Mails, r \in Roles :
          Begin(p, "create", Create, [Idle EXCEPT !.name = n, !.mail = m, !.role = r])
     \/ \E r \in Roles : Begin(p, "listRole", <<"findRole">>, About(None, r))
     \/ Begin(p, "sync", <<"countUsers">>, Idle)
  /\ UNCHANGED <<setting, identityVars, row, cacheVars, history, failures>>

-----------------------------------------------------------------------------
(* Reading through the cache *)

\* findFirst.  findOne gives an account to a row that has none; findMany passes it over.
FindFirst(p) ==
  LET u == req[p].user IN
  /\ Doing(p, "findFirst")
  /\ IF userCache[u] # None THEN Proceed(p)
     ELSE IF HasAccount(u)
     THEN Set(p, [req[p] EXCEPT !.active = account[u].active, !.todo = <<"setFirst">> \o Rest(p)])
     ELSE IF req[p].kind = "list" THEN Stop(p)
     ELSE Set(p, [req[p] EXCEPT !.name = row[u].name, !.mail = row[u].mail, !.role = "customer",
                                !.todo = Upsert])
  /\ UNCHANGED <<setting, identityVars, row, cacheVars, history, failures>>

SetFirst(p) ==
  /\ Doing(p, "setFirst")
  /\ userCache' = [userCache EXCEPT ![req[p].user] = req[p].active]
  /\ Proceed(p)
  /\ UNCHANGED <<setting, identityVars, row, roleCache, listCache, history, failures>>

GetRoles(p) ==
  LET u == req[p].user IN
  /\ Doing(p, "getRoles")
  /\ IF roleCache[u] # None
     THEN Set(p, [req[p] EXCEPT !.roles = roleCache[u], !.todo = Rest(p)])
     ELSE Set(p, [req[p] EXCEPT !.roles = account[u].roles,
            !.todo = IF HasAccount(u) THEN <<"setRoles">> \o Rest(p) ELSE Rest(p)])
  /\ UNCHANGED <<setting, identityVars, row, cacheVars, history, failures>>

SetRoles(p) ==
  /\ Doing(p, "setRoles")
  /\ roleCache' = [roleCache EXCEPT ![req[p].user] = req[p].roles]
  /\ Proceed(p)
  /\ UNCHANGED <<setting, identityVars, row, userCache, listCache, history, failures>>

\* findOne and findMany make a customer of a user without a role; findMany then reads
\* the roles again.
Repair(p) ==
  /\ Doing(p, "repair")
  /\ IF req[p].roles # {} THEN Proceed(p)
     ELSE Set(p, [req[p] EXCEPT !.role = "customer",
            !.todo = AddRole \o IF req[p].kind = "list" THEN <<"getRoles">> ELSE <<>>])
  /\ UNCHANGED <<setting, identityVars, row, cacheVars, history, failures>>

\* findUsersHasRole, as the list of photographers and the report use it.
FindRole(p) ==
  LET r == req[p].role IN
  /\ Doing(p, "findRole")
  /\ IF listCache[r] # None THEN Proceed(p)
     ELSE Set(p, [req[p] EXCEPT !.users = {u \in Users : r \in account[u].roles},
                                !.todo = <<"setList">>])
  /\ UNCHANGED <<setting, identityVars, row, cacheVars, history, failures>>

SetList(p) ==
  /\ Doing(p, "setList")
  /\ listCache' = [listCache EXCEPT ![req[p].role] = req[p].users]
  /\ Proceed(p)
  /\ UNCHANGED <<setting, identityVars, row, userCache, roleCache, history, failures>>

ClearLists(p) ==
  /\ Doing(p, "clearLists")
  /\ listCache' = [r \in Lists |-> None]
  /\ Proceed(p)
  /\ UNCHANGED <<setting, identityVars, row, userCache, roleCache, history, failures>>

ClearRoles(p) ==
  /\ Doing(p, "clearRoles")
  /\ roleCache' = [u \in Users |-> None]
  /\ Proceed(p)
  /\ UNCHANGED <<setting, identityVars, row, userCache, listCache, history, failures>>

\* The last call of a ban: it is complete.
ClearUsers(p) ==
  /\ Doing(p, "clearUsers")
  /\ userCache' = [u \in Users |-> None]
  /\ IF req[p].kind = "ban" /\ <<p, req[p].user>> \in leaving
     THEN out' = out \cup {req[p].user} /\ leaving' = leaving \ {<<p, req[p].user>>}
     ELSE UNCHANGED history
  /\ Proceed(p)
  /\ UNCHANGED <<setting, identityVars, row, roleCache, listCache, failures>>

-----------------------------------------------------------------------------
(* Changing accounts *)

\* findUsersByEmail
CheckMail(p) ==
  /\ Doing(p, "checkMail")
  /\ IF \E u \in Users \ {req[p].user} : account[u].mail = req[p].mail THEN Stop(p) ELSE Proceed(p)
  /\ UNCHANGED <<setting, identityVars, row, cacheVars, history, failures>>

FindName(p) ==
  /\ Doing(p, "findName")
  /\ IF NameTaken(req[p].name) THEN Stop(p) ELSE Proceed(p)
  /\ UNCHANGED <<setting, identityVars, row, cacheVars, history, failures>>

\* createUser: the name must be free.  findOne asks for the id of its row, the others for
\* a new one.
Insert(p) ==
  LET r == req[p] IN
  /\ Doing(p, "insert")
  /\ IF NameTaken(r.name)
     THEN Stop(p) /\ UNCHANGED account
     ELSE \E u \in setting.users :
            /\ ~HasAccount(u)
            /\ IF r.user # None /\ r.kind = "find" THEN u = r.user ELSE ~HasRow(u)
            /\ account' = [account EXCEPT ![u] =
                 [name |-> r.name, mail |-> r.mail, active |-> TRUE, roles |-> {}]]
            /\ Set(p, [r EXCEPT !.user = u, !.todo = Rest(p)])
  /\ UNCHANGED <<setting, sessions, tokens, access, row, cacheVars, history, failures>>

\* addRoleToUser
Add(p) ==
  /\ Doing(p, "add")
  /\ account' = [account EXCEPT ![req[p].user].roles = @ \cup {req[p].role}]
  /\ Proceed(p)
  /\ UNCHANGED <<setting, sessions, tokens, access, row, cacheVars, history, failures>>

\* deleteRolesFromUser reads the roles and removes one after another.
LoadRoles(p) ==
  LET roles == account[req[p].user].roles IN
  /\ Doing(p, "loadRoles")
  /\ Set(p, [req[p] EXCEPT !.roles = roles, !.todo = Each("drop", roles) \o Rest(p)])
  /\ UNCHANGED <<setting, identityVars, row, cacheVars, history, failures>>

Drop(p) ==
  /\ Doing(p, "drop")
  /\ \E r \in req[p].roles :
       /\ account' = [account EXCEPT ![req[p].user].roles = @ \ {r}]
       /\ Set(p, [req[p] EXCEPT !.roles = @ \ {r}, !.todo = Rest(p)])
  /\ UNCHANGED <<setting, sessions, tokens, access, row, cacheVars, history, failures>>

\* deleteRoleFromUser, when an upgrade order has run out.
RemoveRole(p) ==
  /\ Doing(p, "removeRole")
  /\ account' = [account EXCEPT ![req[p].user].roles = @ \ {req[p].role}]
  /\ Proceed(p)
  /\ UNCHANGED <<setting, sessions, tokens, access, row, cacheVars, history, failures>>

\* Whoever is activated is no longer banned.
Activated(u) == leaving' = leaving \ (Procs \X {u}) /\ out' = out \ {u}

\* updateById
Patch(p) ==
  LET r == req[p] IN
  /\ Doing(p, "patch")
  /\ account' = [account EXCEPT
       ![r.user].mail = IF r.mail = None THEN @ ELSE r.mail,
       ![r.user].active = IF r.active = None THEN @ ELSE r.active]
  /\ IF r.active = TRUE THEN Activated(r.user) ELSE UNCHANGED history
  /\ Proceed(p)
  /\ UNCHANGED <<setting, sessions, tokens, access, row, cacheVars, failures>>

\* The row gets the mail too; without a name in the request the database refuses.
UpdateRow(p) ==
  LET r == req[p] IN
  /\ Doing(p, "updateRow")
  /\ \/ Stop(p) /\ UNCHANGED row
     \/ /\ HasRow(r.user)
        /\ row' = [row EXCEPT ![r.user].mail = IF r.mail = None THEN @ ELSE r.mail]
        /\ Proceed(p)
  /\ UNCHANGED <<setting, identityVars, cacheVars, history, failures>>

InsertRow(p) ==
  LET r == req[p] IN
  /\ Doing(p, "insertRow")
  /\ row' = IF HasRow(r.user) THEN row
            ELSE [row EXCEPT ![r.user] = [name |-> r.name, mail |-> r.mail]]
  /\ Proceed(p)
  /\ UNCHANGED <<setting, identityVars, cacheVars, history, failures>>

-----------------------------------------------------------------------------
(* Bans *)

Activate(p) ==
  /\ Doing(p, "activate")
  /\ account' = [account EXCEPT ![req[p].user].active = TRUE]
  /\ Activated(req[p].user)
  /\ Proceed(p)
  /\ UNCHANGED <<setting, sessions, tokens, access, row, cacheVars, failures>>

Deactivate(p) ==
  /\ Doing(p, "deactivate")
  /\ account' = [account EXCEPT ![req[p].user].active = FALSE]
  /\ leaving' = leaving \cup {<<p, req[p].user>>}
  /\ Proceed(p)
  /\ UNCHANGED <<setting, sessions, tokens, access, row, cacheVars, out, failures>>

ListSessions(p) ==
  LET ids == sessions[req[p].user] IN
  /\ Doing(p, "listSessions")
  /\ Set(p, [req[p] EXCEPT !.ids = ids, !.todo = Each("endSession", ids) \o Rest(p)])
  /\ UNCHANGED <<setting, identityVars, row, cacheVars, history, failures>>

ListTokens(p) ==
  LET ids == tokens[req[p].user] IN
  /\ Doing(p, "listTokens")
  /\ Set(p, [req[p] EXCEPT !.ids = ids, !.todo = Each("revoke", ids) \o Rest(p)])
  /\ UNCHANGED <<setting, identityVars, row, cacheVars, history, failures>>

\* Deleting what is gone already throws.
EndSession(p) ==
  LET u == req[p].user IN
  /\ Doing(p, "endSession")
  /\ \E i \in req[p].ids :
       IF i \in sessions[u]
       THEN /\ sessions' = [sessions EXCEPT ![u] = @ \ {i}]
            /\ Set(p, [req[p] EXCEPT !.ids = @ \ {i}, !.todo = Rest(p)])
       ELSE Stop(p) /\ UNCHANGED sessions
  /\ UNCHANGED <<setting, account, tokens, access, row, cacheVars, history, failures>>

Revoke(p) ==
  LET u == req[p].user IN
  /\ Doing(p, "revoke")
  /\ \E i \in req[p].ids :
       IF i \in tokens[u]
       THEN /\ tokens' = [tokens EXCEPT ![u] = @ \ {i}]
            /\ Set(p, [req[p] EXCEPT !.ids = @ \ {i}, !.todo = Rest(p)])
       ELSE Stop(p) /\ UNCHANGED tokens
  /\ UNCHANGED <<setting, account, sessions, access, row, cacheVars, history, failures>>

-----------------------------------------------------------------------------
(* syncKeycloakWithDatabase *)

Accounts == {u \in Users : HasAccount(u)}
Rows == {u \in Users : HasRow(u)}

CountUsers(p) ==
  /\ Doing(p, "countUsers")
  /\ Set(p, [req[p] EXCEPT !.users = Accounts, !.todo = <<"countRows">>])
  /\ UNCHANGED <<setting, identityVars, row, cacheVars, history, failures>>

CountRows(p) ==
  /\ Doing(p, "countRows")
  /\ Then(p, IF Cardinality(req[p].users) > Cardinality(Rows)
             THEN <<"findUsers">> ELSE <<"findRows">>)
  /\ UNCHANGED <<setting, identityVars, row, cacheVars, history, failures>>

\* More accounts than rows: each account gets a row, in a callback nobody waits for.
FindUsers(p) ==
  LET users == IF listCache["all"] # None THEN listCache["all"] ELSE Accounts IN
  /\ Doing(p, "findUsers")
  /\ listCache' = [listCache EXCEPT !["all"] = users]
  /\ Set(p, [req[p] EXCEPT !.users = users, !.todo = Each("rowOfUser", users)])
  /\ UNCHANGED <<setting, identityVars, row, userCache, roleCache, history, failures>>

RowOfUser(p) ==
  /\ Doing(p, "rowOfUser")
  /\ \E u \in req[p].users :
       /\ row' = IF HasRow(u) THEN row
                 ELSE [row EXCEPT ![u] = [name |-> account[u].name, mail |-> account[u].mail]]
       /\ Set(p, [req[p] EXCEPT !.users = @ \ {u}, !.todo = Rest(p)])
  /\ UNCHANGED <<setting, identityVars, cacheVars, history, failures>>

FindRows(p) ==
  /\ Doing(p, "findRows")
  /\ Set(p, [req[p] EXCEPT !.users = Rows, !.todo = <<"nextRow">>])
  /\ UNCHANGED <<setting, identityVars, row, cacheVars, history, failures>>

\* Otherwise each row gets an account named by its mail, under a new id, unless there is
\* one of that name.  Asked for an empty name the provider lists every account.
NextRow(p) ==
  LET r == req[p] IN
  /\ Doing(p, "nextRow")
  /\ IF r.users = {} THEN Then(p, <<>>)
     ELSE \E u \in r.users :
            IF row[u].mail = None
            THEN Set(p, [r EXCEPT !.users = @ \ {u}])
            ELSE Set(p, [r EXCEPT !.users = @ \ {u}, !.name = row[u].mail, !.mail = row[u].mail,
                           !.role = "customer", !.todo = Upsert \o <<"nextRow">>])
  /\ UNCHANGED <<setting, identityVars, row, cacheVars, history, failures>>

-----------------------------------------------------------------------------
(* The identity provider and the users *)

Register(u) ==
  /\ "register" \in setting.kinds /\ u \in setting.users /\ ~HasAccount(u) /\ ~HasRow(u)
  /\ \E n \in Names \ Mails, m \in Mails :
       /\ ~NameTaken(n)
       /\ account' = [account EXCEPT ![u] =
            [name |-> n, mail |-> m, active |-> TRUE, roles |-> {}]]
  /\ UNCHANGED <<setting, sessions, tokens, access, row, cacheVars, req, history, failures>>

\* Only an active account signs in; a session gives refresh tokens, and those access.
SignIn(u) ==
  /\ "sign" \in setting.kinds /\ account[u].active
  /\ \E i \in Sessions \ sessions[u] : sessions' = [sessions EXCEPT ![u] = @ \cup {i}]
  /\ UNCHANGED <<setting, account, tokens, access, row, cacheVars, req, history, failures>>

SignOut(u) ==
  /\ \E i \in sessions[u] : sessions' = [sessions EXCEPT ![u] = @ \ {i}]
  /\ UNCHANGED <<setting, account, tokens, access, row, cacheVars, req, history, failures>>

Authorize(u) ==
  /\ sessions[u] # {}
  /\ \E i \in Sessions \ tokens[u] : tokens' = [tokens EXCEPT ![u] = @ \cup {i}]
  /\ access' = access \cup {u}
  /\ UNCHANGED <<setting, account, sessions, row, cacheVars, req, history, failures>>

Refresh(u) ==
  /\ tokens[u] # {} /\ u \notin access
  /\ access' = access \cup {u}
  /\ UNCHANGED <<setting, account, sessions, tokens, row, cacheVars, req, history, failures>>

AccessExpires(u) ==
  /\ u \in access
  /\ access' = access \ {u}
  /\ UNCHANGED <<setting, account, sessions, tokens, row, cacheVars, req, history, failures>>

\* The guard verifies the access token and asks nobody whether its user was banned since.
Authenticated(u) == u \in access

\* createUserIfNotExist gives a row, without a mail, to a user who has none.
Visit(u) ==
  /\ Authenticated(u) /\ ~HasRow(u)
  /\ row' = [row EXCEPT ![u] = [name |-> account[u].name, mail |-> None]]
  /\ UNCHANGED <<setting, identityVars, cacheVars, req, history, failures>>

\* Entries of the cache live for a limited time.
ExpireUser(u) ==
  /\ userCache[u] # None
  /\ userCache' = [userCache EXCEPT ![u] = None]
  /\ UNCHANGED <<setting, identityVars, row, roleCache, listCache, req, history, failures>>

\* Mutant: the roles of a user stay in the cache when they are not empty.
ExpireRolesMutant(u) ==
  /\ roleCache[u] = {}
  /\ roleCache' = [roleCache EXCEPT ![u] = None]
  /\ UNCHANGED <<setting, identityVars, row, userCache, listCache, req, history, failures>>

ExpireRoles(u) ==
  /\ roleCache[u] # None
  /\ roleCache' = [roleCache EXCEPT ![u] = None]
  /\ UNCHANGED <<setting, identityVars, row, userCache, listCache, req, history, failures>>

ExpireList(r) ==
  /\ listCache[r] # None
  /\ listCache' = [listCache EXCEPT ![r] = None]
  /\ UNCHANGED <<setting, identityVars, row, userCache, roleCache, req, history, failures>>

\* A call throws for another reason, or the server stops.
Fail(p) ==
  /\ req[p].todo # <<>>
  /\ failures < setting.failures
  /\ failures' = failures + 1
  /\ Stop(p)
  /\ UNCHANGED <<setting, identityVars, row, cacheVars, history>>

-----------------------------------------------------------------------------
Read(p) == FindFirst(p) \/ SetFirst(p) \/ GetRoles(p) \/ SetRoles(p) \/ Repair(p)
             \/ FindRole(p) \/ SetList(p)
ClearCache(p) == ClearLists(p) \/ ClearRoles(p) \/ ClearUsers(p)
Change(p) == CheckMail(p) \/ FindName(p) \/ Insert(p) \/ Add(p) \/ LoadRoles(p) \/ Drop(p)
               \/ RemoveRole(p) \/ Patch(p) \/ UpdateRow(p) \/ InsertRow(p)
BanStep(p) == Activate(p) \/ Deactivate(p) \/ ListSessions(p) \/ ListTokens(p)
                \/ EndSession(p) \/ Revoke(p)
Sync(p) == CountUsers(p) \/ CountRows(p) \/ FindUsers(p) \/ RowOfUser(p) \/ FindRows(p)
             \/ NextRow(p)
Work(p) == Read(p) \/ ClearCache(p) \/ Change(p) \/ BanStep(p) \/ Sync(p)

Next ==
  \/ \E p \in Procs : Request(p) \/ Work(p) \/ Fail(p)
  \/ \E u \in Users : \/ Register(u) \/ SignIn(u) \/ SignOut(u) \/ Authorize(u) \/ Refresh(u)
                      \/ AccessExpires(u) \/ Visit(u) \/ ExpireUser(u) \/ ExpireRoles(u)
  \/ \E r \in Lists : ExpireList(r)

\* The calls of a request are answered, and time passes.
Fairness ==
  /\ \A p \in Procs : WF_vars(Work(p))
  /\ \A u \in Users : WF_vars(ExpireUser(u)) /\ WF_vars(ExpireRoles(u))
  /\ \A r \in Lists : WF_vars(ExpireList(r))

Spec == Init /\ [][Next]_vars /\ Fairness

-----------------------------------------------------------------------------
(* Properties *)

\* A user whose ban is complete, and who was not activated since, has no session and no
\* refresh token left, however its sign-ins interleaved with disableUserAndClearSession.
BannedIsOut == TypeOK /\ \A u \in out : sessions[u] = {} /\ tokens[u] = {}

\* With one request at a time and no failures, every account has at most one role:
\* whatever gives a role takes the others first.
Serial == Cardinality(setting.procs) = 1 /\ setting.failures = 0
OneRole == Serial => \A u \in Users : Cardinality(account[u].roles) <= 1

Fresh(u) == /\ userCache[u] \in {None, account[u].active}
            /\ roleCache[u] \in {None, account[u].roles}
FreshList(r) == listCache[r] \in {None, {u \in Users : r \in account[u].roles}}
CacheFresh == (\A u \in Users : Fresh(u)) /\ (\A r \in Roles : FreshList(r))

\* Once accounts no longer change, the cache comes to tell the truth and goes on telling
\* it, also after requests that wrote what they had read before a change.
BecomesFresh == <>[][UNCHANGED account]_vars => <>[]CacheFresh
=============================================================================
