----------------------------- MODULE Workspaces -----------------------------
(***************************************************************************)
(* backend/workspace_auth.py and the routes over it: logins that create    *)
(* workspaces, invites, sessions, the owner's backfill and the ingest      *)
(* keys, as handlers whose Redis calls interleave and which a restart cuts *)
(* off anywhere.  A pipeline is one call: it is a transaction.             *)
(***************************************************************************)
EXTENDS Naturals, FiniteSets

CONSTANTS
    Users,          \* GitHub ids
    Spaces,         \* workspace ids that may be handed out: 1..n
    Tokens,         \* invite tokens that may be handed out
    Keys,           \* API keys that may be handed out
    Handlers,       \* handlers that may run at a time
    MaxRequests,    \* bound: requests served
    Nobody

ASSUME SpacesAssumption == Spaces \subseteq Nat \ {0} /\ Nobody \notin Users /\ MaxRequests \in Nat

VARIABLES
    user,       \* orqis:user:*: the [home, spaces] of a user, or Nobody
    owner,      \* orqis:workspace:*: owner_github_id, or Nobody
    role,       \* orqis:workspace:*:members: workspace -> user -> role or "none"
    invite,     \* orqis:invite:*: token -> the workspace it opens, or 0
    session,    \* orqis:session:*: the <<user, workspace>> of the live sessions
    index,      \* orqis:apikey:*: key -> workspace, or 0
    meta,       \* orqis:workspace:*:apikey:*: key -> workspace, or 0
    handler,    \* what each handler does next, for whom, where and with what
    spent,      \* tokens and keys that were handed out
    served      \* requests so far

spaceVars == <<user, owner, role, invite, session, index, meta, handler, spent, served>>

Free == [at |-> "free", u |-> Nobody, w |-> 0, arg |-> Nobody]

SpacesInit ==
    /\ user = [u \in Users |-> Nobody]
    /\ owner = [w \in Spaces |-> Nobody]
    /\ role = [w \in Spaces |-> [u \in Users |-> "none"]]
    /\ invite = [t \in Tokens |-> 0]
    /\ session = {}
    /\ index = [k \in Keys |-> 0]
    /\ meta = [k \in Keys |-> 0]
    /\ handler = [h \in Handlers |-> Free]
    /\ spent = {}
    /\ served = 0

Is(h, where) == handler[h].at = where
Goto(h, where) == handler' = [handler EXCEPT ![h].at = where]
Done(h) == handler' = [handler EXCEPT ![h] = Free]

Request(h, first) ==
    /\ Is(h, "free")
    /\ served < MaxRequests
    /\ served' = served + 1
    /\ handler' = [handler EXCEPT ![h] = first]
    /\ UNCHANGED <<user, owner, role, invite, session, index, meta, spent>>

-----------------------------------------------------------------------------
\* auth_github_callback(), once GitHub has named the user; arg is the invite the
\* OAuth state holds, or what was read of the user.

Login(h) == \E u \in Users : Request(h, [Free EXCEPT !.at = "readUser", !.u = u])
Join(h) == \E u \in Users, t \in Tokens : Request(h, [Free EXCEPT !.at = "readInvite", !.u = u, !.arg = t])

\* get_or_create_user_workspace()
ReadUser(h) ==
    LET known == user[handler[h].u] IN
    /\ Is(h, "readUser")
    /\ IF known # Nobody
       THEN handler' = [handler EXCEPT ![h].at = "saveSession", ![h].w = known.home]
       ELSE Goto(h, "createSpace")
    /\ UNCHANGED <<user, owner, role, invite, session, index, meta, spent, served>>

\* Mutant: the new workspace is not in the user's list.
CreateSpaceUnlisted(h) ==
    /\ Is(h, "createSpace")
    /\ \E w \in Spaces :
          /\ owner[w] = Nobody
          /\ owner' = [owner EXCEPT ![w] = handler[h].u]
          /\ user' = [user EXCEPT ![handler[h].u] = [home |-> w, spaces |-> {}]]
          /\ handler' = [handler EXCEPT ![h].at = "addOwner", ![h].w = w]
    /\ UNCHANGED <<role, invite, session, index, meta, spent, served>>
CreateSpace(h) ==
    LET u == handler[h].u IN
    /\ Is(h, "createSpace")
    /\ \E w \in Spaces :
          /\ owner[w] = Nobody /\ \A v \in Spaces : v < w => owner[v] # Nobody
          /\ owner' = [owner EXCEPT ![w] = u]
          /\ user' = [user EXCEPT ![u] = [home |-> w, spaces |-> {w}]]
          /\ handler' = [handler EXCEPT ![h].at = "addOwner", ![h].w = w]
    /\ UNCHANGED <<role, invite, session, index, meta, spent, served>>

AddOwner(h) ==
    /\ Is(h, "addOwner")
    /\ role' = [role EXCEPT ![handler[h].w][handler[h].u] = "owner"]
    /\ Goto(h, "saveSession")
    /\ UNCHANGED <<user, owner, invite, session, index, meta, spent, served>>

\* accept_invite(): the role of an invite is "member", whoever accepts it.
ReadInvite(h) ==
    LET w == invite[handler[h].arg] IN
    /\ Is(h, "readInvite")
    /\ IF w = 0 THEN Done(h) ELSE handler' = [handler EXCEPT ![h].at = "addMember", ![h].w = w]
    /\ UNCHANGED <<user, owner, role, invite, session, index, meta, spent, served>>

AddMember(h) ==
    /\ Is(h, "addMember")
    /\ role' = [role EXCEPT ![handler[h].w][handler[h].u] = "member"]
    /\ Goto(h, "noteSpace")
    /\ UNCHANGED <<user, owner, invite, session, index, meta, spent, served>>

\* The user's record is read, extended and written in two calls; the invite is
\* deleted after them.
NoteSpace(h) ==
    \/ /\ Is(h, "noteSpace")
       /\ handler' = [handler EXCEPT ![h].at = "writeUser", ![h].arg = <<@, user[handler[h].u]>>]
       /\ UNCHANGED <<user, owner, role, invite, session, index, meta, spent, served>>
    \/ /\ Is(h, "writeUser")
       /\ LET u == handler[h].u
              w == handler[h].w
              known == handler[h].arg[2]
          IN user' = [user EXCEPT ![u] = IF known = Nobody THEN [home |-> w, spaces |-> {w}]
                                         ELSE [known EXCEPT !.spaces = @ \cup {w}]]
       /\ handler' = [handler EXCEPT ![h].at = "spendInvite", ![h].arg = @[1]]
       /\ UNCHANGED <<owner, role, invite, session, index, meta, spent, served>>

SpendInvite(h) ==
    /\ Is(h, "spendInvite")
    /\ invite' = [invite EXCEPT ![handler[h].arg] = 0]
    /\ Goto(h, "saveSession")
    /\ UNCHANGED <<user, owner, role, session, index, meta, spent, served>>

SaveSession(h) ==
    /\ Is(h, "saveSession")
    /\ session' = session \cup {<<handler[h].u, handler[h].w>>}
    /\ Goto(h, "listKeys")
    /\ UNCHANGED <<user, owner, role, invite, index, meta, spent, served>>

\* "Ensure workspace has an ingest key".
ListKeys(h) ==
    /\ Is(h, "listKeys")
    /\ IF \E k \in Keys : meta[k] = handler[h].w THEN Done(h) ELSE Goto(h, "createKey")
    /\ UNCHANGED <<user, owner, role, invite, session, index, meta, spent, served>>

CreateKey(h) ==
    /\ Is(h, "createKey")
    /\ \E k \in Keys \ spent : /\ index' = [index EXCEPT ![k] = handler[h].w]
                               /\ meta' = [meta EXCEPT ![k] = handler[h].w]
                               /\ spent' = spent \cup {k}
    /\ Done(h)
    /\ UNCHANGED <<user, owner, role, invite, session, served>>

-----------------------------------------------------------------------------
\* Requests of a session: resolve_dashboard_workspace(), then the route.

Goals == {"look", "createKey", "createInvite"} \cup (Keys \X {"revokeKey"}) \cup (Tokens \X {"revokeInvite"})

Enter(h) == \E s \in session, goal \in Goals :
                Request(h, [at |-> "resolve", u |-> s[1], w |-> s[2], arg |-> goal])

\* Mutant: the members hash is taken for complete.
ResolveNoBackfill(h) ==
    /\ Is(h, "resolve")
    /\ IF <<handler[h].u, handler[h].w>> \notin session THEN Done(h) ELSE Goto(h, "check")
    /\ UNCHANGED <<user, owner, role, invite, session, index, meta, spent, served>>
\* get_session(); then ensure_owner_member() looks for the owner.
Resolve(h) ==
    LET w == handler[h].w IN
    /\ Is(h, "resolve")
    /\ IF <<handler[h].u, w>> \notin session THEN Done(h)
       ELSE Goto(h, IF role[w][owner[w]] = "none" THEN "backfill" ELSE "check")
    /\ UNCHANGED <<user, owner, role, invite, session, index, meta, spent, served>>

Backfill(h) ==
    /\ Is(h, "backfill")
    /\ role' = [role EXCEPT ![handler[h].w][owner[handler[h].w]] = "owner"]
    /\ Goto(h, "check")
    /\ UNCHANGED <<user, owner, invite, session, index, meta, spent, served>>

\* is_workspace_member(); the routes about invites ask for the role as well.
Check(h) ==
    LET goal == handler[h].arg IN
    /\ Is(h, "check")
    /\ CASE role[handler[h].w][handler[h].u] = "none" -> Goto(h, "refused")
         [] role[handler[h].w][handler[h].u] # "none" /\ goal = "look" -> Done(h)
         [] OTHER -> Goto(h, IF goal = "createKey" THEN "createKey"
                             ELSE IF goal \in Keys \X {"revokeKey"} THEN "revokeKey" ELSE "askRole")
    /\ UNCHANGED <<user, owner, role, invite, session, index, meta, spent, served>>

\* _require_workspace_owner()
AskRole(h) ==
    /\ Is(h, "askRole")
    /\ IF <<handler[h].u, handler[h].w>> \notin session \/ role[handler[h].w][handler[h].u] # "owner"
       THEN Done(h)
       ELSE Goto(h, IF handler[h].arg = "createInvite" THEN "createInvite" ELSE "revokeInvite")
    /\ UNCHANGED <<user, owner, role, invite, session, index, meta, spent, served>>

CreateInvite(h) ==
    /\ Is(h, "createInvite")
    /\ \E t \in Tokens \ spent : /\ invite' = [invite EXCEPT ![t] = handler[h].w]
                                 /\ spent' = spent \cup {t}
    /\ Done(h)
    /\ UNCHANGED <<user, owner, role, session, index, meta, served>>

\* revoke_invite(), which only an owner of the invite's workspace may do.
RevokeInvite(h) ==
    LET t == handler[h].arg[1] IN
    /\ Is(h, "revokeInvite")
    /\ invite' = [invite EXCEPT ![t] = IF @ = handler[h].w THEN 0 ELSE @]
    /\ Done(h)
    /\ UNCHANGED <<user, owner, role, session, index, meta, spent, served>>

\* Mutant: the metadata goes first.
RevokeKeyMetaFirst(h) ==
    LET k == handler[h].arg[1] IN
    \/ /\ Is(h, "revokeKey")
       /\ IF meta[k] # handler[h].w THEN Done(h) ELSE Goto(h, "dropMeta")
       /\ UNCHANGED <<user, owner, role, invite, session, index, meta, spent, served>>
    \/ /\ Is(h, "dropMeta")
       /\ meta' = [meta EXCEPT ![k] = 0]
       /\ Goto(h, "dropIndex")
       /\ UNCHANGED <<user, owner, role, invite, session, index, spent, served>>
    \/ /\ Is(h, "dropIndex")
       /\ index' = [index EXCEPT ![k] = 0]
       /\ Done(h)
       /\ UNCHANGED <<user, owner, role, invite, session, meta, spent, served>>
\* revoke_api_key(): the metadata is read, the index deleted, then the metadata.
RevokeKey(h) ==
    LET k == handler[h].arg[1] IN
    \/ /\ Is(h, "revokeKey")
       /\ IF meta[k] # handler[h].w THEN Done(h) ELSE Goto(h, "dropIndex")
       /\ UNCHANGED <<user, owner, role, invite, session, index, meta, spent, served>>
    \/ /\ Is(h, "dropIndex")
       /\ index' = [index EXCEPT ![k] = 0]
       /\ Goto(h, "dropMeta")
       /\ UNCHANGED <<user, owner, role, invite, session, meta, spent, served>>
    \/ /\ Is(h, "dropMeta")
       /\ meta' = [meta EXCEPT ![k] = 0]
       /\ Done(h)
       /\ UNCHANGED <<user, owner, role, invite, session, index, spent, served>>

Logout(h) ==
    \E s \in session :
        /\ Is(h, "free") /\ served < MaxRequests
        /\ served' = served + 1
        /\ session' = session \ {s}
        /\ UNCHANGED <<user, owner, role, invite, index, meta, handler, spent>>

\* The TTL of an invite runs out.
ExpireInvite ==
    \E t \in Tokens :
        /\ invite[t] # 0
        /\ invite' = [invite EXCEPT ![t] = 0]
        /\ UNCHANGED <<user, owner, role, session, index, meta, handler, spent, served>>

\* The backend is restarted in the middle of its handlers.
RestartServer ==
    /\ \E h \in Handlers : ~Is(h, "free")
    /\ handler' = [h \in Handlers |-> Free]
    /\ UNCHANGED <<user, owner, role, invite, session, index, meta, spent, served>>

SpacesNext ==
    \/ \E h \in Handlers :
          \/ Login(h) \/ ReadUser(h) \/ CreateSpace(h) \/ AddOwner(h)
          \/ Join(h) \/ ReadInvite(h) \/ AddMember(h) \/ NoteSpace(h) \/ SpendInvite(h)
          \/ SaveSession(h) \/ ListKeys(h) \/ CreateKey(h)
          \/ Enter(h) \/ Resolve(h) \/ Backfill(h) \/ Check(h) \/ AskRole(h)
          \/ CreateInvite(h) \/ RevokeInvite(h) \/ RevokeKey(h) \/ Logout(h)
    \/ ExpireInvite \/ RestartServer

SpacesSpec == SpacesInit /\ [][SpacesNext]_spaceVars

-----------------------------------------------------------------------------
SpacesTypeOK ==
    /\ \A u \in Users : user[u] # Nobody => user[u].home \in user[u].spaces /\ user[u].spaces \subseteq Spaces
    /\ owner \in [Spaces -> Users \cup {Nobody}]
    /\ role \in [Spaces -> [Users -> {"none", "member", "owner"}]]
    /\ invite \in [Tokens -> Spaces \cup {0}]
    /\ session \subseteq Users \X Spaces
    /\ index \in [Keys -> Spaces \cup {0}] /\ meta \in [Keys -> Spaces \cup {0}]
    /\ spent \subseteq Tokens \cup Keys
    /\ served \in 0..MaxRequests

\* A session that was given out is let in: nobody is told "not a workspace
\* member" of the workspace his login led to, even when a restart fell between
\* the creation of the workspace and that of its first member
\* (workspace_auth.py, get_or_create_user_workspace() and ensure_owner_member()).
SessionsAreHonoured == \A h \in Handlers : ~Is(h, "refused")

\* A key that works is listed, and so can be revoked, wherever a restart cuts
\* its creation or its revocation off (workspace_auth.py, create_api_key() and
\* revoke_api_key(), two records per key).
WorkingKeysAreListed == \A k \in Keys : index[k] # 0 => meta[k] = index[k]

\* Every workspace in a user's record is one he owns or is a member of: racing
\* logins, joins and restarts never send him to a stranger's workspace
\* (workspace_auth.py, accept_invite() writes the membership before the user).
HomesAreOpen ==
    \A u \in Users : user[u] # Nobody =>
        \A w \in user[u].spaces : owner[w] = u \/ role[w][u] # "none"

\* Who was let in has somewhere to go: his session is honoured and his
\* workspaces are his (server.py, auth_github_callback(); workspace_auth.py).
MembersGetIn == SessionsAreHonoured /\ HomesAreOpen

=============================================================================
