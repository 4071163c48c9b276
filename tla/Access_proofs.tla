---------------------------- MODULE Access_proofs ----------------------------
(***************************************************************************)
(* Who is let in and what he has: the four components of MCAccess, each    *)
(* for any numbers of users, requests, payments and handlers, and then     *)
(* their composition.                                                      *)
(***************************************************************************)
EXTENDS MCAccess, FiniteSetTheorems, TLAPS

UserRecord == [home : Spaces, spaces : SUBSET Spaces]
Belongs(u, w) == owner[w] = u \/ role[w][u] # "none"

\* What Redis holds between any two calls: workspaces that somebody owns, and
\* users, sessions and invites that lead to them; keys as two records of which
\* the index is written with and deleted before the other.
RecordsOK ==
    /\ user \in [Users -> UserRecord \cup {Nobody}]
    /\ owner \in [Spaces -> Users \cup {Nobody}]
    /\ role \in [Spaces -> [Users -> {"none", "member", "owner"}]]
    /\ invite \in [Tokens -> Spaces \cup {0}]
    /\ session \subseteq Users \X Spaces
    /\ index \in [Keys -> Spaces \cup {0}] /\ meta \in [Keys -> Spaces \cup {0}]
    /\ \A w \in Spaces, u \in Users : role[w][u] # "none" => owner[w] \in Users
    /\ \A u \in Users : user[u] # Nobody =>
          user[u].home \in user[u].spaces /\ \A w \in user[u].spaces : Belongs(u, w)
    /\ \A t \in Tokens : invite[t] # 0 => owner[invite[t]] \in Users
    /\ \A u \in Users, w \in Spaces : <<u, w>> \in session => Belongs(u, w)
    /\ \A k \in Keys : /\ meta[k] # 0 => k \in spent
                       /\ index[k] # 0 => meta[k] = index[k]

Serving == {"readUser", "createSpace", "addOwner", "readInvite", "addMember", "noteSpace", "writeUser",
            "spendInvite", "saveSession", "listKeys", "createKey", "resolve", "backfill", "check", "askRole",
            "createInvite", "revokeInvite", "revokeKey", "dropIndex", "dropMeta"}

\* What a handler may rely on at its next call, whatever the others did since
\* it looked.
HandlerOK(h) ==
    LET x == handler[h] IN
    /\ x = [at |-> x.at, u |-> x.u, w |-> x.w, arg |-> x.arg]
    /\ x.at \in Serving \cup {"free"}
    /\ x.at # "free" => x.u \in Users
    /\ x.at \in Serving \ {"readUser", "createSpace", "readInvite"} => x.w \in Spaces
    /\ x.at = "readInvite" => x.arg \in Tokens
    /\ x.at = "addOwner" => owner[x.w] = x.u
    /\ x.at = "addMember" => owner[x.w] \in Users
    /\ x.at \in {"noteSpace", "writeUser", "spendInvite", "check"} => role[x.w][x.u] # "none"
    /\ x.at = "writeUser" /\ x.arg[2] # Nobody =>
          /\ x.arg[2] \in UserRecord /\ x.arg[2].home \in x.arg[2].spaces
          /\ \A w \in x.arg[2].spaces : Belongs(x.u, w)
    /\ x.at \in {"saveSession", "listKeys", "createKey", "resolve", "backfill", "askRole",
                 "createInvite", "revokeInvite", "revokeKey"} => Belongs(x.u, x.w)
    /\ x.at \in {"revokeKey", "dropIndex", "dropMeta"} => x.arg[1] \in Keys
    /\ x.at \in {"dropIndex", "dropMeta"} => x.arg[1] \in spent
    /\ x.at = "dropMeta" => index[x.arg[1]] = 0

SpacesInv == RecordsOK /\ DOMAIN handler = Handlers /\ \A h \in Handlers : HandlerOK(h)

LEMMA SpacesStart == SpacesInit => SpacesInv
  <1> SUFFICES ASSUME SpacesInit PROVE SpacesInv
    OBVIOUS
  <1>1. RecordsOK
    BY SpacesAssumption DEF SpacesInit, RecordsOK
  <1>2. \A h \in Handlers : HandlerOK(h)
    BY DEF SpacesInit, HandlerOK, Free, Serving
  <1> QED
    BY <1>1, <1>2 DEF SpacesInv, SpacesInit

-----------------------------------------------------------------------------
(* What a step may do to a handler that does not take it *)

\* Owners and members stay; a key that is gone from the index stays away.
Later ==
    /\ \A w \in Spaces : owner[w] \in Users => owner'[w] = owner[w]
    /\ \A w \in Spaces, u \in Users : role[w][u] # "none" => role'[w][u] # "none"
    /\ spent \subseteq spent'
    /\ \A k \in Keys : k \in spent /\ index[k] = 0 => index'[k] = 0

LEMMA BelongsStays ==
    ASSUME Later, NEW u \in Users, NEW w \in Spaces, Belongs(u, w)
    PROVE  Belongs(u, w)'
  BY DEF Later, Belongs

LEMMA OthersKeep ==
    ASSUME NEW h \in Handlers, HandlerOK(h), handler'[h] = handler[h], Later
    PROVE  HandlerOK(h)'
  <1> DEFINE x == handler[h]
  <1>1. x.at # "free" => x.u \in Users
    BY DEF HandlerOK
  <1>2. x.at \in Serving \ {"readUser", "createSpace", "readInvite"} => x.w \in Spaces /\ x.u \in Users
    BY DEF HandlerOK, Serving
  <1>3. x.at \in {"saveSession", "listKeys", "createKey", "resolve", "backfill", "askRole",
                  "createInvite", "revokeInvite", "revokeKey"} => Belongs(x.u, x.w)'
    BY <1>2, BelongsStays DEF HandlerOK, Serving
  <1>4. ASSUME x.at = "writeUser", x.arg[2] # Nobody
        PROVE  \A w \in x.arg[2].spaces : Belongs(x.u, w)'
    <2>1. x.u \in Users /\ x.arg[2].spaces \subseteq Spaces
      BY <1>4, <1>1 DEF HandlerOK, UserRecord
    <2> QED
      BY <2>1, <1>4, BelongsStays DEF HandlerOK
  <1>5. x.at = "addOwner" => owner'[x.w] = x.u
    BY <1>2 DEF HandlerOK, Later, Serving
  <1>6. x.at = "addMember" => owner'[x.w] \in Users
    BY <1>2 DEF HandlerOK, Later, Serving
  <1>7. x.at \in {"noteSpace", "writeUser", "spendInvite", "check"} => role'[x.w][x.u] # "none"
    BY <1>2 DEF HandlerOK, Later, Serving
  <1>8. x.at = "dropMeta" => index'[x.arg[1]] = 0
    BY DEF HandlerOK, Later
  <1>9. x.at \in {"dropIndex", "dropMeta"} => x.arg[1] \in spent'
    BY DEF HandlerOK, Later
  <1> QED
    BY <1>3, <1>4, <1>5, <1>6, <1>7, <1>8, <1>9 DEF HandlerOK

LEMMA OneSteps ==
    ASSUME SpacesInv, NEW h \in Handlers, RecordsOK', Later, HandlerOK(h)',
           DOMAIN handler' = Handlers, \A d \in Handlers : d # h => handler'[d] = handler[d]
    PROVE  SpacesInv'
  <1>1. \A d \in Handlers : HandlerOK(d)'
    BY OthersKeep DEF SpacesInv
  <1> QED
    BY <1>1 DEF SpacesInv

\* How the handler that takes a step goes on.
Becomes(h, x) ==
    /\ handler'[h] = x
    /\ DOMAIN handler' = Handlers
    /\ \A d \in Handlers : d # h => handler'[d] = handler[d]

LEMMA GoesOn ==
    ASSUME SpacesInv, NEW h \in Handlers, NEW where, Goto(h, where)
    PROVE  Becomes(h, [at |-> where, u |-> handler[h].u, w |-> handler[h].w, arg |-> handler[h].arg])
  <1>1. handler[h] = [at |-> handler[h].at, u |-> handler[h].u, w |-> handler[h].w, arg |-> handler[h].arg]
    BY DEF SpacesInv, HandlerOK
  <1> QED
    BY <1>1 DEF SpacesInv, Goto, Becomes

LEMMA EndsWell ==
    ASSUME SpacesInv, NEW h \in Handlers, Becomes(h, Free), RecordsOK', Later
    PROVE  SpacesInv'
  <1>1. HandlerOK(h)'
    BY DEF Becomes, HandlerOK, Free, Serving
  <1> QED
    BY <1>1, OneSteps DEF Becomes

LEMMA IsDone ==
    ASSUME SpacesInv, NEW h \in Handlers, Done(h)
    PROVE  Becomes(h, Free)
  BY DEF SpacesInv, Done, Becomes

\* A step that only reads Redis.
LEMMA Reads ==
    ASSUME SpacesInv, UNCHANGED <<user, owner, role, invite, session, index, meta, spent>>
    PROVE  RecordsOK' /\ Later
  BY DEF SpacesInv, RecordsOK, Later, Belongs

\* A step that gives somebody a role in a workspace that has an owner.
LEMMA Promoted ==
    ASSUME SpacesInv, NEW u \in Users, NEW w \in Spaces, owner[w] \in Users,
           NEW r \in {"member", "owner"}, role' = [role EXCEPT ![w][u] = r],
           UNCHANGED <<user, owner, invite, session, index, meta, spent>>
    PROVE  Later /\ RecordsOK'
  <1>1. /\ role' \in [Spaces -> [Users -> {"none", "member", "owner"}]]
        /\ \A v \in Spaces, n \in Users : role'[v][n] = IF v = w /\ n = u THEN r ELSE role[v][n]
    BY DEF SpacesInv, RecordsOK
  <1>2. Later
    BY <1>1 DEF Later
  <1>3. \A n \in Users, v \in Spaces : Belongs(n, v) => Belongs(n, v)'
    BY <1>2, BelongsStays
  <1>4. \A v \in Spaces, n \in Users : role'[v][n] # "none" => owner'[v] \in Users
    BY <1>1 DEF SpacesInv, RecordsOK
  <1>5. \A n \in Users : user'[n] # Nobody =>
          user'[n].home \in user'[n].spaces /\ \A v \in user'[n].spaces : Belongs(n, v)'
    <2> SUFFICES ASSUME NEW n \in Users, user[n] # Nobody
                 PROVE  user[n].home \in user[n].spaces /\ \A v \in user[n].spaces : Belongs(n, v)'
      OBVIOUS
    <2>1. user[n].spaces \subseteq Spaces
      BY DEF SpacesInv, RecordsOK, UserRecord
    <2> QED
      BY <2>1, <1>3 DEF SpacesInv, RecordsOK
  <1>6. \A n \in Users, v \in Spaces : <<n, v>> \in session' => Belongs(n, v)'
    BY <1>3 DEF SpacesInv, RecordsOK
  <1> QED
    BY <1>1, <1>2, <1>4, <1>5, <1>6 DEF SpacesInv, RecordsOK

-----------------------------------------------------------------------------
(* Logins *)

LEMMA LoginKeeps ==
    ASSUME SpacesInv, NEW h \in Handlers, Login(h) \/ Join(h)
    PROVE  SpacesInv'
  <1>1. RecordsOK' /\ Later
    BY Reads DEF Login, Join, Request
  <1>2. CASE Login(h)
    <2>1. PICK u \in Users : Becomes(h, [at |-> "readUser", u |-> u, w |-> 0, arg |-> Nobody])
      BY <1>2 DEF Login, Request, Free, SpacesInv, Becomes
    <2>2. HandlerOK(h)'
      BY <2>1 DEF Becomes, HandlerOK, Serving
    <2> QED
      BY <2>1, <2>2, <1>1, OneSteps DEF Becomes
  <1>3. CASE Join(h)
    <2>1. PICK u \in Users, t \in Tokens : Becomes(h, [at |-> "readInvite", u |-> u, w |-> 0, arg |-> t])
      <3>1. PICK u \in Users, t \in Tokens : Request(h, [Free EXCEPT !.at = "readInvite", !.u = u, !.arg = t])
        BY <1>3 DEF Join
      <3> DEFINE x == [Free EXCEPT !.at = "readInvite", !.u = u, !.arg = t]
      <3>2. handler' = [handler EXCEPT ![h] = x] /\ DOMAIN handler = Handlers
        BY <3>1 DEF Request, SpacesInv
      <3>3. handler'[h] = [at |-> "readInvite", u |-> u, w |-> 0, arg |-> t]
        BY <3>2 DEF Free
      <3> HIDE DEF x
      <3> QED
        BY <3>2, <3>3 DEF Becomes
    <2>2. HandlerOK(h)'
      BY <2>1 DEF Becomes, HandlerOK, Serving
    <2> QED
      BY <2>1, <2>2, <1>1, OneSteps DEF Becomes
  <1> QED
    BY <1>2, <1>3

LEMMA ReadUserKeeps ==
    ASSUME SpacesInv, NEW h \in Handlers, ReadUser(h)
    PROVE  SpacesInv'
  <1> DEFINE x == handler[h]
  <1>1. RecordsOK' /\ Later
    BY Reads DEF ReadUser
  <1>2. x.u \in Users
    BY DEF SpacesInv, HandlerOK, ReadUser, Is
  <1>3. CASE user[x.u] = Nobody
    <2>1. Becomes(h, [at |-> "createSpace", u |-> x.u, w |-> x.w, arg |-> x.arg])
      BY <1>3, GoesOn DEF ReadUser
    <2>2. HandlerOK(h)'
      BY <2>1, <1>2 DEF Becomes, HandlerOK, Serving
    <2> QED
      BY <2>1, <2>2, <1>1, OneSteps DEF Becomes
  <1>4. CASE user[x.u] # Nobody
    <2>1. PICK u \in Users, home \in Spaces : u = x.u /\ home = user[u].home /\ Belongs(u, home)
      BY <1>2, <1>4 DEF SpacesInv, RecordsOK, UserRecord
    <2>2. Becomes(h, [at |-> "saveSession", u |-> u, w |-> home, arg |-> x.arg])
      <3>1. x = [at |-> x.at, u |-> x.u, w |-> x.w, arg |-> x.arg]
        BY DEF SpacesInv, HandlerOK
      <3> QED
        BY <3>1, <2>1, <1>4 DEF ReadUser, SpacesInv, Becomes
    <2>3. Belongs(u, home)'
      BY <2>1, <1>1, BelongsStays
    <2>4. HandlerOK(h)'
      BY <2>2, <2>3 DEF Becomes, HandlerOK, Serving
    <2> QED
      BY <2>2, <2>4, <1>1, OneSteps DEF Becomes
  <1> QED
    BY <1>3, <1>4

LEMMA CreateSpaceKeeps ==
    ASSUME SpacesInv, NEW h \in Handlers, CreateSpace(h)
    PROVE  SpacesInv'
  <1> DEFINE x == handler[h]
  <1>1. x.u \in Users /\ x = [at |-> x.at, u |-> x.u, w |-> x.w, arg |-> x.arg]
    BY DEF SpacesInv, HandlerOK, CreateSpace, Is
  <1>2. PICK w \in Spaces :
            /\ owner[w] = Nobody
            /\ owner' = [owner EXCEPT ![w] = x.u]
            /\ user' = [user EXCEPT ![x.u] = [home |-> w, spaces |-> {w}]]
            /\ handler' = [handler EXCEPT ![h].at = "addOwner", ![h].w = w]
    BY DEF CreateSpace
  <1>3. UNCHANGED <<role, invite, session, index, meta, spent>>
    BY DEF CreateSpace
  <1>4. Becomes(h, [at |-> "addOwner", u |-> x.u, w |-> w, arg |-> x.arg])
    BY <1>1, <1>2 DEF SpacesInv, Becomes
  <1>5. Later
    BY <1>2, <1>3, SpacesAssumption DEF Later, SpacesInv, RecordsOK
  <1>6. \A u \in Users, v \in Spaces : Belongs(u, v) => Belongs(u, v)'
    BY <1>5, BelongsStays
  <1>7. RecordsOK'
    <2>1. /\ user' \in [Users -> UserRecord \cup {Nobody}]
          /\ owner' \in [Spaces -> Users \cup {Nobody}]
      BY <1>1, <1>2 DEF SpacesInv, RecordsOK, UserRecord
    <2>2. \A u \in Users : user'[u] # Nobody =>
            user'[u].home \in user'[u].spaces /\ \A v \in user'[u].spaces : Belongs(u, v)'
      <3> SUFFICES ASSUME NEW u \in Users, user'[u] # Nobody
                   PROVE  user'[u].home \in user'[u].spaces /\ \A v \in user'[u].spaces : Belongs(u, v)'
        OBVIOUS
      <3>1. CASE u = x.u
        <4>1. user'[u] = [home |-> w, spaces |-> {w}] /\ owner'[w] = u
          BY <3>1, <1>1, <1>2 DEF SpacesInv, RecordsOK
        <4> QED
          BY <4>1 DEF Belongs
      <3>2. CASE u # x.u
        <4>1. user'[u] = user[u] /\ user[u] # Nobody /\ user[u].spaces \subseteq Spaces
          BY <3>2, <1>2 DEF SpacesInv, RecordsOK, UserRecord
        <4> QED
          BY <4>1, <1>6 DEF SpacesInv, RecordsOK
      <3> QED
        BY <3>1, <3>2
    <2>3. \A u \in Users, v \in Spaces : <<u, v>> \in session' => Belongs(u, v)'
      BY <1>3, <1>6 DEF SpacesInv, RecordsOK
    <2>4. /\ \A v \in Spaces, u \in Users : role'[v][u] # "none" => owner'[v] \in Users
          /\ \A t \in Tokens : invite'[t] # 0 => owner'[invite'[t]] \in Users
      BY <1>1, <1>2, <1>3 DEF SpacesInv, RecordsOK
    <2> QED
      BY <2>1, <2>2, <2>3, <2>4, <1>3 DEF SpacesInv, RecordsOK
  <1>8. HandlerOK(h)'
    <2>1. owner'[w] = x.u
      BY <1>2 DEF SpacesInv, RecordsOK
    <2> QED
      BY <2>1, <1>1, <1>4 DEF Becomes, HandlerOK, Serving
  <1> QED
    BY <1>4, <1>5, <1>7, <1>8, OneSteps DEF Becomes
LEMMA AddOwnerKeeps ==
    ASSUME SpacesInv, NEW h \in Handlers, AddOwner(h)
    PROVE  SpacesInv'
  <1>1. PICK u \in Users, w \in Spaces : u = handler[h].u /\ w = handler[h].w /\ owner[w] = u
    BY DEF SpacesInv, HandlerOK, AddOwner, Is, Serving
  <1>2. role' = [role EXCEPT ![w][u] = "owner"] /\ Goto(h, "saveSession")
        /\ UNCHANGED <<user, owner, invite, session, index, meta, spent>>
    BY <1>1 DEF AddOwner
  <1>3. Becomes(h, [at |-> "saveSession", u |-> u, w |-> w, arg |-> handler[h].arg])
    BY <1>1, <1>2, GoesOn
  <1>4. Later /\ RecordsOK'
    BY <1>1, <1>2, Promoted
  <1>5. Belongs(u, w)'
    BY <1>1, <1>2 DEF Belongs
  <1>6. HandlerOK(h)'
    BY <1>3, <1>5 DEF Becomes, HandlerOK, Serving
  <1> QED
    BY <1>3, <1>4, <1>6, OneSteps DEF Becomes

LEMMA ReadInviteKeeps ==
    ASSUME SpacesInv, NEW h \in Handlers, ReadInvite(h)
    PROVE  SpacesInv'
  <1> DEFINE x == handler[h]
  <1>1. RecordsOK' /\ Later
    BY Reads DEF ReadInvite
  <1>2. x.u \in Users /\ x.arg \in Tokens /\ x = [at |-> x.at, u |-> x.u, w |-> x.w, arg |-> x.arg]
    BY DEF SpacesInv, HandlerOK, ReadInvite, Is
  <1>3. CASE invite[x.arg] = 0
    BY <1>1, <1>3, IsDone, EndsWell DEF ReadInvite
  <1>4. CASE invite[x.arg] # 0
    <2>1. PICK w \in Spaces : w = invite[x.arg] /\ owner[w] \in Users
      BY <1>2, <1>4 DEF SpacesInv, RecordsOK
    <2>2. Becomes(h, [at |-> "addMember", u |-> x.u, w |-> w, arg |-> x.arg])
      BY <1>2, <1>4, <2>1 DEF ReadInvite, SpacesInv, Becomes
    <2>3. HandlerOK(h)'
      BY <2>1, <2>2, <1>2 DEF Becomes, HandlerOK, Serving, ReadInvite
    <2> QED
      BY <2>2, <2>3, <1>1, OneSteps DEF Becomes
  <1> QED
    BY <1>3, <1>4

LEMMA AddMemberKeeps ==
    ASSUME SpacesInv, NEW h \in Handlers, AddMember(h)
    PROVE  SpacesInv'
  <1>1. PICK u \in Users, w \in Spaces : u = handler[h].u /\ w = handler[h].w /\ owner[w] \in Users
    BY DEF SpacesInv, HandlerOK, AddMember, Is, Serving
  <1>2. role' = [role EXCEPT ![w][u] = "member"] /\ Goto(h, "noteSpace")
        /\ UNCHANGED <<user, owner, invite, session, index, meta, spent>>
    BY <1>1 DEF AddMember
  <1>3. Becomes(h, [at |-> "noteSpace", u |-> u, w |-> w, arg |-> handler[h].arg])
    BY <1>1, <1>2, GoesOn
  <1>4. Later /\ RecordsOK'
    BY <1>1, <1>2, Promoted
  <1>5. role'[w][u] # "none"
    BY <1>2 DEF SpacesInv, RecordsOK
  <1>6. HandlerOK(h)'
    BY <1>3, <1>5 DEF Becomes, HandlerOK, Serving
  <1> QED
    BY <1>3, <1>4, <1>6, OneSteps DEF Becomes
LEMMA NoteSpaceKeeps ==
    ASSUME SpacesInv, NEW h \in Handlers, NoteSpace(h)
    PROVE  SpacesInv'
  <1>1. PICK u \in Users, w \in Spaces :
            u = handler[h].u /\ w = handler[h].w /\ role[w][u] # "none"
    <2>1. handler[h].at \in {"noteSpace", "writeUser"} /\ HandlerOK(h)
      BY DEF SpacesInv, NoteSpace, Is
    <2> QED
      BY <2>1 DEF HandlerOK, Serving
  <1>2. handler[h] = [at |-> handler[h].at, u |-> u, w |-> w, arg |-> handler[h].arg]
    BY <1>1 DEF SpacesInv, HandlerOK
  <1>3. CASE Is(h, "noteSpace")
    <2>1. RecordsOK' /\ Later
      BY <1>3, Reads DEF NoteSpace, Is
    <2>2. Becomes(h, [at |-> "writeUser", u |-> u, w |-> w, arg |-> <<handler[h].arg, user[u]>>])
      BY <1>1, <1>2, <1>3 DEF NoteSpace, Is, SpacesInv, Becomes
    <2>3. user[u] # Nobody =>
            /\ user[u] \in UserRecord /\ user[u].home \in user[u].spaces
            /\ \A v \in user[u].spaces : Belongs(u, v)
      BY DEF SpacesInv, RecordsOK
    <2>4. UNCHANGED <<owner, role>>
      BY <1>3 DEF NoteSpace, Is
    <2>5. HandlerOK(h)'
      BY <2>2, <2>3, <2>4, <1>1 DEF Becomes, HandlerOK, Serving, Belongs
    <2> QED
      BY <2>1, <2>2, <2>5, OneSteps DEF Becomes
  <1>4. CASE Is(h, "writeUser")
    <2> DEFINE known == handler[h].arg[2]
    <2>1. /\ user' = [user EXCEPT ![u] = IF known = Nobody THEN [home |-> w, spaces |-> {w}]
                                         ELSE [known EXCEPT !.spaces = @ \cup {w}]]
          /\ UNCHANGED <<owner, role, invite, session, index, meta, spent>>
      BY <1>1, <1>4 DEF NoteSpace, Is
    <2>2. Becomes(h, [at |-> "spendInvite", u |-> u, w |-> w, arg |-> handler[h].arg[1]])
      BY <1>1, <1>2, <1>4 DEF NoteSpace, Is, SpacesInv, Becomes
    <2>3. Later
      BY <2>1 DEF Later
    <2>4. PICK r \in UserRecord : /\ user' = [user EXCEPT ![u] = r]
                                  /\ r.home \in r.spaces
                                  /\ \A v \in r.spaces : Belongs(u, v)
      <3>1. CASE known = Nobody
        <4> DEFINE r == [home |-> w, spaces |-> {w}]
        <4>1. r \in UserRecord /\ r.home \in r.spaces /\ \A v \in r.spaces : Belongs(u, v)
          BY <1>1 DEF UserRecord, Belongs
        <4>2. user' = [user EXCEPT ![u] = r]
          BY <3>1, <2>1
        <4> QED
          BY <4>1, <4>2
      <3>2. CASE known # Nobody
        <4>1. known \in UserRecord /\ known.home \in known.spaces /\ \A v \in known.spaces : Belongs(u, v)
          BY <3>2, <1>1, <1>4 DEF SpacesInv, HandlerOK, Is
        <4> DEFINE r == [home |-> known.home, spaces |-> known.spaces \cup {w}]
        <4>2. [known EXCEPT !.spaces = @ \cup {w}] = r
          BY <4>1 DEF UserRecord
        <4>3. user' = [user EXCEPT ![u] = r]
          BY <4>2, <3>2, <2>1
        <4>4. r \in UserRecord /\ r.home \in r.spaces
          BY <4>1 DEF UserRecord
        <4>5. \A v \in r.spaces : Belongs(u, v)
          BY <4>1, <1>1 DEF Belongs
        <4> QED
          BY <4>3, <4>4, <4>5
      <3> QED
        BY <3>1, <3>2
    <2>5. RecordsOK'
      <3>1. user' \in [Users -> UserRecord \cup {Nobody}]
        BY <2>4 DEF SpacesInv, RecordsOK
      <3>2. \A n \in Users : user'[n] # Nobody =>
              user'[n].home \in user'[n].spaces /\ \A v \in user'[n].spaces : Belongs(n, v)'
        BY <2>1, <2>4 DEF SpacesInv, RecordsOK, Belongs
      <3> QED
        BY <3>1, <3>2, <2>1 DEF SpacesInv, RecordsOK, Belongs
    <2>6. HandlerOK(h)'
      BY <2>1, <2>2, <1>1 DEF Becomes, HandlerOK, Serving
    <2> QED
      BY <2>2, <2>3, <2>5, <2>6, OneSteps DEF Becomes
  <1> QED
    BY <1>3, <1>4 DEF NoteSpace

LEMMA SpendInviteKeeps ==
    ASSUME SpacesInv, NEW h \in Handlers, SpendInvite(h)
    PROVE  SpacesInv'
  <1>1. PICK u \in Users, w \in Spaces :
            u = handler[h].u /\ w = handler[h].w /\ role[w][u] # "none"
    BY DEF SpacesInv, HandlerOK, SpendInvite, Is, Serving
  <1>2. Becomes(h, [at |-> "saveSession", u |-> u, w |-> w, arg |-> handler[h].arg])
    BY <1>1, GoesOn DEF SpendInvite
  <1>3. Later /\ RecordsOK'
    BY DEF SpendInvite, Later, SpacesInv, RecordsOK, Belongs
  <1>4. HandlerOK(h)'
    BY <1>1, <1>2 DEF Becomes, HandlerOK, Serving, Belongs, SpendInvite
  <1> QED
    BY <1>2, <1>3, <1>4, OneSteps DEF Becomes

LEMMA SaveSessionKeeps ==
    ASSUME SpacesInv, NEW h \in Handlers, SaveSession(h)
    PROVE  SpacesInv'
  <1>1. PICK u \in Users, w \in Spaces : u = handler[h].u /\ w = handler[h].w /\ Belongs(u, w)
    BY DEF SpacesInv, HandlerOK, SaveSession, Is, Serving
  <1>2. Becomes(h, [at |-> "listKeys", u |-> u, w |-> w, arg |-> handler[h].arg])
    BY <1>1, GoesOn DEF SaveSession
  <1>3. session' = session \cup {<<u, w>>} /\ UNCHANGED <<user, owner, role, invite, index, meta, spent>>
    BY <1>1 DEF SaveSession
  <1>4. Later /\ RecordsOK'
    BY <1>1, <1>3 DEF Later, SpacesInv, RecordsOK, Belongs
  <1>5. HandlerOK(h)'
    BY <1>1, <1>2, <1>3 DEF Becomes, HandlerOK, Serving, Belongs
  <1> QED
    BY <1>2, <1>4, <1>5, OneSteps DEF Becomes

-----------------------------------------------------------------------------
(* Requests of a session *)

\* Who belongs to a workspace goes on to a step that asks for no more.
LEMMA MemberGoesOn ==
    ASSUME SpacesInv, NEW h \in Handlers, UNCHANGED <<user, owner, role, invite, session, index, meta, spent>>,
           handler[h].u \in Users, handler[h].w \in Spaces, Belongs(handler[h].u, handler[h].w),
           NEW where \in {"listKeys", "createKey", "resolve", "backfill", "askRole", "createInvite", "revokeInvite"},
           Goto(h, where)
    PROVE  SpacesInv'
  <1>1. PICK u \in Users, w \in Spaces : u = handler[h].u /\ w = handler[h].w /\ Belongs(u, w)
    OBVIOUS
  <1>2. RecordsOK' /\ Later
    BY Reads
  <1>3. Becomes(h, [at |-> where, u |-> u, w |-> w, arg |-> handler[h].arg])
    BY <1>1, GoesOn
  <1>4. HandlerOK(h)'
    BY <1>1, <1>3 DEF Becomes, HandlerOK, Serving, Belongs
  <1> QED
    BY <1>2, <1>3, <1>4, OneSteps DEF Becomes

LEMMA KeysKeep ==
    ASSUME SpacesInv, NEW h \in Handlers, ListKeys(h) \/ CreateKey(h)
    PROVE  SpacesInv'
  <1>1. PICK u \in Users, w \in Spaces : u = handler[h].u /\ w = handler[h].w /\ Belongs(u, w)
    BY DEF SpacesInv, HandlerOK, ListKeys, CreateKey, Is, Serving
  <1>2. CASE ListKeys(h)
    <2>1. CASE Done(h)
      BY <2>1, <1>2, IsDone, EndsWell, Reads DEF ListKeys
    <2>2. CASE Goto(h, "createKey")
      BY <2>2, <1>1, <1>2, MemberGoesOn DEF ListKeys
    <2> QED
      BY <2>1, <2>2, <1>2 DEF ListKeys
  <1>3. CASE CreateKey(h)
    <2>1. PICK k \in Keys \ spent :
              /\ index' = [index EXCEPT ![k] = w] /\ meta' = [meta EXCEPT ![k] = w]
              /\ spent' = spent \cup {k}
      BY <1>1, <1>3 DEF CreateKey
    <2>2. UNCHANGED <<user, owner, role, invite, session>> /\ Done(h)
      BY <1>3 DEF CreateKey
    <2>3. Later
      BY <2>1, <2>2 DEF Later, SpacesInv, RecordsOK
    <2>4. RecordsOK'
      BY <2>1, <2>2 DEF SpacesInv, RecordsOK, Belongs
    <2> QED
      BY <2>2, <2>3, <2>4, IsDone, EndsWell
  <1> QED
    BY <1>2, <1>3

LEMMA EnterKeeps ==
    ASSUME SpacesInv, NEW h \in Handlers, Enter(h)
    PROVE  SpacesInv'
  <1>1. PICK s \in session, goal \in Goals : Request(h, [at |-> "resolve", u |-> s[1], w |-> s[2], arg |-> goal])
    BY DEF Enter
  <1>2. PICK u \in Users, w \in Spaces : s = <<u, w>> /\ Belongs(u, w)
    BY DEF SpacesInv, RecordsOK
  <1>3. RecordsOK' /\ Later
    BY <1>1, Reads DEF Request
  <1>4. Becomes(h, [at |-> "resolve", u |-> u, w |-> w, arg |-> goal])
    BY <1>1, <1>2 DEF Request, SpacesInv, Becomes
  <1>5. HandlerOK(h)'
    BY <1>1, <1>2, <1>4 DEF Becomes, HandlerOK, Serving, Belongs, Request
  <1> QED
    BY <1>3, <1>4, <1>5, OneSteps DEF Becomes

LEMMA ResolveKeeps ==
    ASSUME SpacesInv, NEW h \in Handlers, Resolve(h) \/ Backfill(h)
    PROVE  SpacesInv'
  <1>1. PICK u \in Users, w \in Spaces : u = handler[h].u /\ w = handler[h].w /\ Belongs(u, w)
    BY DEF SpacesInv, HandlerOK, Resolve, Backfill, Is, Serving
  <1>2. owner[w] \in Users
    BY <1>1 DEF SpacesInv, RecordsOK, Belongs
  <1>3. CASE Resolve(h)
    <2>1. UNCHANGED <<user, owner, role, invite, session, index, meta, spent>>
      BY <1>3 DEF Resolve
    <2>2. CASE Done(h)
      BY <2>1, <2>2, IsDone, EndsWell, Reads
    <2>3. CASE Goto(h, "backfill")
      BY <2>1, <2>3, <1>1, MemberGoesOn
    <2>4. CASE Goto(h, "check") /\ role[w][owner[w]] # "none"
      <3>1. role[w][u] # "none"
        BY <2>4, <1>1 DEF Belongs
      <3>2. Becomes(h, [at |-> "check", u |-> u, w |-> w, arg |-> handler[h].arg])
        BY <2>4, <1>1, GoesOn
      <3>3. HandlerOK(h)'
        BY <3>1, <3>2, <2>1 DEF Becomes, HandlerOK, Serving
      <3> QED
        BY <3>2, <3>3, <2>1, Reads, OneSteps DEF Becomes
    <2> QED
      BY <2>2, <2>3, <2>4, <1>1, <1>3 DEF Resolve
  <1>4. CASE Backfill(h)
    <2>1. role' = [role EXCEPT ![w][owner[w]] = "owner"] /\ Goto(h, "check")
          /\ UNCHANGED <<user, owner, invite, session, index, meta, spent>>
      BY <1>1, <1>4 DEF Backfill
    <2>2. Later /\ RecordsOK'
      BY <2>1, <1>2, Promoted
    <2>3. Becomes(h, [at |-> "check", u |-> u, w |-> w, arg |-> handler[h].arg])
      BY <2>1, <1>1, GoesOn
    <2>4. role'[w][u] # "none"
      BY <2>1, <1>1, <1>2 DEF SpacesInv, RecordsOK, Belongs
    <2>5. HandlerOK(h)'
      BY <2>3, <2>4 DEF Becomes, HandlerOK, Serving
    <2> QED
      BY <2>2, <2>3, <2>5, OneSteps DEF Becomes
  <1> QED
    BY <1>3, <1>4

LEMMA CheckKeeps ==
    ASSUME SpacesInv, NEW h \in Handlers, Check(h) \/ AskRole(h)
    PROVE  SpacesInv'
  <1>1. UNCHANGED <<user, owner, role, invite, session, index, meta, spent>>
    BY DEF Check, AskRole
  <1>2. PICK u \in Users, w \in Spaces : u = handler[h].u /\ w = handler[h].w /\ Belongs(u, w)
    BY DEF SpacesInv, HandlerOK, Check, AskRole, Is, Serving, Belongs
  <1>3. CASE Done(h)
    BY <1>1, <1>3, IsDone, EndsWell, Reads
  <1>4. CASE \E where \in {"createKey", "askRole", "createInvite", "revokeInvite"} : Goto(h, where)
    BY <1>1, <1>2, <1>4, MemberGoesOn
  <1>5. CASE Goto(h, "revokeKey") /\ handler[h].arg \in Keys \X {"revokeKey"}
    <2>1. Becomes(h, [at |-> "revokeKey", u |-> u, w |-> w, arg |-> handler[h].arg])
      BY <1>2, <1>5, GoesOn
    <2>2. HandlerOK(h)'
      BY <1>1, <1>2, <1>5, <2>1 DEF Becomes, HandlerOK, Serving, Belongs
    <2> QED
      BY <2>1, <2>2, <1>1, Reads, OneSteps DEF Becomes
  <1>6. CASE Check(h)
    <2>1. role[w][u] # "none"
      BY <1>2, <1>6 DEF SpacesInv, HandlerOK, Check, Is
    <2> QED
      BY <2>1, <1>2, <1>3, <1>4, <1>5, <1>6 DEF Check
  <1>7. CASE AskRole(h)
    BY <1>3, <1>4, <1>7 DEF AskRole
  <1> QED
    BY <1>6, <1>7

LEMMA InvitesKeep ==
    ASSUME SpacesInv, NEW h \in Handlers, CreateInvite(h) \/ RevokeInvite(h)
    PROVE  SpacesInv'
  <1>1. PICK u \in Users, w \in Spaces : u = handler[h].u /\ w = handler[h].w /\ Belongs(u, w)
    BY DEF SpacesInv, HandlerOK, CreateInvite, RevokeInvite, Is, Serving
  <1>2. owner[w] \in Users
    BY <1>1 DEF SpacesInv, RecordsOK, Belongs
  <1>3. UNCHANGED <<user, owner, role, session, index, meta>> /\ spent \subseteq spent' /\ Done(h)
    BY DEF CreateInvite, RevokeInvite
  <1>4. Later
    BY <1>3 DEF Later
  <1>5. CASE CreateInvite(h)
    <2>1. PICK t \in Tokens : invite' = [invite EXCEPT ![t] = w]
      BY <1>1, <1>5 DEF CreateInvite
    <2>2. RecordsOK'
      BY <2>1, <1>2, <1>3 DEF SpacesInv, RecordsOK, Belongs
    <2> QED
      BY <2>2, <1>3, <1>4, IsDone, EndsWell
  <1>6. CASE RevokeInvite(h)
    <2>1. RecordsOK'
      BY <1>3, <1>6 DEF RevokeInvite, SpacesInv, RecordsOK, Belongs
    <2> QED
      BY <2>1, <1>3, <1>4, IsDone, EndsWell
  <1> QED
    BY <1>5, <1>6

LEMMA RevokeKeyKeeps ==
    ASSUME SpacesInv, NEW h \in Handlers, RevokeKey(h)
    PROVE  SpacesInv'
  <1>1. PICK u \in Users, w \in Spaces, k \in Keys : u = handler[h].u /\ w = handler[h].w /\ k = handler[h].arg[1]
    BY DEF SpacesInv, HandlerOK, RevokeKey, Is, Serving
  <1>2. UNCHANGED <<user, owner, role, invite, session, spent>>
    BY DEF RevokeKey
  <1>3. CASE Is(h, "revokeKey")
    <2>1. UNCHANGED <<index, meta>>
      BY <1>3 DEF RevokeKey, Is
    <2>2. CASE Done(h)
      BY <1>2, <2>1, <2>2, IsDone, EndsWell, Reads
    <2>3. CASE Goto(h, "dropIndex") /\ meta[k] = w
      <3>1. k \in spent
        BY <2>3, SpacesAssumption DEF SpacesInv, RecordsOK
      <3>2. Becomes(h, [at |-> "dropIndex", u |-> u, w |-> w, arg |-> handler[h].arg])
        BY <1>1, <2>3, GoesOn
      <3>3. HandlerOK(h)'
        BY <1>1, <1>2, <3>1, <3>2 DEF Becomes, HandlerOK, Serving
      <3> QED
        BY <3>2, <3>3, <1>2, <2>1, Reads, OneSteps DEF Becomes
    <2> QED
      BY <1>1, <1>3, <2>2, <2>3 DEF RevokeKey, Is
  <1>4. CASE Is(h, "dropIndex")
    <2>1. index' = [index EXCEPT ![k] = 0] /\ meta' = meta /\ Goto(h, "dropMeta")
      BY <1>1, <1>4 DEF RevokeKey, Is
    <2>2. k \in spent
      BY <1>1, <1>4 DEF SpacesInv, HandlerOK, Is
    <2>3. Becomes(h, [at |-> "dropMeta", u |-> u, w |-> w, arg |-> handler[h].arg])
      BY <1>1, <2>1, GoesOn
    <2>4. Later /\ RecordsOK'
      BY <1>2, <2>1 DEF Later, SpacesInv, RecordsOK, Belongs
    <2>5. index'[k] = 0
      BY <2>1 DEF SpacesInv, RecordsOK
    <2>6. HandlerOK(h)'
      BY <1>1, <1>2, <2>2, <2>3, <2>5 DEF Becomes, HandlerOK, Serving
    <2> QED
      BY <2>3, <2>4, <2>6, OneSteps DEF Becomes
  <1>5. CASE Is(h, "dropMeta")
    <2>1. meta' = [meta EXCEPT ![k] = 0] /\ index' = index /\ Done(h)
      BY <1>1, <1>5 DEF RevokeKey, Is
    <2>2. index[k] = 0
      BY <1>1, <1>5 DEF SpacesInv, HandlerOK, Is
    <2>3. Later /\ RecordsOK'
      BY <1>2, <2>1, <2>2 DEF Later, SpacesInv, RecordsOK, Belongs
    <2> QED
      BY <2>1, <2>3, IsDone, EndsWell
  <1> QED
    BY <1>3, <1>4, <1>5 DEF RevokeKey

-----------------------------------------------------------------------------
(* Logouts, expired invites, restarts *)

LEMMA LossKeeps ==
    ASSUME SpacesInv, (\E h \in Handlers : Logout(h)) \/ ExpireInvite \/ RestartServer
    PROVE  SpacesInv'
  <1>1. /\ UNCHANGED <<user, owner, role, index, meta, spent>>
        /\ session' \subseteq session
        /\ invite' = invite \/ \E t \in Tokens : invite' = [invite EXCEPT ![t] = 0]
    BY DEF Logout, ExpireInvite, RestartServer
  <1>2. Later
    BY <1>1 DEF Later
  <1>3. RecordsOK'
    BY <1>1 DEF SpacesInv, RecordsOK, Belongs
  <1>4. CASE handler' = handler
    <2>1. \A h \in Handlers : HandlerOK(h)'
      BY <1>2, <1>4, OthersKeep DEF SpacesInv
    <2> QED
      BY <2>1, <1>3, <1>4 DEF SpacesInv
  <1>5. CASE RestartServer
    BY <1>3, <1>5 DEF RestartServer, SpacesInv, HandlerOK, Free, Serving
  <1> QED
    BY <1>4, <1>5 DEF Logout, ExpireInvite

LEMMA SpacesStep == SpacesInv /\ [SpacesNext]_spaceVars => SpacesInv'
  <1> SUFFICES ASSUME SpacesInv, [SpacesNext]_spaceVars PROVE SpacesInv'
    OBVIOUS
  <1>1. CASE UNCHANGED spaceVars
    <2>1. RecordsOK'
      BY <1>1, Reads DEF spaceVars
    <2>2. handler' = handler /\ owner' = owner /\ role' = role /\ index' = index /\ spent' = spent
      BY <1>1 DEF spaceVars
    <2>3. \A h \in Handlers : HandlerOK(h)'
      BY <2>2 DEF SpacesInv, HandlerOK, Belongs
    <2> QED
      BY <2>1, <2>2, <2>3 DEF SpacesInv
  <1>2. CASE SpacesNext
    BY <1>2, LoginKeeps, ReadUserKeeps, CreateSpaceKeeps, AddOwnerKeeps, ReadInviteKeeps, AddMemberKeeps,
       NoteSpaceKeeps, SpendInviteKeeps, SaveSessionKeeps, KeysKeep, EnterKeeps, ResolveKeeps, CheckKeeps,
       InvitesKeep, RevokeKeyKeeps, LossKeeps DEF SpacesNext
  <1> QED
    BY <1>1, <1>2

\* Whoever logs in, joins, revokes or is cut off, in any number: a session
\* that was given out is never refused, and a user's workspaces are ones he
\* owns or is a member of (workspace_auth.py).
THEOREM GetIn == SpacesSpec => []MembersGetIn
  <1>1. SpacesInv => MembersGetIn
    BY DEF SpacesInv, RecordsOK, HandlerOK, Serving, Belongs, Is, MembersGetIn, SessionsAreHonoured, HomesAreOpen
  <1> QED
    BY <1>1, SpacesStart, SpacesStep, PTL DEF SpacesSpec

\* Wherever a creation or a revocation is cut off, a key that works is one the
\* workspace lists (workspace_auth.py, create_api_key() and revoke_api_key()).
THEOREM KeysAreListed == SpacesSpec => []WorkingKeysAreListed
  <1>1. SpacesInv => WorkingKeysAreListed
    BY DEF SpacesInv, RecordsOK, WorkingKeysAreListed
  <1> QED
    BY <1>1, SpacesStart, SpacesStep, PTL DEF SpacesSpec

-----------------------------------------------------------------------------
(* The ticket *)

OpenerTypes == opener \in [Openers -> [at : {"new", "get", "delete", "open", "refused"}, after : BOOLEAN]]

\* A ticket that opened a websocket is gone for good; who came after it has
\* not seen it.
TicketInv ==
    /\ OpenerTypes
    /\ \A o \in Openers : opener[o].at = "open" => ticket = "gone"
    /\ \A o \in Openers : opener[o].after => ticket = "gone" /\ opener[o].at \in {"get", "refused"}

LEMMA TicketInit == GateInit => TicketInv
  BY DEF GateInit, TicketInv, OpenerTypes

LEMMA TicketStep == TicketInv /\ [GateNext]_gateVars => TicketInv'
  <1> SUFFICES ASSUME TicketInv, [GateNext]_gateVars PROVE TicketInv'
    OBVIOUS
  <1> USE DEF TicketInv, OpenerTypes
  <1>1. ASSUME NEW o \in Openers, Present(o) PROVE TicketInv'
    BY <1>1 DEF Present
  <1>2. ASSUME NEW o \in Openers, GetTicket(o) PROVE TicketInv'
    BY <1>2 DEF GetTicket
  <1>3. ASSUME NEW o \in Openers, DeleteTicket(o) PROVE TicketInv'
    BY <1>3 DEF DeleteTicket
  <1>4. CASE CreateTicket \/ TicketExpires
    BY <1>4 DEF CreateTicket, TicketExpires
  <1>5. CASE RestartGate
    BY <1>5 DEF RestartGate
  <1>6. CASE UNCHANGED <<ticket, opener>>
    BY <1>6
  <1>7. ASSUME NEW c \in Calls, Arrive(c) \/ Incr(c) \/ Expire(c) PROVE UNCHANGED <<ticket, opener>>
    BY <1>7 DEF Arrive, Incr, Expire
  <1>8. ASSUME NEW m \in Minutes, BucketGone(m) PROVE UNCHANGED <<ticket, opener>>
    BY <1>8 DEF BucketGone
  <1>9. NextMinute \/ UNCHANGED gateVars => UNCHANGED <<ticket, opener>>
    BY DEF NextMinute, gateVars
  <1> QED
    BY <1>1, <1>2, <1>3, <1>4, <1>5, <1>6, <1>7, <1>8, <1>9 DEF GateNext

-----------------------------------------------------------------------------
(* The buckets *)

Answered == {"limited", "admitted", "lost"}
\* The bucket of a minute that is over, once everybody who looked it up is done.
Over(m, time, calls) == m < time /\ \A c \in Calls : calls[c].bucket = m => calls[c].at \in Answered

CallTypes ==
    /\ minute \in Minutes
    /\ count \in [Minutes -> Nat]
    /\ expiring \subseteq Minutes
    /\ call \in [Calls -> [at : {"new", "count", "expire"} \cup Answered, bucket : Minutes \cup {0}, n : Nat]]
    /\ \A c \in Calls : /\ call[c].at = "new" => call[c].bucket = 0
                        /\ call[c].at # "new" => call[c].bucket \in Minutes
                        /\ call[c].at \in {"new", "count"} => call[c].n = 0
                        /\ call[c].at \in {"expire", "limited", "admitted"} => call[c].n # 0

\* The requests of a bucket are numbered from one to its count, each number
\* once; when the bucket is over and gone, the numbers stay.
Numbered ==
    /\ \A c, d \in Calls :
          call[c].bucket = call[d].bucket /\ call[c].n = call[d].n /\ call[c].n # 0 => c = d
    /\ \A c \in Calls : call[c].n # 0 => call[c].n <= count[call[c].bucket] \/ Over(call[c].bucket, minute, call)
    /\ \A m \in Minutes : \A k \in 1..count[m] : \E c \in Calls : call[c].bucket = m /\ call[c].n = k
    /\ \A c \in Calls : \A k \in 1..call[c].n :
          \E d \in Calls : call[d].bucket = call[c].bucket /\ call[d].n = k

\* Who is admitted has a number within the limit; who was first set the TTL.
Judged ==
    /\ \A c \in Calls : /\ call[c].at = "admitted" => call[c].n <= RateLimit
                        /\ call[c].at = "limited" => call[c].n > RateLimit
    /\ \A c \in Calls : call[c].n = 1 /\ call[c].at \in {"limited", "admitted"} =>
          \/ call[c].bucket \in expiring
          \/ Over(call[c].bucket, minute, call) /\ count[call[c].bucket] = 0

BucketInv == CallTypes /\ Numbered /\ Judged

LEMMA BucketInit == GateInit => BucketInv
  BY GateAssumption DEF GateInit, NoCall, BucketInv, CallTypes, Numbered, Judged, Answered

LEMMA ArriveKeeps == ASSUME BucketInv, NEW c \in Calls, Arrive(c) PROVE BucketInv'
  <1> USE GateAssumption DEF BucketInv, CallTypes, Numbered, Judged, Answered, Over, Arrive, Calling
  <1>1. call' = [call EXCEPT ![c] = [at |-> "count", bucket |-> minute, n |-> 0]]
    OBVIOUS
  <1>2. CallTypes'
    BY <1>1
  <1>3. Numbered'
    BY <1>1
  <1>4. Judged'
    BY <1>1
  <1> QED
    BY <1>2, <1>3, <1>4

LEMMA IncrKeeps == ASSUME BucketInv, NEW c \in Calls, Incr(c) PROVE BucketInv'
  <1> DEFINE m == call[c].bucket
             n == count[m] + 1
  <1>1. m \in Minutes /\ call[c].n = 0 /\ ~Over(m, minute, call) /\ call[c].at = "count"
    BY DEF BucketInv, CallTypes, Incr, Calling, Over, Answered
  <1>2. /\ call' = [call EXCEPT ![c] = [at |-> "expire", bucket |-> m, n |-> n]]
        /\ count' = [count EXCEPT ![m] = n]
        /\ UNCHANGED <<minute, expiring>>
        /\ n \in Nat \ {0}
    BY <1>1 DEF BucketInv, CallTypes, Incr
  <1>3. CallTypes'
    BY <1>1, <1>2 DEF BucketInv, CallTypes, Answered
  <1>4. \A d \in Calls : d # c => call'[d] = call[d]
    BY <1>2 DEF BucketInv, CallTypes
  <1>5. call'[c] = [at |-> "expire", bucket |-> m, n |-> n]
    BY <1>2 DEF BucketInv, CallTypes
  <1>6. \A x \in Minutes : Over(x, minute, call) => Over(x, minute', call') /\ x # m
    BY <1>1, <1>2, <1>4 DEF Over
  <1>7. Numbered'
    <2>1. \A d, e \in Calls : call'[d].bucket = call'[e].bucket /\ call'[d].n = call'[e].n /\ call'[d].n # 0 => d = e
      <3>1. \A d \in Calls : call[d].bucket = m /\ call[d].n # 0 => call[d].n < n
        BY <1>1, <1>2 DEF BucketInv, CallTypes, Numbered
      <3> QED
        BY <3>1, <1>2, <1>4, <1>5 DEF BucketInv, CallTypes, Numbered
    <2>2. \A d \in Calls : call'[d].n # 0 => call'[d].n <= count'[call'[d].bucket] \/ Over(call'[d].bucket, minute', call')
      <3> SUFFICES ASSUME NEW d \in Calls, call'[d].n # 0
                   PROVE  call'[d].n <= count'[call'[d].bucket] \/ Over(call'[d].bucket, minute', call')
        OBVIOUS
      <3>1. CASE d = c
        BY <3>1, <1>1, <1>2, <1>5 DEF BucketInv, CallTypes
      <3>2. CASE d # c
        <4>1. call'[d] = call[d] /\ call[d].bucket \in Minutes
          BY <3>2, <1>4 DEF BucketInv, CallTypes, Answered
        <4>2. count'[call[d].bucket] >= count[call[d].bucket]
          BY <4>1, <1>1, <1>2 DEF BucketInv, CallTypes
        <4>3. call[d].n <= count[call[d].bucket] \/ Over(call[d].bucket, minute, call)
          BY <4>1 DEF BucketInv, Numbered
        <4>4. count[call[d].bucket] \in Nat /\ count'[call[d].bucket] \in Nat /\ call[d].n \in Nat
          BY <4>1, <1>1, <1>2 DEF BucketInv, CallTypes
        <4> HIDE DEF m, n
        <4>5. CASE call[d].n <= count[call[d].bucket]
          BY <4>1, <4>2, <4>4, <4>5
        <4>6. CASE Over(call[d].bucket, minute, call)
          BY <4>1, <4>6, <1>6
        <4> QED
          BY <4>3, <4>5, <4>6
      <3> QED
        BY <3>1, <3>2
    <2>3. \A x \in Minutes : \A k \in 1..count'[x] : \E d \in Calls : call'[d].bucket = x /\ call'[d].n = k
      <3> SUFFICES ASSUME NEW x \in Minutes, NEW k \in 1..count'[x]
                   PROVE  \E d \in Calls : call'[d].bucket = x /\ call'[d].n = k
        OBVIOUS
      <3>1. CASE x = m /\ k = n
        BY <3>1, <1>5
      <3>2. CASE ~(x = m /\ k = n)
        <4>1. k \in 1..count[x]
          BY <3>2, <1>1, <1>2 DEF BucketInv, CallTypes
        <4>2. PICK d \in Calls : call[d].bucket = x /\ call[d].n = k
          BY <4>1 DEF BucketInv, Numbered
        <4>3. d # c
          BY <4>1, <4>2, <1>1
        <4> QED
          BY <4>2, <4>3, <1>4
      <3> QED
        BY <3>1, <3>2
    <2>4. \A d \in Calls : \A k \in 1..call'[d].n : \E e \in Calls : call'[e].bucket = call'[d].bucket /\ call'[e].n = k
      <3> SUFFICES ASSUME NEW d \in Calls, NEW k \in 1..call'[d].n
                   PROVE  \E e \in Calls : call'[e].bucket = call'[d].bucket /\ call'[e].n = k
        OBVIOUS
      <3>1. CASE d = c
        <4>1. k \in 1..count'[m]
          BY <3>1, <1>1, <1>2, <1>5 DEF BucketInv, CallTypes
        <4> QED
          BY <4>1, <2>3, <1>1, <1>5, <3>1
      <3>2. CASE d # c
        <4>1. PICK e \in Calls : call[e].bucket = call[d].bucket /\ call[e].n = k
          BY <3>2, <1>4 DEF BucketInv, Numbered
        <4>2. e # c
          BY <4>1, <1>1
        <4> QED
          BY <4>1, <4>2, <3>2, <1>4
      <3> QED
        BY <3>1, <3>2
    <2> QED
      BY <2>1, <2>2, <2>3, <2>4 DEF Numbered
  <1>8. Judged'
    <2>1. \A d \in Calls : /\ call'[d].at = "admitted" => call'[d].n <= RateLimit
                           /\ call'[d].at = "limited" => call'[d].n > RateLimit
      BY <1>4, <1>5 DEF BucketInv, Judged
    <2>2. ASSUME NEW d \in Calls, call'[d].n = 1, call'[d].at \in {"limited", "admitted"}
          PROVE  \/ call'[d].bucket \in expiring'
                 \/ Over(call'[d].bucket, minute', call') /\ count'[call'[d].bucket] = 0
      <3>1. d # c /\ call'[d] = call[d] /\ call[d].bucket \in Minutes
        BY <2>2, <1>4, <1>5 DEF BucketInv, CallTypes
      <3>2. call[d].bucket \in expiring \/ (Over(call[d].bucket, minute, call) /\ count[call[d].bucket] = 0)
        BY <2>2, <3>1 DEF BucketInv, Judged
      <3> QED
        BY <3>1, <3>2, <1>2, <1>6 DEF BucketInv, CallTypes
    <2> QED
      BY <2>1, <2>2 DEF Judged
  <1> QED
    BY <1>3, <1>7, <1>8 DEF BucketInv

\* A step that counts nothing leaves the numbers as they are.
LEMMA NumbersStay ==
    ASSUME CallTypes, Numbered, count' = count,
           \A d \in Calls : call'[d].bucket = call[d].bucket /\ call'[d].n = call[d].n,
           \A x \in Minutes : Over(x, minute, call) => Over(x, minute', call')
    PROVE  Numbered'
  <1>1. \A d \in Calls : call[d].n # 0 => call[d].bucket \in Minutes
    BY DEF CallTypes
  <1>2. \A c, d \in Calls : call'[c].bucket = call'[d].bucket /\ call'[c].n = call'[d].n /\ call'[c].n # 0 => c = d
    BY DEF Numbered
  <1>3. \A d \in Calls : call'[d].n # 0 => call'[d].n <= count'[call'[d].bucket] \/ Over(call'[d].bucket, minute', call')
    BY <1>1 DEF Numbered
  <1>4. \A m \in Minutes : \A k \in 1..count'[m] : \E c \in Calls : call'[c].bucket = m /\ call'[c].n = k
    <2> SUFFICES ASSUME NEW m \in Minutes, NEW k \in 1..count[m]
                 PROVE  \E c \in Calls : call'[c].bucket = m /\ call'[c].n = k
      OBVIOUS
    <2>1. PICK c \in Calls : call[c].bucket = m /\ call[c].n = k
      BY DEF Numbered
    <2> QED
      BY <2>1
  <1>5. \A c \in Calls : \A k \in 1..call'[c].n : \E d \in Calls : call'[d].bucket = call'[c].bucket /\ call'[d].n = k
    <2> SUFFICES ASSUME NEW c \in Calls, NEW k \in 1..call[c].n
                 PROVE  \E d \in Calls : call'[d].bucket = call[c].bucket /\ call'[d].n = k
      OBVIOUS
    <2>1. PICK d \in Calls : call[d].bucket = call[c].bucket /\ call[d].n = k
      BY DEF Numbered
    <2> QED
      BY <2>1
  <1> QED
    BY <1>2, <1>3, <1>4, <1>5 DEF Numbered

LEMMA ExpireKeeps == ASSUME BucketInv, NEW c \in Calls, Expire(c) PROVE BucketInv'
  <1> USE GateAssumption DEF BucketInv, CallTypes, Answered, Expire, Calling
  <1>1. PICK to \in {"limited", "admitted"} :
            /\ call' = [call EXCEPT ![c].at = to]
            /\ to = "admitted" => call[c].n <= RateLimit
            /\ to = "limited" => call[c].n > RateLimit
    <2> DEFINE to == IF call[c].n > RateLimit THEN "limited" ELSE "admitted"
    <2>1. call' = [call EXCEPT ![c].at = to]
      OBVIOUS
    <2>2. /\ to \in {"limited", "admitted"}
          /\ to = "admitted" => call[c].n <= RateLimit
          /\ to = "limited" => call[c].n > RateLimit
      OBVIOUS
    <2> QED
      BY <2>1, <2>2
  <1>2. /\ UNCHANGED <<minute, count>>
        /\ expiring \subseteq expiring'
        /\ call[c].n = 1 => call[c].bucket \in expiring'
        /\ expiring' \subseteq Minutes
    OBVIOUS
  <1>3. CallTypes'
    BY <1>1, <1>2
  <1>4. \A d \in Calls : /\ call'[d].bucket = call[d].bucket /\ call'[d].n = call[d].n
                         /\ d # c => call'[d].at = call[d].at
                         /\ call[d].at \in Answered => d # c
    BY <1>1
  <1>5. \A x \in Minutes : Over(x, minute, call) => Over(x, minute', call')
    BY <1>2, <1>4 DEF Over
  <1>6. Numbered'
    BY <1>2, <1>4, <1>5, NumbersStay
  <1>7. Judged'
    <2>1. \A d \in Calls : /\ call'[d].at = "admitted" => call'[d].n <= RateLimit
                           /\ call'[d].at = "limited" => call'[d].n > RateLimit
      BY <1>1, <1>4 DEF Judged
    <2>2. ASSUME NEW d \in Calls, call'[d].n = 1, call'[d].at \in {"limited", "admitted"}
          PROVE  \/ call'[d].bucket \in expiring'
                 \/ Over(call'[d].bucket, minute', call') /\ count'[call'[d].bucket] = 0
      <3>1. CASE d = c
        BY <3>1, <2>2, <1>2, <1>4
      <3>2. CASE d # c
        <4>1. call'[d] = call[d] /\ call[d].bucket \in Minutes
          BY <3>2, <2>2, <1>1
        <4>2. call[d].bucket \in expiring \/ (Over(call[d].bucket, minute, call) /\ count[call[d].bucket] = 0)
          BY <2>2, <4>1 DEF Judged
        <4> QED
          BY <4>1, <4>2, <1>2, <1>5
      <3> QED
        BY <3>1, <3>2
    <2> QED
      BY <2>1, <2>2 DEF Judged
  <1> QED
    BY <1>3, <1>6, <1>7

LEMMA GoneKeeps == ASSUME BucketInv, NEW m \in Minutes, BucketGone(m) PROVE BucketInv'
  <1> USE GateAssumption DEF BucketInv, CallTypes, Answered, BucketGone
  <1>1. /\ UNCHANGED <<minute, call>> /\ count' = [count EXCEPT ![m] = 0]
        /\ expiring' = expiring \ {m} /\ Over(m, minute, call)
    BY DEF Over
  <1>2. CallTypes'
    BY <1>1
  <1>3. \A x : Over(x, minute', call') = Over(x, minute, call)
    BY <1>1 DEF Over
  <1>4. Numbered'
    BY <1>1, <1>3 DEF Numbered
  <1>5. Judged'
    BY <1>1, <1>3 DEF Judged
  <1> QED
    BY <1>2, <1>4, <1>5

LEMMA ClockKeeps == ASSUME BucketInv, NextMinute PROVE BucketInv'
  <1> USE GateAssumption DEF BucketInv, CallTypes, Answered, NextMinute
  <1>1. UNCHANGED <<count, expiring, call>> /\ minute' = minute + 1
    OBVIOUS
  <1>2. \A x \in Minutes : Over(x, minute, call) => Over(x, minute', call')
    BY <1>1 DEF Over
  <1>3. CallTypes'
    BY <1>1
  <1>4. Numbered'
    BY <1>1, <1>2, NumbersStay
  <1>5. Judged'
    BY <1>1, <1>2 DEF Judged
  <1> QED
    BY <1>3, <1>4, <1>5

LEMMA RestartKeeps == ASSUME BucketInv, RestartGate PROVE BucketInv'
  <1> USE GateAssumption DEF BucketInv, CallTypes, Answered, RestartGate
  <1>1. UNCHANGED <<minute, count, expiring>>
    OBVIOUS
  <1>2. \A d \in Calls : /\ call'[d].bucket = call[d].bucket /\ call'[d].n = call[d].n
                         /\ call'[d].at = call[d].at \/ call'[d].at = "lost"
                         /\ call[d].at \in Answered => call'[d].at \in Answered
    OBVIOUS
  <1>3. CallTypes'
    OBVIOUS
  <1>4. \A x \in Minutes : Over(x, minute, call) => Over(x, minute', call')
    BY <1>1, <1>2 DEF Over
  <1>5. Numbered'
    BY <1>1, <1>2, <1>4, NumbersStay
  <1>6. Judged'
    BY <1>1, <1>2, <1>4 DEF Judged
  <1> QED
    BY <1>3, <1>5, <1>6

LEMMA BucketStep == BucketInv /\ [GateNext]_gateVars => BucketInv'
  <1> SUFFICES ASSUME BucketInv, [GateNext]_gateVars PROVE BucketInv'
    OBVIOUS
  <1>1. CASE UNCHANGED <<minute, count, expiring, call>>
    BY <1>1 DEF BucketInv, CallTypes, Numbered, Judged, Over
  <1>2. ASSUME NEW o \in Openers, Present(o) \/ GetTicket(o) \/ DeleteTicket(o)
        PROVE  UNCHANGED <<minute, count, expiring, call>>
    BY <1>2 DEF Present, GetTicket, DeleteTicket
  <1>3. CreateTicket \/ TicketExpires \/ UNCHANGED gateVars => UNCHANGED <<minute, count, expiring, call>>
    BY DEF CreateTicket, TicketExpires, gateVars
  <1> QED
    BY <1>1, <1>2, <1>3, ArriveKeeps, IncrKeeps, ExpireKeeps, GoneKeeps, ClockKeeps, RestartKeeps DEF GateNext

\* The numbers of the requests a bucket admitted are different numbers up to
\* the limit, and one that is limited comes after all of them.
LEMMA BucketsLimit == BucketInv => AdmittedWithinLimit
  <1> SUFFICES ASSUME BucketInv, NEW m \in Minutes
               PROVE  /\ Cardinality(Admitted(m)) <= RateLimit
                      /\ \A c \in Calls : Calling(c, "limited") /\ call[c].bucket = m
                            => Cardinality({d \in Calls : call[d].bucket = m /\ call[d].n \in 1..RateLimit}) = RateLimit
    BY DEF AdmittedWithinLimit
  <1> USE GateAssumption
  <1>1. IsFiniteSet(1..RateLimit) /\ Cardinality(1..RateLimit) = RateLimit
    BY FS_Interval
  <1>2. Cardinality(Admitted(m)) <= RateLimit
    <2> DEFINE f == [c \in Admitted(m) |-> call[c].n]
    <2>1. f \in Injection(Admitted(m), 1..RateLimit)
      BY DEF BucketInv, CallTypes, Numbered, Judged, Admitted, Calling, Injection, IsInjective
    <2> QED
      BY <2>1, <1>1, FS_Injection
  <1>3. ASSUME NEW c \in Calls, Calling(c, "limited"), call[c].bucket = m
        PROVE  Cardinality({d \in Calls : call[d].bucket = m /\ call[d].n \in 1..RateLimit}) = RateLimit
    <2> DEFINE S == {d \in Calls : call[d].bucket = m /\ call[d].n \in 1..RateLimit}
               f == [d \in S |-> call[d].n]
    <2>1. f \in Injection(S, 1..RateLimit)
      BY DEF BucketInv, CallTypes, Numbered, Injection, IsInjective
    <2>2. \A k \in 1..RateLimit : \E d \in S : f[d] = k
      <3> SUFFICES ASSUME NEW k \in 1..RateLimit PROVE \E d \in S : f[d] = k
        OBVIOUS
      <3>1. k \in 1..call[c].n
        BY <1>3 DEF BucketInv, CallTypes, Judged, Calling
      <3>2. PICK d \in Calls : call[d].bucket = m /\ call[d].n = k
        BY <3>1, <1>3 DEF BucketInv, Numbered
      <3> QED
        BY <3>2
    <2>3. f \in Bijection(S, 1..RateLimit)
      BY <2>1, <2>2 DEF Bijection, Surjection, Injection
    <2>4. IsFiniteSet(S)
      BY FS_Subset
    <2>5. f \in Surjection(S, 1..RateLimit)
      BY <2>3 DEF Bijection
    <2> QED
      BY <2>1, <2>4, <2>5, <1>1, FS_Injection
  <1> QED
    BY <1>2, <1>3

\* However many requests, handshakes, minutes and restarts: no minute admits
\* more than the limit, a bucket without a TTL is one whose first request was
\* cut off, and a used ticket opens no websocket for a handshake that begins
\* later (deps.py, _rate_limit_ingest() and _verify_ws_ticket_async()).
THEOREM GateHolds == GateSpec => []GateIsTight
  <1>1. BucketInv => BucketsExpire
    <2> SUFFICES ASSUME BucketInv, NEW m \in Minutes, count[m] > 0, m \notin expiring
                 PROVE  \E c \in Calls : call[c].bucket = m /\ call[c].n = 1 /\ call[c].at \in {"expire", "lost"}
      BY DEF BucketsExpire
    <2>1. PICK c \in Calls : call[c].bucket = m /\ call[c].n = 1
      BY DEF BucketInv, CallTypes, Numbered
    <2>2. call[c].at \notin {"limited", "admitted"}
      BY <2>1 DEF BucketInv, CallTypes, Judged
    <2> QED
      BY <2>1, <2>2 DEF BucketInv, CallTypes, Answered
  <1>2. TicketInv => UsedTicketIsDead
    BY DEF TicketInv, UsedTicketIsDead
  <1>3. BucketInv /\ TicketInv => GateIsTight
    BY <1>1, <1>2, BucketsLimit DEF GateIsTight
  <1> QED
    BY <1>3, TicketInit, TicketStep, BucketInit, BucketStep, PTL DEF GateSpec

-----------------------------------------------------------------------------
(* Payments.  Razorpay's subscription never changes once it is made, so a    *)
(* pending record and a handler that carries its price need only agree with  *)
(* it; that two handlers never share a subscription is not needed.           *)

Deal == [w : Customers, price : Prices]

CheckoutRecord ==
    [at : {"idle", "plan", "subscribe", "pending", "read", "activate", "forget"}, w : Customers \cup {0},
     price : Prices \cup {0}, s : Subscriptions \cup {0}, read : Prices \cup {0}]

BillingTypes ==
    /\ planIds \in [Prices -> Nat]
    /\ planCache \in [Prices -> BOOLEAN]
    /\ made \in [Subscriptions -> Deal \cup {Unset}]
    /\ pending \in [Subscriptions -> Deal \cup {Unset}]
    /\ paid \subseteq Subscriptions
    /\ active \in [Customers -> [s : Subscriptions, price : Prices] \cup {Unset}]
    /\ checkout \in [Checkouts -> CheckoutRecord]

\* What a checkout may rely on at its next call, given the deals and payments.
Relies(c, deals, payments) ==
    /\ c.at \in {"plan", "subscribe", "pending"} => [w |-> c.w, price |-> c.price] \in Deal
    /\ c.at = "pending" => c.s \in Subscriptions /\ deals[c.s] = [w |-> c.w, price |-> c.price]
    /\ c.at \in {"read", "activate", "forget"} => c.s \in payments /\ c.w \in Customers
    /\ c.at = "activate" => c.read \in Prices /\ deals[c.s] = [w |-> c.w, price |-> c.read]

DealInv ==
    /\ BillingTypes
    /\ \A s \in Subscriptions : pending[s] # Unset => made[s] = pending[s]
    /\ \A h \in Checkouts : Relies(checkout[h], made, paid)
    /\ ActiveAsPriced

\* Deals stay as they are, payments stay made.
DealsStay ==
    /\ \A s \in Subscriptions : made[s] # Unset => made'[s] = made[s]
    /\ made' \in [Subscriptions -> Deal \cup {Unset}]
    /\ paid \subseteq paid' /\ paid' \subseteq Subscriptions

LEMMA NotADeal == \A d : (d \in Deal => d # Unset) /\ (d \in [s : Subscriptions, price : Prices] => d # Unset)
  BY BillingAssumption DEF Deal

\* One checkout moves and the subscriptions of workspaces are left alone.
LEMMA DealMade ==
    ASSUME BillingTypes, NEW s \in Subscriptions, NEW w, NEW p, made[s] = [w |-> w, price |-> p],
           w \in Customers, p \in Prices, DealsStay
    PROVE  made'[s] = made[s]
  <1>1. made[s] # Unset
    BY NotADeal DEF Deal
  <1> QED
    BY <1>1 DEF DealsStay

\* One checkout moves.
LEMMA CheckoutMoves ==
    ASSUME DealInv, DealsStay, NEW h \in Checkouts, NEW c \in CheckoutRecord, Relies(c, made', paid'),
           checkout' = [checkout EXCEPT ![h] = c]
    PROVE  /\ checkout' \in [Checkouts -> CheckoutRecord]
           /\ \A k \in Checkouts : Relies(checkout'[k], made', paid')
  <1>1. checkout' \in [Checkouts -> CheckoutRecord]
    BY DEF DealInv, BillingTypes
  <1>2. ASSUME NEW k \in Checkouts, k # h PROVE Relies(checkout[k], made', paid')
    <2>1. Relies(checkout[k], made, paid) /\ checkout[k] \in CheckoutRecord
      BY DEF DealInv, BillingTypes
    <2>2. paid \subseteq Subscriptions /\ paid \subseteq paid'
      BY DEF DealInv, BillingTypes, DealsStay
    <2>3. checkout[k].at = "pending" => made'[checkout[k].s] = made[checkout[k].s]
      BY <2>1, DealMade DEF Relies, DealInv, Deal
    <2>4. checkout[k].at = "activate" => made'[checkout[k].s] = made[checkout[k].s]
      BY <2>1, <2>2, DealMade DEF Relies, DealInv
    <2> QED
      BY <2>1, <2>2, <2>3, <2>4 DEF Relies
  <1>3. ASSUME NEW k \in Checkouts PROVE checkout'[k] = IF k = h THEN c ELSE checkout[k]
    BY DEF DealInv, BillingTypes
  <1> QED
    BY <1>1, <1>2, <1>3

\* What is active stays true while deals and payments stay.
LEMMA ActiveStays ==
    ASSUME DealInv, DealsStay, active' = active
    PROVE  ActiveAsPriced' /\ active' \in [Customers -> [s : Subscriptions, price : Prices] \cup {Unset}]
  <1>1. ASSUME NEW w \in Customers, active[w] # Unset
        PROVE  made'[active[w].s] = made[active[w].s] /\ active[w].s \in paid'
    <2>1. /\ active[w] \in [s : Subscriptions, price : Prices] /\ active[w].s \in paid
          /\ made[active[w].s] = [w |-> w, price |-> active[w].price]
      BY <1>1 DEF DealInv, BillingTypes, ActiveAsPriced
    <2> QED
      BY <2>1, DealMade DEF DealInv, DealsStay
  <1> QED
    BY <1>1 DEF DealInv, BillingTypes, ActiveAsPriced

LEMMA DealStart == BillingInit => DealInv
  BY DEF BillingInit, DealInv, BillingTypes, Relies, CheckoutRecord, Idle_, ActiveAsPriced

LEMMA IdleRelies == Idle_ \in CheckoutRecord /\ \A deals, payments : Relies(Idle_, deals, payments)
  BY DEF Idle_, CheckoutRecord, Relies

\* The calls that leave the deals, the payments and the subscriptions alone.
LEMMA QuietCheckout ==
    ASSUME DealInv, NEW h \in Checkouts, NEW c \in CheckoutRecord, Relies(c, made, paid),
           checkout' = [checkout EXCEPT ![h] = c], UNCHANGED <<made, paid, active, pending>>,
           planIds' \in [Prices -> Nat], planCache' \in [Prices -> BOOLEAN]
    PROVE  DealInv'
  <1>1. DealsStay
    BY DEF DealInv, BillingTypes, DealsStay
  <1>2. Relies(c, made', paid')
    OBVIOUS
  <1> QED
    BY <1>1, <1>2, CheckoutMoves, ActiveStays DEF DealInv, BillingTypes

LEMMA SubscribeKeeps == ASSUME DealInv, NEW h \in Checkouts, Subscribe(h) PROVE DealInv'
  <1>1. PICK w \in Customers, p \in Prices :
          checkout' = [checkout EXCEPT ![h] = [Idle_ EXCEPT !.at = IF planCache[p] THEN "subscribe" ELSE "plan",
                                                            !.w = w, !.price = p]]
    BY DEF Subscribe
  <1> DEFINE c == [Idle_ EXCEPT !.at = IF planCache[p] THEN "subscribe" ELSE "plan", !.w = w, !.price = p]
  <1>2. checkout' = [checkout EXCEPT ![h] = c]
    BY <1>1
  <1>3. c \in CheckoutRecord /\ Relies(c, made, paid)
    BY DEF CheckoutRecord, Relies, Deal, Idle_
  <1> HIDE DEF c
  <1> QED
    BY <1>2, <1>3, QuietCheckout DEF Subscribe, DealInv, BillingTypes

LEMMA MakePlanKeeps == ASSUME DealInv, NEW h \in Checkouts, MakePlan(h) PROVE DealInv'
  <1> DEFINE c == [checkout[h] EXCEPT !.at = "subscribe"]
  <1>1. checkout' = [checkout EXCEPT ![h] = c]
    BY DEF MakePlan, GoOn
  <1>2. c \in CheckoutRecord /\ Relies(c, made, paid)
    <2>1. checkout[h].at = "plan" /\ checkout[h] \in CheckoutRecord /\ Relies(checkout[h], made, paid)
      BY DEF MakePlan, Step, DealInv, BillingTypes
    <2>2. c \in CheckoutRecord /\ c.at = "subscribe" /\ c.w = checkout[h].w /\ c.price = checkout[h].price
      BY <2>1 DEF CheckoutRecord
    <2> QED
      BY <2>1, <2>2 DEF Relies
  <1>3. planIds' \in [Prices -> Nat]
    <2>1. checkout[h].price \in Prices
      BY DEF MakePlan, Step, DealInv, Relies, Deal
    <2>2. planIds \in [Prices -> Nat] /\ planIds[checkout[h].price] + 1 \in Nat
      BY <2>1 DEF DealInv, BillingTypes
    <2> QED
      BY <2>2 DEF MakePlan
  <1>4. planCache' \in [Prices -> BOOLEAN]
    BY DEF MakePlan, DealInv, BillingTypes
  <1> HIDE DEF c
  <1> QED
    BY <1>1, <1>2, <1>3, <1>4, QuietCheckout DEF MakePlan

LEMMA MakeSubscriptionKeeps == ASSUME DealInv, NEW h \in Checkouts, MakeSubscription(h) PROVE DealInv'
  <1>1. PICK s \in Subscriptions :
          /\ made[s] = Unset
          /\ made' = [made EXCEPT ![s] = [w |-> checkout[h].w, price |-> checkout[h].price]]
          /\ checkout' = [checkout EXCEPT ![h].at = "pending", ![h].s = s]
    BY DEF MakeSubscription
  <1> DEFINE c == [checkout[h] EXCEPT !.at = "pending", !.s = s]
  <1>2. checkout' = [checkout EXCEPT ![h] = c]
    BY <1>1 DEF DealInv, BillingTypes
  <1>3. [w |-> checkout[h].w, price |-> checkout[h].price] \in Deal
    BY DEF MakeSubscription, Step, DealInv, Relies
  <1>4. DealsStay
    BY <1>1, <1>3 DEF MakeSubscription, DealInv, BillingTypes, DealsStay
  <1>5. c \in CheckoutRecord /\ Relies(c, made', paid')
    <2>1. checkout[h] \in CheckoutRecord /\ made'[s] = [w |-> checkout[h].w, price |-> checkout[h].price]
      BY <1>1 DEF DealInv, BillingTypes
    <2> QED
      BY <1>3, <2>1 DEF CheckoutRecord, Relies
  <1>6. \A r \in Subscriptions : pending'[r] # Unset => made'[r] = pending'[r]
    BY <1>1 DEF MakeSubscription, DealInv, BillingTypes
  <1> HIDE DEF c
  <1>7. BillingTypes'
    BY <1>2, <1>4, <1>5, CheckoutMoves, ActiveStays DEF MakeSubscription, DealInv, BillingTypes, DealsStay
  <1> QED
    BY <1>2, <1>4, <1>5, <1>6, <1>7, CheckoutMoves, ActiveStays DEF MakeSubscription, DealInv

LEMMA CreatePendingKeeps == ASSUME DealInv, NEW h \in Checkouts, CreatePending(h) PROVE DealInv'
  <1> DEFINE c == checkout[h]
  <1>1. /\ c.s \in Subscriptions /\ made[c.s] = [w |-> c.w, price |-> c.price]
        /\ [w |-> c.w, price |-> c.price] \in Deal
    BY DEF CreatePending, Step, DealInv, Relies
  <1>2. DealsStay
    BY DEF CreatePending, DealInv, BillingTypes, DealsStay
  <1>3. pending' \in [Subscriptions -> Deal \cup {Unset}]
    BY <1>1 DEF CreatePending, DealInv, BillingTypes
  <1>4. \A r \in Subscriptions : pending'[r] # Unset => made'[r] = pending'[r]
    BY <1>1 DEF CreatePending, DealInv, BillingTypes
  <1>5. /\ checkout' \in [Checkouts -> CheckoutRecord]
        /\ \A k \in Checkouts : Relies(checkout'[k], made', paid')
    BY <1>2, IdleRelies, CheckoutMoves DEF CreatePending
  <1> QED
    BY <1>2, <1>3, <1>4, <1>5, ActiveStays DEF CreatePending, DealInv, BillingTypes

LEMMA RazorpayFailsKeeps == ASSUME DealInv, NEW h \in Checkouts, RazorpayFails(h) PROVE DealInv'
  BY IdleRelies, QuietCheckout DEF RazorpayFails, DealInv, BillingTypes

LEMMA VerifyKeeps == ASSUME DealInv, NEW h \in Checkouts, Verify(h) PROVE DealInv'
  <1>1. PICK w \in Customers, s \in paid :
          checkout' = [checkout EXCEPT ![h] = [Idle_ EXCEPT !.at = "read", !.w = w, !.s = s]]
    BY DEF Verify
  <1> DEFINE c == [Idle_ EXCEPT !.at = "read", !.w = w, !.s = s]
  <1>2. checkout' = [checkout EXCEPT ![h] = c]
    BY <1>1
  <1>3. c \in CheckoutRecord /\ Relies(c, made, paid)
    BY DEF CheckoutRecord, Relies, DealInv, BillingTypes, Idle_
  <1> HIDE DEF c
  <1> QED
    BY <1>2, <1>3, QuietCheckout DEF Verify, DealInv, BillingTypes

LEMMA ReadPendingKeeps == ASSUME DealInv, NEW h \in Checkouts, ReadPending(h) PROVE DealInv'
  <1> DEFINE c == checkout[h]
             r == [c EXCEPT !.at = "activate", !.read = pending[c.s].price]
  <1>1. c \in CheckoutRecord /\ c.s \in paid /\ c.s \in Subscriptions /\ c.w \in Customers
    BY DEF ReadPending, Step, DealInv, BillingTypes, Relies
  <1>2. CASE pending[c.s] = Unset \/ pending[c.s].w # c.w
    BY <1>2, IdleRelies, QuietCheckout DEF ReadPending, DealInv, BillingTypes
  <1>3. CASE pending[c.s] # Unset /\ pending[c.s].w = c.w
    <2>1. checkout' = [checkout EXCEPT ![h] = r]
      BY <1>3 DEF ReadPending
    <2>2. pending[c.s] \in Deal /\ made[c.s] = pending[c.s]
      BY <1>1, <1>3 DEF DealInv, BillingTypes
    <2>3. pending[c.s].price \in Prices /\ made[c.s] = [w |-> c.w, price |-> pending[c.s].price]
      BY <1>3, <2>2 DEF Deal
    <2>4. r \in CheckoutRecord /\ Relies(r, made, paid)
      BY <1>1, <2>3 DEF CheckoutRecord, Relies
    <2> HIDE DEF r
    <2> QED
      BY <2>1, <2>4, QuietCheckout DEF ReadPending, DealInv, BillingTypes
  <1> QED
    BY <1>2, <1>3

LEMMA ActivateKeeps == ASSUME DealInv, NEW h \in Checkouts, Activate(h) PROVE DealInv'
  <1> DEFINE c == checkout[h]
             r == [c EXCEPT !.at = "forget"]
  <1>1. /\ c \in CheckoutRecord /\ c.s \in paid /\ c.s \in Subscriptions /\ c.w \in Customers
        /\ c.read \in Prices /\ made[c.s] = [w |-> c.w, price |-> c.read]
    BY DEF Activate, Step, DealInv, BillingTypes, Relies
  <1>2. checkout' = [checkout EXCEPT ![h] = r] /\ DealsStay
    BY DEF Activate, GoOn, DealInv, BillingTypes, DealsStay
  <1>3. r \in CheckoutRecord /\ Relies(r, made', paid')
    BY <1>1 DEF Activate, CheckoutRecord, Relies
  <1>4. active' \in [Customers -> [s : Subscriptions, price : Prices] \cup {Unset}]
    BY <1>1 DEF Activate, DealInv, BillingTypes
  <1>5. ActiveAsPriced'
    BY <1>1 DEF Activate, DealInv, BillingTypes, ActiveAsPriced
  <1> HIDE DEF r
  <1> QED
    BY <1>2, <1>3, <1>4, <1>5, CheckoutMoves DEF Activate, DealInv, BillingTypes

LEMMA ForgetPendingKeeps == ASSUME DealInv, NEW h \in Checkouts, ForgetPending(h) PROVE DealInv'
  <1>1. DealsStay
    BY DEF ForgetPending, DealInv, BillingTypes, DealsStay
  <1>2. pending' \in [Subscriptions -> Deal \cup {Unset}]
    BY DEF ForgetPending, DealInv, BillingTypes
  <1>3. \A r \in Subscriptions : pending'[r] # Unset => made'[r] = pending'[r]
    BY DEF ForgetPending, DealInv, BillingTypes
  <1> QED
    BY <1>1, <1>2, <1>3, IdleRelies, CheckoutMoves, ActiveStays DEF ForgetPending, DealInv, BillingTypes

\* The environment: a pending record expires, a customer pays.
LEMMA OutsideKeeps ==
    ASSUME DealInv, NEW s \in Subscriptions, PendingExpires(s) \/ Pay(s)
    PROVE  DealInv'
  <1>1. DealsStay /\ active' = active /\ UNCHANGED <<planIds, planCache, made, checkout>>
    BY DEF PendingExpires, Pay, DealInv, BillingTypes, DealsStay
  <1>2. \A h \in Checkouts : Relies(checkout'[h], made', paid')
    BY <1>1 DEF DealInv, DealsStay, Relies
  <1>3. /\ pending' \in [Subscriptions -> Deal \cup {Unset}]
        /\ \A r \in Subscriptions : pending'[r] # Unset => made'[r] = pending'[r]
    BY <1>1 DEF PendingExpires, Pay, DealInv, BillingTypes
  <1> QED
    BY <1>1, <1>2, <1>3, ActiveStays DEF DealInv, BillingTypes, DealsStay

LEMMA DealStep == DealInv /\ [BillingNext]_billingVars => DealInv'
  <1>1. DealInv /\ UNCHANGED billingVars => DealInv'
    BY DEF billingVars, DealInv, BillingTypes, Relies, ActiveAsPriced
  <1> QED
    BY <1>1, SubscribeKeeps, MakePlanKeeps, MakeSubscriptionKeeps, CreatePendingKeeps, RazorpayFailsKeeps, VerifyKeeps,
       ReadPendingKeeps, ActivateKeeps, ForgetPendingKeeps, OutsideKeeps DEF BillingNext

\* For any customers, checkouts and verifications in any order: what is active
\* was paid for, and was made for that workspace at that price (billing.py,
\* create_subscription() and activate()).
THEOREM PricesHold == BillingSpec => []ActiveAsPriced
  <1>1. DealInv => ActiveAsPriced
    BY DEF DealInv
  <1> QED
    BY <1>1, DealStart, DealStep, PTL DEF BillingSpec

\* Razorpay makes no more plans of a price than checkouts found it uncached.
Planning(p) == {h \in Checkouts : checkout[h].at = "plan" /\ checkout[h].price = p}

PlansInv ==
    \A p \in Prices : IF planCache[p] THEN planIds[p] + Cardinality(Planning(p)) <= Cardinality(Checkouts)
                                      ELSE planIds[p] = 0

LEMMA PlanningCounts ==
    /\ Cardinality(Checkouts) \in Nat
    /\ \A p : /\ IsFiniteSet(Planning(p)) /\ Cardinality(Planning(p)) \in Nat
              /\ Cardinality(Planning(p)) <= Cardinality(Checkouts)
    /\ \A p : \A S \in SUBSET Planning(p) : Cardinality(S) \in Nat /\ Cardinality(S) <= Cardinality(Planning(p))
  <1>1. \A p : Planning(p) \subseteq Checkouts
    BY DEF Planning
  <1> QED
    BY <1>1, BillingAssumption, FS_Subset, FS_CardinalityType

LEMMA PlansStep ==
    ASSUME DealInv, PlansInv, [BillingNext]_billingVars
    PROVE  PlansInv'
  <1>0. BillingTypes
    BY DEF DealInv
  <1>1. ASSUME UNCHANGED <<planIds, planCache>>, \A p \in Prices : planCache[p] => Planning(p)' \subseteq Planning(p)
        PROVE  PlansInv'
    <2> SUFFICES ASSUME NEW p \in Prices, planCache[p]
                 PROVE  planIds[p] + Cardinality(Planning(p)') <= Cardinality(Checkouts)
      BY <1>1 DEF PlansInv
    <2>1. Cardinality(Planning(p)') \in Nat /\ Cardinality(Planning(p)') <= Cardinality(Planning(p))
      BY <1>1, PlanningCounts
    <2> QED
      BY <1>0, <2>1, PlanningCounts DEF PlansInv, BillingTypes
  <1>2. ASSUME NEW h \in Checkouts, MakePlan(h) PROVE PlansInv'
    <2>1. PICK p \in Prices : p = checkout[h].price
      BY <1>2 DEF MakePlan, Step, DealInv, Relies, Deal
    <2>2. \A q : Planning(q)' = Planning(q) \ {h}
      BY <1>0, <1>2 DEF MakePlan, GoOn, BillingTypes, CheckoutRecord, Planning
    <2>3. h \in Planning(p) /\ \A q : q # p => Planning(q)' = Planning(q)
      BY <1>2, <2>1, <2>2 DEF MakePlan, Step, Planning
    <2>4. Cardinality(Planning(p)') = Cardinality(Planning(p)) - 1
      <3>1. IsFiniteSet(Planning(p)) /\ Planning(p)' = Planning(p) \ {h} /\ h \in Planning(p)
        BY <2>2, <2>3, PlanningCounts
      <3> QED
        BY <3>1, FS_RemoveElement
    <2>5. /\ Cardinality(Planning(p)) \in Nat /\ Cardinality(Planning(p)) <= Cardinality(Checkouts)
          /\ Cardinality(Checkouts) \in Nat
      BY PlanningCounts
    <2>6. planIds' = [planIds EXCEPT ![p] = @ + 1] /\ planCache' = [planCache EXCEPT ![p] = TRUE]
      BY <1>2, <2>1 DEF MakePlan
    <2>7. planIds'[p] + Cardinality(Planning(p)') <= Cardinality(Checkouts) /\ planCache'[p]
      BY <1>0, <2>4, <2>5, <2>6 DEF PlansInv, BillingTypes
    <2>8. ASSUME NEW q \in Prices \ {p}
          PROVE  planIds'[q] = planIds[q] /\ planCache'[q] = planCache[q] /\ Planning(q)' = Planning(q)
      BY <1>0, <2>3, <2>6 DEF BillingTypes
    <2> QED
      BY <2>7, <2>8 DEF PlansInv
  <1>3. ASSUME NEW h \in Checkouts, Subscribe(h) PROVE PlansInv'
    <2>1. \A q \in Prices : planCache[q] => Planning(q)' \subseteq Planning(q)
      BY <1>0, <1>3 DEF Subscribe, BillingTypes, CheckoutRecord, Planning, Idle_
    <2> QED
      BY <1>1, <1>3, <2>1 DEF Subscribe
  <1>4. ASSUME NEW h \in Checkouts, \/ MakeSubscription(h) \/ CreatePending(h) \/ RazorpayFails(h) \/ Verify(h)
                                    \/ ReadPending(h) \/ Activate(h) \/ ForgetPending(h)
        PROVE  PlansInv'
    <2>1. UNCHANGED <<planIds, planCache>>
      BY <1>4 DEF MakeSubscription, CreatePending, RazorpayFails, Verify, ReadPending, Activate, ForgetPending
    <2>2. checkout'[h].at # "plan" /\ \A k \in Checkouts \ {h} : checkout'[k] = checkout[k]
      <3>1. CASE MakeSubscription(h)
        <4>1. PICK s : checkout' = [checkout EXCEPT ![h].at = "pending", ![h].s = s]
          BY <3>1 DEF MakeSubscription
        <4>2. checkout' = [checkout EXCEPT ![h] = [checkout[h] EXCEPT !.at = "pending", !.s = s]]
          BY <1>0, <4>1 DEF BillingTypes
        <4> QED
          BY <1>0, <4>2 DEF BillingTypes, CheckoutRecord
      <3>2. CASE CreatePending(h) \/ RazorpayFails(h) \/ ForgetPending(h)
        BY <1>0, <3>2 DEF CreatePending, RazorpayFails, ForgetPending, BillingTypes, Idle_
      <3>3. CASE Verify(h)
        BY <1>0, <3>3 DEF Verify, BillingTypes, Idle_
      <3>4. CASE ReadPending(h)
        BY <1>0, <3>4 DEF ReadPending, BillingTypes, CheckoutRecord, Idle_
      <3>5. CASE Activate(h)
        BY <1>0, <3>5 DEF Activate, GoOn, BillingTypes, CheckoutRecord
      <3> QED
        BY <1>4, <3>1, <3>2, <3>3, <3>4, <3>5
    <2>3. \A p : Planning(p)' \subseteq Planning(p)
      BY <1>0, <2>2 DEF Planning, BillingTypes
    <2> QED
      BY <1>1, <2>1, <2>3
  <1>5. CASE UNCHANGED <<planIds, planCache, checkout>>
    BY <1>1, <1>5 DEF Planning
  <1> QED
    BY <1>2, <1>3, <1>4, <1>5 DEF BillingNext, billingVars, PendingExpires, Pay

\* The states of a payment, for any number of checkouts.
LEMMA BillingTypeCorrect == BillingSpec => []BillingTypeOK
  <1>1. BillingInit => PlansInv
    BY DEF BillingInit, PlansInv
  <1>2. ASSUME DealInv, PlansInv, NEW p \in Prices PROVE planIds[p] \in 0..Cardinality(Checkouts)
    BY <1>2, PlanningCounts DEF DealInv, BillingTypes, PlansInv
  <1>3. DealInv /\ PlansInv => BillingTypeOK
    BY <1>2 DEF DealInv, BillingTypes, BillingTypeOK, CheckoutRecord
  <1> QED
    BY <1>1, <1>3, DealStart, DealStep, PlansStep, PTL DEF BillingSpec

-----------------------------------------------------------------------------
(* The connection to GitHub.  A delivery that was handled is recorded.  And  *)
(* while the changes come one at a time, the one that is being made knows    *)
(* that the installation it writes is bound, or will bind it.                *)

Settings == [install : Installs \cup {NoInstall}, repos : SUBSET Repos, choice : Choices \cup {"default"}]

ChangeRecord ==
    [at : {"idle", "dedup", "route", "list", "read", "set", "mirror", "bind", "unbind"},
     kind : {"none", "callback", "refresh", "put", "webhook", "uninstall"}, install : Installs \cup {NoInstall},
     patch : Settings, fields : SUBSET {"install", "repos", "choice"}, read : Settings, guid : Guids \cup {0}]

GithubTypes ==
    /\ settings \in Settings /\ row \in Settings
    /\ bound \subseteq Installs /\ seen \subseteq Guids
    /\ granted \in [Installs -> SUBSET Repos]
    /\ mail \in [Guids -> [install : Installs \cup {NoInstall}, gone : BOOLEAN]]
    /\ change \in [Changes -> ChangeRecord]
    /\ handled \in [Guids -> Nat]
    /\ changes \in 0..MaxChanges
    /\ calm \in BOOLEAN

\* The delivery a handler looks at stays in the mail, and what it lists or
\* binds is an installation.
Addressed(x, letters) ==
    /\ x.at \in {"dedup", "route"} =>
          /\ x.kind = "webhook" /\ x.guid \in Guids
          /\ letters[x.guid] # NoMail /\ letters[x.guid].install = x.install
    /\ x.at = "list" \/ x.kind = "callback" => x.install \in Installs
    /\ x.at = "bind" => x.kind = "callback"

DeliveryInv ==
    /\ GithubTypes
    /\ \A c \in Changes : Addressed(change[c], mail)
    /\ \A g \in Guids : handled[g] <= 1 /\ (handled[g] = 1 => g \in seen)

Saving == {"mirror", "bind", "unbind"}

True_(s, r, B) == r = s /\ (s.install # NoInstall => s.install \in B)
\* The installation i is bound, or x is going to bind it.
Leads(x, i, B) == i # NoInstall => i \in B \/ (x.kind = "callback" /\ i = x.install)

\* What the only change that is being made may rely on.
Alone(x, s, r, B) ==
    /\ x.at = "list" => Leads(x, x.install, B) /\ x.kind # "uninstall"
    /\ x.at = "read" /\ "install" \in x.fields => Leads(x, x.patch.install, B)
    /\ x.at \in {"set", "mirror"} => Leads(x, x.read.install, B)
    /\ x.at = "mirror" => s = x.read
    /\ x.at = "bind" => r = s /\ Leads(x, s.install, B)
    /\ x.at = "unbind" => r = s /\ s.install = NoInstall
    /\ x.kind = "uninstall" => /\ x.at \notin {"dedup", "route"}
                               /\ x.at = "read" => "install" \in x.fields /\ x.patch.install = NoInstall
                               /\ x.at \in {"set", "mirror"} => x.read.install = NoInstall

CalmInv ==
    calm => /\ \A c, d \in Changes : change[c].at # "idle" /\ change[d].at # "idle" => c = d
            /\ (\A c \in Changes : change[c].at \notin Saving) => True_(settings, row, bound)
            /\ \A c \in Changes : Alone(change[c], settings, row, bound)

LEMMA GithubStart == GithubInit => DeliveryInv /\ CalmInv
  <1> SUFFICES ASSUME GithubInit PROVE DeliveryInv /\ CalmInv
    OBVIOUS
  <1>1. GithubTypes
    BY GithubAssumption DEF GithubInit, GithubTypes, Settings, ChangeRecord, Defaults, NoChange, NoMail
  <1>2. DeliveryInv
    BY <1>1 DEF GithubInit, DeliveryInv, Addressed, NoChange
  <1>3. CalmInv
    BY DEF GithubInit, CalmInv, Alone, True_, NoChange, Defaults
  <1> QED
    BY <1>2, <1>3

LEMMA DefaultsAreSettings == Defaults \in Settings /\ NoChange \in ChangeRecord
  BY DEF Defaults, Settings, NoChange, ChangeRecord

LEMMA NothingToDo == /\ \A letters : Addressed(NoChange, letters)
                     /\ \A s, r, B : Alone(NoChange, s, r, B)
                     /\ NoChange.at \notin Saving
  BY DEF Addressed, Alone, NoChange, Saving

\* One handler moves.
LEMMA ChangeMoves ==
    ASSUME GithubTypes, NEW c \in Changes, NEW x \in ChangeRecord, change' = [change EXCEPT ![c] = x]
    PROVE  /\ change' \in [Changes -> ChangeRecord]
           /\ change'[c] = x
           /\ \A d \in Changes : d # c => change'[d] = change[d]
  BY DEF GithubTypes

\* The handler that moves is the only one, if things are calm.
LEMMA AloneMoves ==
    ASSUME GithubTypes, CalmInv, NEW c \in Changes, change[c].at # "idle", NEW x \in ChangeRecord,
           change' = [change EXCEPT ![c] = x], calm' = calm,
           calm => /\ x.at \notin Saving => True_(settings', row', bound')
                   /\ Alone(x, settings', row', bound')
    PROVE  CalmInv'
  <1> SUFFICES ASSUME calm PROVE CalmInv'
    BY DEF CalmInv
  <1>1. \A d \in Changes : d # c => change[d].at = "idle" /\ change'[d] = change[d]
    BY ChangeMoves DEF CalmInv
  <1>2. ASSUME NEW d \in Changes, d # c PROVE Alone(change'[d], settings', row', bound')
    BY <1>1, <1>2 DEF CalmInv, Alone
  <1>3. change'[c] = x
    BY ChangeMoves
  <1> QED
    BY <1>1, <1>2, <1>3 DEF CalmInv

\* A step of a handler that is at work and looks at no delivery.
LEMMA WorkKeeps ==
    ASSUME DeliveryInv, CalmInv, NEW c \in Changes, change[c].at # "idle", NEW x \in ChangeRecord,
           change' = [change EXCEPT ![c] = x], UNCHANGED <<seen, granted, mail, handled, changes, calm>>,
           settings' \in Settings, row' \in Settings, bound' \subseteq Installs, Addressed(x, mail),
           calm => /\ x.at \notin Saving => True_(settings', row', bound')
                   /\ Alone(x, settings', row', bound')
    PROVE  DeliveryInv' /\ CalmInv'
  <1>1. CalmInv'
    BY AloneMoves DEF DeliveryInv
  <1>2. GithubTypes'
    BY ChangeMoves DEF DeliveryInv, GithubTypes
  <1>3. \A d \in Changes : Addressed(change'[d], mail')
    BY ChangeMoves DEF DeliveryInv
  <1> QED
    BY <1>1, <1>2, <1>3 DEF DeliveryInv

\* A handler starts: if it is still calm, none of the others is at work.
LEMMA StartKeeps ==
    ASSUME DeliveryInv, CalmInv, NEW c \in Changes, NEW x \in ChangeRecord, Starts(c, x), x.at \notin Saving,
           Addressed(x, mail), True_(settings, row, bound) => Alone(x, settings, row, bound)
    PROVE  DeliveryInv' /\ CalmInv'
  <1>1. change' = [change EXCEPT ![c] = x] /\ UNCHANGED <<settings, row, bound, seen, granted, mail, handled>>
    BY DEF Starts
  <1>2. GithubTypes'
    BY <1>1, GithubAssumption, ChangeMoves DEF Starts, DeliveryInv, GithubTypes
  <1>3. \A d \in Changes : Addressed(change'[d], mail')
    BY <1>1, ChangeMoves DEF DeliveryInv
  <1>4. ASSUME calm' PROVE CalmInv'
    <2>1. calm /\ \A d \in Changes : change[d].at = "idle"
      BY <1>4 DEF Starts, Others, Doing, DeliveryInv, GithubTypes
    <2>2. True_(settings, row, bound)
      BY <2>1 DEF CalmInv, Saving
    <2>3. change'[c] = x /\ \A d \in Changes : d # c => change'[d] = change[d]
      BY <1>1, ChangeMoves DEF DeliveryInv
    <2> QED
      BY <1>1, <2>1, <2>2, <2>3 DEF CalmInv
  <1>5. CalmInv'
    BY <1>4 DEF CalmInv
  <1> QED
    BY <1>1, <1>2, <1>3, <1>5 DEF DeliveryInv

LEMMA RequestStarts ==
    ASSUME DeliveryInv, CalmInv, NEW c \in Changes, Callback(c) \/ Refresh(c) \/ PutSettings(c) \/ Deliver(c)
    PROVE  DeliveryInv' /\ CalmInv'
  <1> USE DEF Saving, Settings, ChangeRecord, NoChange, Defaults
  <1>1. CASE Callback(c)
    <2> DEFINE x(i) == [NoChange EXCEPT !.at = "list", !.kind = "callback", !.install = i]
    <2>1. PICK i \in Installs : Starts(c, x(i))
      BY <1>1 DEF Callback
    <2>2. x(i) \in ChangeRecord /\ x(i).at = "list" /\ x(i).kind = "callback" /\ x(i).install = i
      OBVIOUS
    <2> HIDE DEF x
    <2>3. Addressed(x(i), mail) /\ Alone(x(i), settings, row, bound)
      BY <2>2 DEF Addressed, Alone, Leads
    <2> QED
      BY <2>1, <2>2, <2>3, StartKeeps
  <1>2. CASE Refresh(c)
    <2> DEFINE x == [NoChange EXCEPT !.at = "list", !.kind = "refresh", !.install = settings.install]
    <2>1. Starts(c, x) /\ settings.install \in Installs
      BY <1>2 DEF Refresh, DeliveryInv, GithubTypes
    <2>2. x \in ChangeRecord /\ x.at = "list" /\ Addressed(x, mail)
      BY <2>1 DEF Addressed
    <2>3. True_(settings, row, bound) => Alone(x, settings, row, bound)
      BY DEF Alone, Leads, True_
    <2> HIDE DEF x
    <2> QED
      BY <2>1, <2>2, <2>3, StartKeeps
  <1>3. CASE PutSettings(c)
    <2> DEFINE x(v) == [NoChange EXCEPT !.at = "read", !.kind = "put", !.fields = {"choice"}, !.patch.choice = v]
    <2>1. PICK v \in Choices : Starts(c, x(v))
      BY <1>3 DEF PutSettings
    <2>2. x(v) \in ChangeRecord /\ x(v).at = "read" /\ Addressed(x(v), mail) /\ Alone(x(v), settings, row, bound)
      BY DEF Addressed, Alone
    <2> HIDE DEF x
    <2> QED
      BY <2>1, <2>2, StartKeeps
  <1>4. CASE Deliver(c)
    <2> DEFINE x(g) == [NoChange EXCEPT !.at = "dedup", !.kind = "webhook", !.install = mail[g].install, !.guid = g]
    <2>1. PICK g \in Guids : mail[g] # NoMail /\ Starts(c, x(g))
      BY <1>4 DEF Deliver
    <2>2. mail[g].install \in Installs \cup {NoInstall}
      BY DEF DeliveryInv, GithubTypes
    <2>3. /\ x(g) \in ChangeRecord /\ x(g).at = "dedup" /\ x(g).kind = "webhook"
          /\ x(g).install = mail[g].install /\ x(g).guid = g
      BY <2>2
    <2> HIDE DEF x
    <2>4. Addressed(x(g), mail) /\ Alone(x(g), settings, row, bound)
      BY <2>1, <2>3 DEF Addressed, Alone
    <2> QED
      BY <2>1, <2>3, <2>4, StartKeeps
  <1> QED
    BY <1>1, <1>2, <1>3, <1>4

LEMMA DedupKeeps ==
    ASSUME DeliveryInv, CalmInv, NEW c \in Changes, Dedup_(c)
    PROVE  DeliveryInv' /\ CalmInv'
  <1> DEFINE g == change[c].guid
             x == IF g \in seen THEN NoChange ELSE [change[c] EXCEPT !.at = "route"]
  <1>1. change' = [change EXCEPT ![c] = x] /\ change[c].at = "dedup"
    BY DEF Dedup_, Doing, Ends, Next_
  <1>2. g \in Guids /\ change[c] \in ChangeRecord /\ Addressed(change[c], mail)
    BY <1>1 DEF DeliveryInv, GithubTypes, Addressed
  <1>3. x \in ChangeRecord /\ x.at \notin Saving /\ Addressed(x, mail)
    BY <1>1, <1>2, DefaultsAreSettings, NothingToDo DEF ChangeRecord, Addressed, Saving
  <1>4. calm => Alone(x, settings, row, bound)
    BY <1>1, <1>2, NothingToDo DEF CalmInv, Alone, ChangeRecord
  <1>5. calm => True_(settings, row, bound)
    BY <1>1 DEF CalmInv, Saving
  <1> HIDE DEF x
  <1>6. CalmInv'
    BY <1>1, <1>3, <1>4, <1>5, AloneMoves DEF Dedup_, DeliveryInv
  <1>7. handled' = IF g \in seen THEN handled ELSE [handled EXCEPT ![g] = @ + 1]
    BY DEF Dedup_
  <1>8. handled' \in [Guids -> Nat] /\ \A k \in Guids : handled'[k] <= 1 /\ (handled'[k] = 1 => k \in seen \cup {g})
    <2>1. CASE g \in seen
      BY <1>7, <2>1 DEF DeliveryInv, GithubTypes
    <2>2. CASE g \notin seen
      <3>0. handled \in [Guids -> Nat] /\ handled[g] <= 1 /\ handled[g] # 1
        BY <1>2, <2>2 DEF DeliveryInv, GithubTypes
      <3>1. handled[g] = 0 /\ handled \in [Guids -> Nat]
        BY <1>2, <3>0
      <3>2. handled' = [handled EXCEPT ![g] = 1]
        BY <1>7, <2>2, <3>1
      <3> QED
        BY <1>2, <3>1, <3>2 DEF DeliveryInv
    <2> QED
      BY <2>1, <2>2
  <1>9. GithubTypes'
    BY <1>1, <1>2, <1>3, <1>8, ChangeMoves DEF Dedup_, DeliveryInv, GithubTypes
  <1>10. \A d \in Changes : Addressed(change'[d], mail')
    BY <1>1, <1>3, ChangeMoves DEF Dedup_, DeliveryInv
  <1> QED
    BY <1>6, <1>8, <1>9, <1>10 DEF Dedup_, DeliveryInv

LEMMA HandleInstallationKeeps ==
    ASSUME DeliveryInv, CalmInv, NEW c \in Changes, HandleInstallation(c)
    PROVE  DeliveryInv' /\ CalmInv'
  <1> DEFINE m == mail[change[c].guid]
             x == IF m.install \notin bound THEN NoChange
                  ELSE IF m.gone
                  THEN [change[c] EXCEPT !.at = "read", !.kind = "uninstall", !.fields = {"install", "repos"},
                                         !.patch = [Defaults EXCEPT !.repos = {}]]
                  ELSE [change[c] EXCEPT !.at = "list"]
  <1>1. change[c].at = "route" /\ change[c] \in ChangeRecord /\ Addressed(change[c], mail)
    BY DEF HandleInstallation, Doing, DeliveryInv, GithubTypes
  <1>2. change' = [change EXCEPT ![c] = x]
    BY DEF HandleInstallation, Ends, Next_, DeliveryInv, GithubTypes
  <1>3. change[c].install = m.install /\ change[c].kind = "webhook" /\ bound \subseteq Installs
    BY <1>1 DEF Addressed, DeliveryInv, GithubTypes
  <1>4. [Defaults EXCEPT !.repos = {}] = Defaults
    BY DEF Defaults
  <1>5. x \in ChangeRecord /\ x.at \notin Saving /\ Addressed(x, mail) /\ Alone(x, settings, row, bound)
    <2>1. CASE m.install \notin bound
      BY <2>1, DefaultsAreSettings, NothingToDo
    <2>2. CASE m.install \in bound /\ m.gone
      <3>1. x = [change[c] EXCEPT !.at = "read", !.kind = "uninstall", !.fields = {"install", "repos"}, !.patch = Defaults]
        BY <1>4, <2>2
      <3>2. Defaults \in Settings /\ Defaults.install = NoInstall
        BY DEF Defaults, Settings
      <3> HIDE DEF x
      <3> QED
        BY <1>1, <3>1, <3>2 DEF ChangeRecord, Addressed, Alone, Leads, Saving
    <2>3. CASE m.install \in bound /\ ~m.gone
      <3>1. x = [change[c] EXCEPT !.at = "list"]
        BY <2>3
      <3> HIDE DEF x
      <3> QED
        BY <1>1, <1>3, <2>3, <3>1 DEF ChangeRecord, Addressed, Alone, Leads, Saving
    <2> QED
      BY <2>1, <2>2, <2>3
  <1>6. calm => True_(settings, row, bound)
    BY <1>1 DEF CalmInv, Saving
  <1> HIDE DEF x, m
  <1> QED
    BY <1>1, <1>2, <1>5, <1>6, WorkKeeps DEF HandleInstallation, DeliveryInv, GithubTypes

LEMMA ListReposKeeps ==
    ASSUME DeliveryInv, CalmInv, NEW c \in Changes, ListRepos(c)
    PROVE  DeliveryInv' /\ CalmInv'
  <1> DEFINE i == change[c].install
             x(R) == [change[c] EXCEPT !.at = "read", !.fields = {"install", "repos"},
                                       !.patch = [Defaults EXCEPT !.install = i, !.repos = R]]
  <1>1. /\ change[c].at = "list" /\ change[c] \in ChangeRecord /\ Addressed(change[c], mail)
        /\ i \in Installs /\ granted[i] \subseteq Repos
    BY DEF ListRepos, Doing, DeliveryInv, GithubTypes, Addressed
  <1>2. PICK R \in SUBSET granted[i] : change' = [change EXCEPT ![c] = x(R)]
    BY DEF ListRepos, DeliveryInv, GithubTypes
  <1> DEFINE p == [Defaults EXCEPT !.install = i, !.repos = R]
  <1>3. p \in Settings /\ p.install = i
    BY <1>1 DEF Settings, Defaults
  <1>4. x(R) = [change[c] EXCEPT !.at = "read", !.fields = {"install", "repos"}, !.patch = p]
    OBVIOUS
  <1> HIDE DEF p, x
  <1>5. x(R) \in ChangeRecord /\ x(R).at \notin Saving /\ Addressed(x(R), mail)
    <2> DEFINE F == {"install", "repos"}
    <2>1. F \in SUBSET {"install", "repos", "choice"}
      OBVIOUS
    <2> HIDE DEF F
    <2>2. x(R) = [change[c] EXCEPT !.at = "read", !.fields = F, !.patch = p]
      BY <1>4 DEF F
    <2>3. x(R) \in ChangeRecord
      BY <1>1, <1>3, <2>1, <2>2 DEF ChangeRecord
    <2>4. x(R).at = "read" /\ x(R).kind = change[c].kind /\ x(R).install = change[c].install
      BY <1>1, <2>2 DEF ChangeRecord
    <2> QED
      BY <1>1, <2>3, <2>4 DEF Addressed, Saving
  <1>6. calm => True_(settings, row, bound) /\ Alone(change[c], settings, row, bound)
    BY <1>1 DEF CalmInv, Saving
  <1>7. calm => Alone(x(R), settings, row, bound)
    BY <1>1, <1>3, <1>4, <1>6 DEF ChangeRecord, Alone, Leads
  <1> QED
    BY <1>1, <1>2, <1>5, <1>6, <1>7, WorkKeeps DEF ListRepos, DeliveryInv, GithubTypes

LEMMA ReadSettingsKeeps ==
    ASSUME DeliveryInv, CalmInv, NEW c \in Changes, ReadSettings(c)
    PROVE  DeliveryInv' /\ CalmInv'
  <1> DEFINE y == change[c]
             s == [f \in DOMAIN settings |-> IF f \in y.fields THEN y.patch[f] ELSE settings[f]]
             x == [y EXCEPT !.at = "set", !.read = s]
  <1>1. y.at = "read" /\ y \in ChangeRecord /\ Addressed(y, mail) /\ settings \in Settings
    BY DEF ReadSettings, Doing, DeliveryInv, GithubTypes
  <1>2. change' = [change EXCEPT ![c] = x]
    BY DEF ReadSettings, DeliveryInv, GithubTypes
  <1>3. y.patch \in Settings
    BY <1>1 DEF ChangeRecord
  <1>4. /\ s \in Settings
        /\ s.install = IF "install" \in y.fields THEN y.patch.install ELSE settings.install
    BY <1>1, <1>3 DEF Settings
  <1> HIDE DEF s
  <1>5. x \in ChangeRecord /\ x.at \notin Saving /\ Addressed(x, mail)
    BY <1>1, <1>4 DEF ChangeRecord, Addressed, Saving
  <1>6. calm => True_(settings, row, bound) /\ Alone(y, settings, row, bound)
    BY <1>1 DEF CalmInv, Saving
  <1>7. calm => Alone(x, settings, row, bound)
    BY <1>1, <1>4, <1>6 DEF ChangeRecord, Alone, Leads, True_
  <1> HIDE DEF x
  <1> QED
    BY <1>1, <1>2, <1>5, <1>6, <1>7, WorkKeeps DEF ReadSettings, DeliveryInv, GithubTypes

LEMMA SetSettingsKeeps ==
    ASSUME DeliveryInv, CalmInv, NEW c \in Changes, SetSettings(c)
    PROVE  DeliveryInv' /\ CalmInv'
  <1> DEFINE y == change[c]
             x == [y EXCEPT !.at = "mirror"]
  <1>1. y.at = "set" /\ y \in ChangeRecord /\ Addressed(y, mail) /\ settings' = y.read /\ y.read \in Settings
    BY DEF SetSettings, Doing, DeliveryInv, GithubTypes, ChangeRecord
  <1>2. change' = [change EXCEPT ![c] = x]
    BY DEF SetSettings, Next_
  <1>3. x \in ChangeRecord /\ x.at = "mirror" /\ Addressed(x, mail)
    BY <1>1 DEF ChangeRecord, Addressed
  <1>4. calm => Alone(x, settings', row, bound)
    BY <1>1 DEF CalmInv, ChangeRecord, Alone, Leads
  <1> HIDE DEF x
  <1> QED
    BY <1>1, <1>2, <1>3, <1>4, WorkKeeps DEF SetSettings, DeliveryInv, GithubTypes, Saving

LEMMA MirrorKeeps ==
    ASSUME DeliveryInv, CalmInv, NEW c \in Changes, Mirror(c)
    PROVE  DeliveryInv' /\ CalmInv'
  <1> DEFINE y == change[c]
             x == IF y.kind = "callback" THEN [y EXCEPT !.at = "bind"]
                  ELSE IF y.kind = "uninstall" THEN [y EXCEPT !.at = "unbind"] ELSE NoChange
  <1>1. y.at = "mirror" /\ y \in ChangeRecord /\ Addressed(y, mail) /\ row' = y.read /\ y.read \in Settings
    BY DEF Mirror, Doing, DeliveryInv, GithubTypes, ChangeRecord
  <1>2. change' = [change EXCEPT ![c] = x]
    BY DEF Mirror, AfterSave, Next_, Ends
  <1>3. x \in ChangeRecord /\ Addressed(x, mail)
    BY <1>1, DefaultsAreSettings, NothingToDo DEF ChangeRecord, Addressed
  <1>4. calm => settings = row' /\ Alone(y, settings, row, bound)
    BY <1>1 DEF CalmInv, Alone
  <1>5. calm => Alone(x, settings, row', bound)
    <2>1. CASE y.kind = "callback"
      BY <1>1, <1>4, <2>1 DEF ChangeRecord, Alone, Leads
    <2>2. CASE y.kind = "uninstall"
      BY <1>1, <1>4, <2>2 DEF ChangeRecord, Alone
    <2> QED
      BY <2>1, <2>2, NothingToDo
  <1>6. calm => (x.at \notin Saving => True_(settings, row', bound))
    BY <1>1, <1>4 DEF ChangeRecord, Alone, Leads, True_, Saving
  <1> HIDE DEF x
  <1> QED
    BY <1>1, <1>2, <1>3, <1>5, <1>6, WorkKeeps DEF Mirror, DeliveryInv, GithubTypes

LEMMA BindingKeeps ==
    ASSUME DeliveryInv, CalmInv, NEW c \in Changes, Bind(c) \/ Unbind(c)
    PROVE  DeliveryInv' /\ CalmInv'
  <1>1. /\ change' = [change EXCEPT ![c] = NoChange] /\ change[c].at \in {"bind", "unbind"}
        /\ UNCHANGED <<settings, row, seen, granted, mail, handled, changes, calm>>
    BY DEF Bind, Unbind, Ends, Doing
  <1>2. settings \in Settings /\ row \in Settings /\ bound' \subseteq Installs
    BY DEF Bind, Unbind, Doing, DeliveryInv, GithubTypes, Addressed
  <1>3. calm => True_(settings, row, bound')
    BY DEF Bind, Unbind, Doing, CalmInv, Alone, Leads, True_
  <1> QED
    BY <1>1, <1>2, <1>3, DefaultsAreSettings, NothingToDo, WorkKeeps

LEMMA OutsideGithub ==
    ASSUME DeliveryInv, CalmInv, NEW i \in Installs, Uninstall(i) \/ \E R \in SUBSET Repos : Install(i, R)
    PROVE  DeliveryInv' /\ CalmInv'
  <1>1. UNCHANGED <<settings, row, bound, seen, change, handled, changes, stops, calm>>
    BY DEF Install, Uninstall
  <1>2. PICK g \in Guids, b \in BOOLEAN : mail[g] = NoMail /\ mail' = [mail EXCEPT ![g] = [install |-> i, gone |-> b]]
    BY DEF Install, Uninstall
  <1>3. PICK R \in SUBSET Repos : granted' = [granted EXCEPT ![i] = R]
    BY DEF Install, Uninstall
  <1>4. GithubTypes'
    BY <1>1, <1>2, <1>3 DEF DeliveryInv, GithubTypes
  <1>5. \A h \in Guids : mail[h] # NoMail => mail'[h] = mail[h]
    BY <1>2 DEF DeliveryInv, GithubTypes
  <1>6. \A c \in Changes : Addressed(change'[c], mail')
    BY <1>1, <1>5 DEF DeliveryInv, Addressed
  <1>7. CalmInv'
    BY <1>1 DEF CalmInv
  <1> QED
    BY <1>1, <1>4, <1>6, <1>7 DEF DeliveryInv

LEMMA GithubStep == DeliveryInv /\ CalmInv /\ [GithubNext]_githubVars => DeliveryInv' /\ CalmInv'
  <1> SUFFICES ASSUME DeliveryInv, CalmInv, [GithubNext]_githubVars PROVE DeliveryInv' /\ CalmInv'
    OBVIOUS
  <1>1. CASE UNCHANGED githubVars
    BY <1>1 DEF githubVars, DeliveryInv, GithubTypes, CalmInv
  <1>2. CASE RestartGithub
    <2>1. ~calm' /\ GithubTypes'
      BY <1>2, DefaultsAreSettings DEF RestartGithub, DeliveryInv, GithubTypes
    <2>2. \A c \in Changes : Addressed(change'[c], mail')
      BY <1>2, NothingToDo DEF RestartGithub
    <2> QED
      BY <1>2, <2>1, <2>2 DEF RestartGithub, DeliveryInv, CalmInv
  <1>3. CASE GithubNext /\ ~RestartGithub
    BY <1>3, OutsideGithub, RequestStarts, DedupKeeps, HandleInstallationKeeps, ListReposKeeps, ReadSettingsKeeps,
       SetSettingsKeeps, MirrorKeeps, BindingKeeps DEF GithubNext
  <1> QED
    BY <1>1, <1>2, <1>3

\* For any installations, deliveries and handlers: a delivery is handled once,
\* and settings that are changed one at a time stay true to GitHub (server.py,
\* github_webhook(); store.py, save_settings()).
THEOREM ConnectionHolds == GithubSpec => []ConnectionIsTrue
  <1>1. DeliveryInv => HandledOnce
    BY DEF DeliveryInv, HandledOnce
  <1>2. DeliveryInv /\ CalmInv => CalmSettings
    BY DEF DeliveryInv, GithubTypes, CalmInv, CalmSettings, Doing, True_, Saving
  <1> QED
    BY <1>1, <1>2, GithubStart, GithubStep, PTL DEF GithubSpec, ConnectionIsTrue

LEMMA GithubTypeCorrect == GithubSpec => []GithubTypeOK
  <1>1. DeliveryInv => GithubTypeOK
    BY DEF DeliveryInv, GithubTypes, GithubTypeOK, Settings
  <1> QED
    BY <1>1, GithubStart, GithubStep, PTL DEF GithubSpec

-----------------------------------------------------------------------------
(* The composition runs one of the four, and leaves the others where they    *)
(* started: it implements each of them.                                      *)

LEMMA AccessImplements == AccessSpec => SpacesSpec /\ GateSpec /\ BillingSpec /\ GithubSpec
  <1>1. AccessInit => SpacesInit /\ GateInit /\ BillingInit /\ GithubInit
    BY DEF AccessInit
  <1>2. [AccessNext]_accessVars => [SpacesNext]_spaceVars
    BY DEF AccessNext, accessVars
  <1>3. [AccessNext]_accessVars => [GateNext]_gateVars
    BY DEF AccessNext, accessVars
  <1>4. [AccessNext]_accessVars => [BillingNext]_billingVars
    BY DEF AccessNext, accessVars
  <1>5. [AccessNext]_accessVars => [GithubNext]_githubVars
    BY DEF AccessNext, accessVars
  <1> QED
    BY <1>1, <1>2, <1>3, <1>4, <1>5, PTL DEF AccessSpec, SpacesSpec, GateSpec, BillingSpec, GithubSpec

\* The counters of the bounds, and the tokens and keys that were handed out.
SpacesCounts == served \in 0..MaxRequests /\ spent \subseteq Tokens \cup Keys

LEMMA SpacesCountsStep == SpacesCounts /\ [SpacesNext]_spaceVars => SpacesCounts'
  <1> SUFFICES ASSUME SpacesCounts, [SpacesNext]_spaceVars PROVE SpacesCounts'
    OBVIOUS
  <1> USE SpacesAssumption DEF SpacesCounts
  <1>1. ASSUME NEW h, NEW x, Request(h, x) PROVE SpacesCounts'
    BY <1>1 DEF Request
  <1>2. ASSUME NEW h \in Handlers, Login(h) \/ Join(h) \/ Enter(h) PROVE SpacesCounts'
    BY <1>1, <1>2 DEF Login, Join, Enter
  <1>3. ASSUME NEW h \in Handlers, Logout(h) \/ CreateKey(h) \/ CreateInvite(h) PROVE SpacesCounts'
    BY <1>3 DEF Logout, CreateKey, CreateInvite
  <1>4. ASSUME NEW h \in Handlers, \/ ReadUser(h) \/ CreateSpace(h) \/ AddOwner(h) \/ ReadInvite(h) \/ AddMember(h)
                                   \/ NoteSpace(h) \/ SpendInvite(h) \/ SaveSession(h) \/ ListKeys(h)
        PROVE  UNCHANGED <<served, spent>>
    BY <1>4 DEF ReadUser, CreateSpace, AddOwner, ReadInvite, AddMember, NoteSpace, SpendInvite, SaveSession, ListKeys
  <1>5. ASSUME NEW h \in Handlers, Resolve(h) \/ Backfill(h) \/ Check(h) \/ AskRole(h) \/ RevokeInvite(h) \/ RevokeKey(h)
        PROVE  UNCHANGED <<served, spent>>
    BY <1>5 DEF Resolve, Backfill, Check, AskRole, RevokeInvite, RevokeKey
  <1>6. ExpireInvite \/ RestartServer \/ UNCHANGED spaceVars => UNCHANGED <<served, spent>>
    BY DEF ExpireInvite, RestartServer, spaceVars
  <1> QED
    BY <1>2, <1>3, <1>4, <1>5, <1>6 DEF SpacesNext

LEMMA SpacesTypeCorrect == SpacesSpec => []SpacesTypeOK
  <1>1. SpacesInit => SpacesCounts
    BY SpacesAssumption DEF SpacesInit, SpacesCounts
  <1>2. SpacesInv /\ SpacesCounts => SpacesTypeOK
    BY DEF SpacesInv, RecordsOK, UserRecord, SpacesCounts, SpacesTypeOK
  <1> QED
    BY <1>1, <1>2, SpacesStart, SpacesStep, SpacesCountsStep, PTL DEF SpacesSpec

\* A bucket counts no more than the requests there are, each of its numbers
\* being the number of one.
LEMMA CountsAreBounded ==
    ASSUME BucketInv, NEW m \in Minutes
    PROVE  count[m] \in 0..Cardinality(Calls)
  <1> DEFINE f == [k \in 1..count[m] |-> CHOOSE c \in Calls : call[c].bucket = m /\ call[c].n = k]
  <1>1. count[m] \in Nat
    BY DEF BucketInv, CallTypes
  <1>2. ASSUME NEW k \in 1..count[m] PROVE f[k] \in Calls /\ call[f[k]].n = k
    BY DEF BucketInv, Numbered
  <1>3. f \in Injection(1..count[m], Calls)
    <2>1. f \in [1..count[m] -> Calls]
      BY <1>2
    <2> HIDE DEF f
    <2>2. ASSUME NEW j \in 1..count[m], NEW k \in 1..count[m], f[j] = f[k] PROVE j = k
      <3>1. call[f[j]].n = j /\ call[f[k]].n = k
        BY <1>2
      <3> QED
        BY <2>2, <3>1
    <2> QED
      BY <2>1, <2>2 DEF Injection, IsInjective
  <1> HIDE DEF f
  <1>4. IsFiniteSet(1..count[m]) /\ Cardinality(1..count[m]) = count[m]
    BY <1>1, FS_Interval
  <1>5. Cardinality(1..count[m]) <= Cardinality(Calls)
    BY <1>3, GateAssumption, FS_Injection
  <1>6. Cardinality(Calls) \in Nat
    BY GateAssumption, FS_CardinalityType
  <1> QED
    BY <1>1, <1>4, <1>5, <1>6

TicketStates == ticket \in {"none", "live", "gone"} /\ restarts \in 0..MaxRestarts

LEMMA TicketStatesStep == TicketStates /\ [GateNext]_gateVars => TicketStates'
  <1> SUFFICES ASSUME TicketStates, [GateNext]_gateVars PROVE TicketStates'
    OBVIOUS
  <1>1. ASSUME NEW c \in Calls, Arrive(c) \/ Incr(c) \/ Expire(c) PROVE UNCHANGED <<ticket, restarts>>
    BY <1>1 DEF Arrive, Incr, Expire
  <1>2. ASSUME NEW o \in Openers, Present(o) \/ GetTicket(o) \/ DeleteTicket(o)
        PROVE  restarts' = restarts /\ ticket' \in {ticket, "gone"}
    BY <1>2 DEF Present, GetTicket, DeleteTicket
  <1>3. ASSUME NEW m \in Minutes, BucketGone(m) PROVE UNCHANGED <<ticket, restarts>>
    BY <1>3 DEF BucketGone
  <1>4. NextMinute \/ UNCHANGED gateVars => UNCHANGED <<ticket, restarts>>
    BY DEF NextMinute, gateVars
  <1>5. CreateTicket \/ TicketExpires \/ RestartGate => TicketStates'
    BY GateAssumption DEF CreateTicket, TicketExpires, RestartGate, TicketStates
  <1> QED
    BY <1>1, <1>2, <1>3, <1>4, <1>5 DEF GateNext, TicketStates

LEMMA GateTypeCorrect == GateSpec => []GateTypeOK
  <1>1. GateInit => TicketStates
    BY GateAssumption DEF GateInit, TicketStates
  <1>2. BucketInv => count \in [Minutes -> 0..Cardinality(Calls)]
    BY CountsAreBounded DEF BucketInv, CallTypes
  <1>3. BucketInv /\ TicketInv /\ TicketStates => GateTypeOK
    BY <1>2 DEF BucketInv, CallTypes, Answered, TicketInv, OpenerTypes, TicketStates, GateTypeOK
  <1> QED
    BY <1>1, <1>3, TicketInit, TicketStep, BucketInit, BucketStep, TicketStatesStep, PTL DEF GateSpec

\* The states of the four components, for all values of their constants.
THEOREM AccessTypeCorrect == AccessSpec => []TypeOK
  <1>1. AccessInit => part \in Parts
    BY DEF AccessInit
  <1>2. part \in Parts /\ [AccessNext]_accessVars => (part \in Parts)'
    BY DEF AccessNext, accessVars
  <1>3. AccessSpec => [](part \in Parts)
    BY <1>1, <1>2, PTL DEF AccessSpec
  <1> QED
    BY <1>3, AccessImplements, SpacesTypeCorrect, GateTypeCorrect, BillingTypeCorrect, GithubTypeCorrect, PTL DEF TypeOK

=============================================================================
