--------------------------- MODULE AccountsProofs ---------------------------
(***************************************************************************)
(* Proofs about Accounts, for any number of users, requests, sessions,     *)
(* names and failures.  A request is the sequence of the calls it still    *)
(* awaits, so what an invariant says of a request is about positions in    *)
(* that sequence, and a step is known by what it leaves of the sequence:   *)
(*   Stored    the tables, the caches, and that whoever a session, a token *)
(*             or a cached answer is about has an account;                 *)
(*   Requests  an account is made before a call is about it, and a call    *)
(*             finds what it takes;                                        *)
(*   Bans      what a ban has ended at each of its calls;                  *)
(*   Roles     with one request at a time, that what it knows of the roles *)
(*             is true and that the cache is, or is cleared next.          *)
(***************************************************************************)
EXTENDS Accounts, TLAPS, FiniteSetTheorems, SequenceTheorems

-----------------------------------------------------------------------------
(* Sequences of calls *)

Calls == {"findFirst", "setFirst", "getRoles", "setRoles", "repair", "findRole", "setList",
          "clearLists", "clearRoles", "clearUsers", "checkMail", "findName", "insert", "add",
          "loadRoles", "drop", "removeRole", "patch", "updateRow", "insertRow", "activate",
          "deactivate", "listSessions", "listTokens", "endSession", "revoke", "countUsers",
          "countRows", "findUsers", "rowOfUser", "findRows", "nextRow"}

\* Where the elements of two sequences are in their concatenation.
LEMMA Joined ==
  ASSUME NEW C, NEW s \in Seq(C), NEW t \in Seq(C)
  PROVE  /\ s \o t \in Seq(C)
         /\ Len(s \o t) = Len(s) + Len(t)
         /\ \A i \in 1..Len(s) : (s \o t)[i] = s[i]
         /\ \A i \in 1..Len(t) : (s \o t)[Len(s) + i] = t[i]
<1>0. Len(s) \in Nat /\ Len(t) \in Nat
  OBVIOUS
<1>1. s \o t \in Seq(C)
  BY ConcatProperties
<1>2. Len(s \o t) = Len(s) + Len(t)
  BY ConcatProperties
<1>3. \A i \in 1..Len(s) + Len(t) : (s \o t)[i] = IF i <= Len(s) THEN s[i] ELSE t[i - Len(s)]
  BY ConcatProperties
<1>4. \A i \in 1..Len(s) : (s \o t)[i] = s[i]
  BY <1>0, <1>3
<1>5. ASSUME NEW i \in 1..Len(t) PROVE (s \o t)[Len(s) + i] = t[i]
  <2>1. Len(s) + i \in 1..Len(s) + Len(t) /\ ~(Len(s) + i <= Len(s)) /\ (Len(s) + i) - Len(s) = i
    BY <1>0
  <2> QED BY <2>1, <1>3
<1> QED BY <1>1, <1>2, <1>4, <1>5

\* Each position in a concatenation is one of the first or one of the second sequence.
LEMMA JoinedAt ==
  ASSUME NEW C, NEW s \in Seq(C), NEW t \in Seq(C), NEW i \in 1..Len(s \o t)
  PROVE  \/ i \in 1..Len(s) /\ (s \o t)[i] = s[i]
         \/ \E k \in 1..Len(t) : i = Len(s) + k /\ (s \o t)[i] = t[k]
<1>0. Len(s) \in Nat /\ Len(t) \in Nat
  OBVIOUS
<1>1. Len(s \o t) = Len(s) + Len(t)
  BY Joined
<1>2. CASE i <= Len(s)
  BY <1>0, <1>1, <1>2, Joined
<1>3. CASE i > Len(s)
  <2> DEFINE k == i - Len(s)
  <2>1. k \in 1..Len(t) /\ i = Len(s) + k
    BY <1>0, <1>1, <1>3
  <2>2. (s \o t)[Len(s) + k] = t[k]
    BY <2>1, Joined
  <2> QED BY <2>1, <2>2
<1> QED BY <1>0, <1>2, <1>3

\* The rest of a request that is not at its end.
LEMMA RestOf ==
  ASSUME NEW C, NEW t \in Seq(C), t # <<>>
  PROVE  /\ Tail(t) \in Seq(C) /\ Len(t) \in Nat \ {0} /\ Len(Tail(t)) = Len(t) - 1
         /\ \A i \in 1..Len(t) - 1 : Tail(t)[i] = t[i + 1]
         /\ t[1] = Head(t) /\ Head(t) \in C
  OBVIOUS

LEMMA EachIs ==
  ASSUME NEW S, IsFiniteSet(S), NEW C, NEW c \in C
  PROVE  /\ Each(c, S) \in Seq(C)
         /\ Len(Each(c, S)) = Cardinality(S)
         /\ \A i \in 1..Len(Each(c, S)) : Each(c, S)[i] = c
<1>1. Cardinality(S) \in Nat
  BY FS_CardinalityType
<1>2. Each(c, S) \in [1..Cardinality(S) -> C]
  BY DEF Each
<1>3. Each(c, S) \in Seq(C)
  BY <1>1, <1>2, SeqDef
<1>4. Len(Each(c, S)) = Cardinality(S)
  BY <1>1, <1>2, <1>3
<1> QED BY <1>1, <1>3, <1>4 DEF Each

Later(t) == Tail(t)

\* Nothing is called for nothing, and one call less when there is one thing less.
LEMMA EachNone ==
  ASSUME NEW c \in Calls, NEW t \in Seq(Calls)
  PROVE  Each(c, {}) \o t = t
<1>1. Each(c, {}) \in Seq(Calls) /\ Len(Each(c, {})) = 0
  BY FS_EmptySet, EachIs
<1>2. Each(c, {}) = <<>>
  BY <1>1
<1> QED BY <1>2, ConcatEmptySeq

LEMMA EachRest ==
  ASSUME NEW S, IsFiniteSet(S), NEW c \in Calls, NEW t \in Seq(Calls), NEW x \in S
  PROVE  /\ Each(c, S) \o t # <<>>
         /\ Head(Each(c, S) \o t) = c
         /\ Later(Each(c, S) \o t) = Each(c, S \ {x}) \o t
<1> DEFINE a == Each(c, S)
           b == Each(c, S \ {x})
           s == a \o t
<1>1. /\ IsFiniteSet(S \ {x}) /\ Cardinality(S \ {x}) = Cardinality(S) - 1
      /\ Cardinality(S) \in Nat /\ Cardinality(S \ {x}) \in Nat
  BY FS_RemoveElement, FS_CardinalityType
<1>2. a \in Seq(Calls) /\ b \in Seq(Calls) /\ Len(a) = Cardinality(S) /\ Len(b) = Len(a) - 1
  BY <1>1, EachIs
<1>3. (\A i \in 1..Len(a) : a[i] = c) /\ (\A i \in 1..Len(b) : b[i] = c)
  BY <1>1, EachIs
<1>4. Len(a) \in Nat \ {0} /\ Len(t) \in Nat
  BY <1>1, <1>2
<1> HIDE DEF a, b
<1>5. s \in Seq(Calls) /\ Len(s) = Len(a) + Len(t) /\ b \o t \in Seq(Calls) /\ Len(b \o t) = Len(b) + Len(t)
  BY <1>2, Joined
<1>6. s # <<>> /\ Head(s) = c
  <2>1. Len(s) > 0 /\ s[1] = a[1]
    BY <1>2, <1>4, <1>5, Joined
  <2> QED BY <2>1, <1>3, <1>4, <1>5
<1>7. Tail(s) \in Seq(Calls) /\ Len(Tail(s)) = Len(b \o t)
  <2>1. Len(s) - 1 = Len(b \o t)
    BY <1>2, <1>4, <1>5
  <2> HIDE DEF s
  <2> QED BY <2>1, <1>5, <1>6
<1>8. ASSUME NEW i \in 1..Len(b \o t) PROVE Tail(s)[i] = (b \o t)[i]
  <2>1. Tail(s)[i] = s[i + 1]
    BY <1>5, <1>6, <1>7
  <2>2. CASE i \in 1..Len(b)
    <3>1. (b \o t)[i] = b[i]
      BY <2>2, <1>2, Joined
    <3>2. i + 1 \in 1..Len(a)
      BY <2>2, <1>2, <1>4
    <3>3. s[i + 1] = a[i + 1]
      BY <3>2, <1>2, Joined
    <3> QED BY <2>1, <2>2, <3>1, <3>2, <3>3, <1>3
  <2>3. ASSUME NEW k \in 1..Len(t), i = Len(b) + k PROVE Tail(s)[i] = (b \o t)[i]
    <3>1. (b \o t)[Len(b) + k] = t[k]
      BY <1>2, Joined
    <3>2. s[Len(a) + k] = t[k]
      BY <1>2, Joined
    <3>3. i + 1 = Len(a) + k
      BY <2>3, <1>2, <1>4
    <3> QED BY <2>1, <2>3, <3>1, <3>2, <3>3
  <2>4. \/ i \in 1..Len(b)
        \/ \E k \in 1..Len(t) : i = Len(b) + k
    <3>1. i \in 1..Len(b) + Len(t) /\ Len(b) \in Nat
      BY <1>2, <1>4, <1>5
    <3>2. i \in 1..Len(b) \/ (i - Len(b) \in 1..Len(t) /\ i = Len(b) + (i - Len(b)))
      BY <3>1, <1>4
    <3> QED BY <3>2
  <2> QED BY <2>2, <2>3, <2>4
<1>9. Tail(s) = b \o t
  <2> HIDE DEF s
  <2> DEFINE v == b \o t
             w == Tail(s)
  <2>1. v \in Seq(Calls) /\ w \in Seq(Calls) /\ Len(w) = Len(v)
    BY <1>5, <1>7
  <2>2. \A i \in 1..Len(v) : w[i] = v[i]
    BY <1>8
  <2> HIDE DEF v, w
  <2>3. w = v
    BY <2>1, <2>2, SeqEqual
  <2> QED BY <2>3 DEF v, w
<1> QED BY <1>6, <1>9 DEF a, b, Later

-----------------------------------------------------------------------------
(* Type correctness: the tables, and what a request in flight still has to await *)

Held(u) == u \in Users /\ HasAccount(u)
Named(u) == u \in Users /\ row[u].name \in Names

ReqType ==
  [kind : Kinds \cup {"none"}, todo : Seq(Calls), user : Users \cup {None},
   name : Names \cup {None}, mail : Mails \cup {None}, role : Roles \cup {None},
   active : BOOLEAN \cup {None}, roles : SUBSET Roles, ids : SUBSET Sessions,
   users : SUBSET Users]

\* The calls that are about an account.
AccountCalls ==
  {"setFirst", "getRoles", "setRoles", "repair", "add", "loadRoles", "drop", "removeRole",
   "patch", "updateRow", "insertRow", "activate", "deactivate", "listSessions", "listTokens",
   "endSession", "revoke"}

After(t, i, calls) == \E j \in 1..(i - 1) : t[j] \in calls

\* There is an account before a call is about it, a named row before one is made for it, ...
Founded(t) ==
  \A i \in 1..Len(t) : t[i] \in AccountCalls => After(t, i, {"insert", "findFirst"})
Findable(t, u) ==
  \A i \in 1..Len(t) : t[i] = "findFirst" => (Named(u) \/ After(t, i, {"insert"}))
\* ... and what a call takes is there.
Informed(t, r) ==
  \A i \in 1..Len(t) :
    /\ t[i] \in {"insert", "insertRow"} => r.name \in Names
    /\ t[i] \in {"add", "findRole", "setList"} => r.role \in Roles
    /\ t[i] = "rowOfUser" => r.users \subseteq Accounts

ReqOK(r) ==
  /\ Informed(r.todo, r)
  /\ Held(r.user) \/ (Founded(r.todo) /\ Findable(r.todo, r.user))

AccountType == [name : Names, mail : Mails \cup {None}, active : BOOLEAN, roles : SUBSET Roles]
RowType == [name : Names \cup {None}, mail : Mails \cup {None}]

TablesOK ==
  /\ setting \in Settings
  /\ account \in [Users -> {NoAccount} \cup AccountType]
  /\ row \in [Users -> RowType]
  /\ sessions \in [Users -> SUBSET Sessions] /\ tokens \in [Users -> SUBSET Sessions]
  /\ access \subseteq Users
  /\ leaving \subseteq Procs \X Users /\ out \subseteq Users

CachesOK ==
  /\ userCache \in [Users -> BOOLEAN \cup {None}]
  /\ roleCache \in [Users -> (SUBSET Roles) \cup {None}]
  /\ listCache \in [Lists -> (SUBSET Users) \cup {None}]

\* Rows have names; whatever is known of a user comes from an account.
RowsOK == \A u \in Users : HasRow(u) => row[u].name \in Names
KnownOK ==
  \A u \in Users :
    sessions[u] # {} \/ tokens[u] # {} \/ u \in access \/ userCache[u] # None => HasAccount(u)
AllOK == listCache["all"] # None => listCache["all"] \subseteq Accounts

RequestsOK ==
  /\ req \in [Procs -> ReqType]
  /\ \A p \in Procs : ReqOK(req[p])

Stored == TablesOK /\ CachesOK /\ RowsOK /\ KnownOK /\ AllOK
TInv == Stored /\ RequestsOK /\ failures \in 0..setting.failures

\* Accounts and rows are never deleted.
Grows == \A u \in Users : (HasAccount(u) => HasAccount(u)') /\ (Named(u) => Named(u)')

LEMMA ReqOKGrows ==
  ASSUME Grows, NEW r \in ReqType, ReqOK(r)
  PROVE  ReqOK(r)'
<1>1. Informed(r.todo, r)'
  <2>1. Accounts \subseteq Accounts'
    BY DEF Grows, Accounts
  <2> QED BY <2>1 DEF ReqOK, Informed
<1>2. Held(r.user) => Held(r.user)'
  BY DEF Grows, Held
<1>3. Findable(r.todo, r.user) => Findable(r.todo, r.user)'
  BY DEF Grows, Findable, Named
<1>4. Founded(r.todo) => Founded(r.todo)'
  BY DEF Founded
<1> QED BY <1>1, <1>2, <1>3, <1>4 DEF ReqOK

LEMMA IdleNext == Idle \in ReqType /\ ReqOK(Idle)'
<1>1. Idle \in ReqType
  BY DEF Idle, ReqType
<1>2. Len(Idle.todo) = 0
  BY DEF Idle
<1> QED BY <1>1, <1>2 DEF ReqOK, Informed, Founded, Findable

\* What a step leaves alone of the requests.
LEMMA PutOK ==
  ASSUME RequestsOK, Grows, NEW p \in Procs, NEW r \in ReqType, ReqOK(r)',
         req' = [req EXCEPT ![p] = r]
  PROVE  RequestsOK'
<1>1. req' \in [Procs -> ReqType]
  BY DEF RequestsOK
<1>2. ASSUME NEW q \in Procs PROVE ReqOK(req[q])'
  <2>1. CASE q # p
    <3>1. req'[q] = req[q] /\ req[q] \in ReqType /\ ReqOK(req[q])
      BY <2>1 DEF RequestsOK
    <3>2. PICK o \in ReqType : o = req[q] /\ ReqOK(o)
      BY <3>1
    <3>3. ReqOK(o)'
      BY <3>2, ReqOKGrows
    <3> QED BY <3>1, <3>2, <3>3
  <2>2. CASE q = p
    <3>1. req'[q] = r
      BY <2>2 DEF RequestsOK
    <3> QED BY <3>1
  <2> QED BY <2>1, <2>2
<1> QED BY <1>1, <1>2 DEF RequestsOK

LEMMA SetOK ==
  ASSUME RequestsOK, Grows, NEW p \in Procs, NEW r \in ReqType, Set(p, r), ReqOK(r)'
  PROVE  RequestsOK'
<1>1. CASE r.todo = <<>>
  BY <1>1, IdleNext, PutOK DEF Set
<1>2. CASE r.todo # <<>>
  BY <1>2, PutOK DEF Set
<1> QED BY <1>1, <1>2

\* The rest of a request.
LEMMA FoundedRest ==
  ASSUME NEW t \in Seq(Calls), t # <<>>, Founded(t), Head(t) \notin {"insert", "findFirst"}
  PROVE  Founded(Tail(t))
<1> SUFFICES ASSUME NEW i \in 1..Len(Tail(t)), Tail(t)[i] \in AccountCalls
             PROVE  \E j \in 1..(i - 1) : Tail(t)[j] \in {"insert", "findFirst"}
  BY DEF Founded, After
<1>1. Len(t) \in Nat /\ i + 1 \in 1..Len(t) /\ t[i + 1] = Tail(t)[i]
  BY RestOf
<1>2. PICK j \in 1..i : t[j] \in {"insert", "findFirst"}
  BY <1>1 DEF Founded, After
<1>3. j # 1
  BY <1>2, RestOf
<1>4. j - 1 \in 1..(i - 1) /\ j - 1 \in 1..(Len(t) - 1)
  BY <1>1, <1>3
<1>5. Tail(t)[j - 1] = t[j]
  BY <1>4, RestOf
<1> QED BY <1>2, <1>4, <1>5

LEMMA FindableRest ==
  ASSUME NEW t \in Seq(Calls), t # <<>>, NEW u, Findable(t, u), Head(t) # "insert"
  PROVE  Findable(Tail(t), u)
<1> SUFFICES ASSUME NEW i \in 1..Len(Tail(t)), Tail(t)[i] = "findFirst", ~Named(u)
             PROVE  \E j \in 1..(i - 1) : Tail(t)[j] \in {"insert"}
  BY DEF Findable, After
<1>1. Len(t) \in Nat /\ i + 1 \in 1..Len(t) /\ t[i + 1] = Tail(t)[i]
  BY RestOf
<1>2. PICK j \in 1..i : t[j] \in {"insert"}
  BY <1>1 DEF Findable, After
<1>3. j # 1
  BY <1>2, RestOf
<1>4. j - 1 \in 1..(i - 1) /\ j - 1 \in 1..(Len(t) - 1)
  BY <1>1, <1>3
<1>5. Tail(t)[j - 1] = t[j]
  BY <1>4, RestOf
<1> QED BY <1>2, <1>4, <1>5

LEMMA RestOK ==
  ASSUME NEW r \in ReqType, ReqOK(r), r.todo # <<>>,
         Held(r.user) \/ Head(r.todo) \notin {"insert", "findFirst"},
         NEW s \in ReqType, s.todo = Tail(r.todo), s.user = r.user, s.name = r.name,
         s.role = r.role, s.users \subseteq r.users
  PROVE  ReqOK(s)
<1> DEFINE t == r.todo
<1>0. t \in Seq(Calls)
  BY DEF ReqType
<1>1. Informed(s.todo, s)
  <2>1. \A i \in 1..Len(Tail(t)) : i + 1 \in 1..Len(t) /\ Tail(t)[i] = t[i + 1]
    BY <1>0, RestOf
  <2>2. Informed(r.todo, r)
    BY DEF ReqOK
  <2> QED BY <2>1, <2>2 DEF Informed
<1>2. CASE Held(r.user)
  BY <1>1, <1>2 DEF ReqOK
<1>3. CASE ~Held(r.user)
  BY <1>0, <1>1, <1>3, FoundedRest, FindableRest DEF ReqOK
<1> QED BY <1>2, <1>3

LEMMA ProceedOK ==
  ASSUME RequestsOK, Grows, NEW p \in Procs, req[p].todo # <<>>, Proceed(p),
         Held(req[p].user) \/ Head(req[p].todo) \notin {"insert", "findFirst"}
  PROVE  RequestsOK'
<1> PICK o : o = req[p]
  OBVIOUS
<1>1. o \in ReqType /\ ReqOK(o) /\ o.todo \in Seq(Calls)
  BY DEF RequestsOK, ReqType
<1> PICK s : s = [o EXCEPT !.todo = Tail(o.todo)]
  OBVIOUS
<1>2. s.todo = Tail(o.todo) /\ s.user = o.user /\ s.name = o.name /\ s.role = o.role /\ s.users = o.users
  BY <1>1 DEF ReqType
<1>3. s \in ReqType
  <2>1. Tail(o.todo) \in Seq(Calls)
    BY <1>1, RestOf
  <2> QED BY <1>1, <2>1 DEF ReqType
<1>4. ReqOK(s)
  BY <1>1, <1>2, <1>3, RestOK
<1>5. ReqOK(s)'
  BY <1>3, <1>4, ReqOKGrows
<1>6. Set(p, s)
  BY DEF Proceed, Then, Rest
<1> QED BY <1>3, <1>5, <1>6, SetOK

\* Calls that are about nothing.
Plain == Calls \ (AccountCalls \cup {"insert", "findFirst", "findRole", "setList", "rowOfUser"})

LEMMA PlainOK ==
  ASSUME NEW r \in ReqType, r.todo \in Seq(Plain)
  PROVE  ReqOK(r)'
<1>1. \A i \in 1..Len(r.todo) : r.todo[i] \in Plain
  OBVIOUS
<1> QED BY <1>1 DEF Plain, AccountCalls, ReqOK, Informed, Founded, Findable

LEMMA PlainSet ==
  ASSUME RequestsOK, Grows, NEW p \in Procs, NEW r \in ReqType, r.todo \in Seq(Plain), Set(p, r)
  PROVE  RequestsOK'
BY PlainOK, SetOK

LEMMA StopOK ==
  ASSUME RequestsOK, Grows, NEW p \in Procs, Stop(p)
  PROVE  RequestsOK'
<1> PICK o : o = req[p]
  OBVIOUS
<1>1. o \in ReqType
  BY DEF RequestsOK
<1>a. PICK t : t = IF o.kind = "sync" /\ o.mail # None THEN <<"nextRow">> ELSE <<>>
  OBVIOUS
<1>2. t \in Seq(Plain) /\ t \in Seq(Calls)
  <2>1. <<"nextRow">> \in Seq(Plain) /\ <<"nextRow">> \in Seq(Calls)
    BY DEF Plain, Calls, AccountCalls
  <2>2. <<>> \in Seq(Plain) /\ <<>> \in Seq(Calls)
    OBVIOUS
  <2> QED BY <1>a, <2>1, <2>2
<1>b. PICK s : s = [o EXCEPT !.todo = t]
  OBVIOUS
<1>3. s \in ReqType /\ s.todo = t
  BY <1>1, <1>2, <1>b DEF ReqType
<1>4. Set(p, s)
  BY <1>a, <1>b DEF Stop, Then
<1> QED BY <1>2, <1>3, <1>4, PlainSet

-----------------------------------------------------------------------------
(* What requests begin with *)

\* Mail addresses are looked up and names before an account is made.
LEMMA InsertFirst ==
  ASSUME NEW c \in Calls \ (AccountCalls \cup {"findFirst"}), NEW t \in Seq(Calls), NEW u
  PROVE  /\ <<c, "insert">> \o t \in Seq(Calls)
         /\ Founded(<<c, "insert">> \o t) /\ Findable(<<c, "insert">> \o t, u)
<1> DEFINE s == <<c, "insert">>
           w == s \o t
<1>1. s \in Seq(Calls) /\ Len(s) = 2 /\ s[1] = c /\ s[2] = "insert"
  BY DEF Calls
<1> HIDE DEF s
<1>2. w \in Seq(Calls) /\ Len(w) = Len(s) + Len(t)
  BY <1>1, Joined
<1>3. w[1] = c /\ w[2] = "insert"
  <2>0. \A i \in 1..Len(s) : w[i] = s[i]
    <3>1. s \in Seq(Calls) /\ t \in Seq(Calls)
      BY <1>1
    <3> QED BY <3>1, Joined
  <2> HIDE DEF w
  <2>1. w[1] = s[1] /\ w[2] = s[2]
    BY <2>0, <1>1
  <2> QED BY <1>1, <2>1
<1> HIDE DEF w
<1>4. ASSUME NEW i \in 1..Len(w), w[i] \in AccountCalls \cup {"findFirst"}
      PROVE  \E j \in 1..(i - 1) : w[j] = "insert"
  <2>1. i # 1
    BY <1>3, <1>4
  <2>3. i # 2
    BY <1>3, <1>4 DEF AccountCalls
  <2>2. 2 \in 1..(i - 1)
    BY <2>1, <2>3, <1>2
  <2> QED BY <2>2, <1>3
<1> QED BY <1>1, <1>2, <1>4 DEF Founded, Findable, After, w, s

ClearCalls == {"clearLists", "clearRoles", "clearUsers"}
LEMMA Widened ==
  ASSUME NEW A, NEW B, A \subseteq B, NEW s \in Seq(A)
  PROVE  s \in Seq(B)
OBVIOUS

LEMMA ClearIs == Clear \in Seq(ClearCalls)
  BY DEF Clear, ClearCalls

LEMMA AddRoleIs == AddRole \in Seq({"add"} \cup ClearCalls)
<1> DEFINE C == {"add"} \cup ClearCalls
<1>1. <<"add">> \in Seq(C) /\ Clear \in Seq(C)
  BY DEF Clear, ClearCalls
<1> HIDE DEF C
<1>2. <<"add">> \o Clear \in Seq(C)
  BY <1>1, Joined
<1> QED BY <1>2 DEF AddRole, C

LEMMA UpsertIs ==
  /\ Upsert \in Seq({"findName", "insert", "add"} \cup ClearCalls)
  /\ Upsert = <<"findName", "insert">> \o (AddRole \o Clear)
<1> DEFINE C == {"findName", "insert", "add"} \cup ClearCalls
<1>1. <<"findName", "insert">> \in Seq(C) /\ Clear \in Seq(C)
  BY DEF Clear, ClearCalls
<1>2. AddRole \in Seq(C)
  BY AddRoleIs
<1> HIDE DEF C
<1>3. Upsert = <<"findName", "insert">> \o (AddRole \o Clear)
  BY <1>1, <1>2, ConcatAssociative DEF Upsert
<1>4. AddRole \o Clear \in Seq(C)
  BY <1>1, <1>2, Joined
<1>5. <<"findName", "insert">> \o (AddRole \o Clear) \in Seq(C)
  BY <1>1, <1>4, Joined
<1> QED BY <1>3, <1>5 DEF C

LEMMA Associative ==
  ASSUME NEW a, NEW b, NEW c, a \in Seq(Calls) /\ b \in Seq(Calls) /\ c \in Seq(Calls)
  PROVE  (a \o b) \o c = a \o (b \o c)
BY ConcatAssociative

Links(a, b, c, d, e) == {a, b, c, d, e} \subseteq Seq(Calls)

Regrouped(a, b, c, d, e) == a \o b \o c \o d \o e = a \o (b \o c \o d \o e)

LEMMA Chained ==
  ASSUME NEW a, NEW b, NEW c, NEW d, NEW e, Links(a, b, c, d, e)
  PROVE  Regrouped(a, b, c, d, e)
<1>1. {a, b, c, d, e} \subseteq Seq(Calls)
  BY DEF Links
<1>2. PICK x, y : x = b \o c /\ y = x \o d
  OBVIOUS
<1>3. b \in Seq(Calls) /\ c \in Seq(Calls)
  BY <1>1
<1>4. a \in Seq(Calls)
  BY <1>1
<1>5. d \in Seq(Calls)
  BY <1>1
<1>6. e \in Seq(Calls)
  BY <1>1
<1>7. x \in Seq(Calls)
  BY <1>2, <1>3, Joined
<1>8. y \in Seq(Calls)
  BY <1>2, <1>5, <1>7, Joined
<1>9. (a \o b) \o c = a \o x
  BY <1>2, <1>3, <1>4, Associative
<1>10. (a \o x) \o d = a \o (x \o d)
  BY <1>4, <1>5, <1>7, Associative
<1>11. (a \o y) \o e = a \o (y \o e)
  BY <1>4, <1>6, <1>8, Associative
<1> QED BY <1>2, <1>9, <1>10, <1>11 DEF Regrouped

FindCalls == {"findFirst", "getRoles", "repair"}
LEMMA FindOneIs ==
  /\ FindOne \in Seq(FindCalls)
  /\ Founded(FindOne)
  /\ \A u : Named(u) => Findable(FindOne, u)
<1>1. FindOne \in Seq(FindCalls)
  BY DEF FindOne, FindCalls
<1>2. Len(FindOne) = 3 /\ FindOne[1] = "findFirst"
  BY DEF FindOne
<1>3. Founded(FindOne)
  <2>1. ASSUME NEW i \in 1..Len(FindOne), FindOne[i] \in AccountCalls
        PROVE  \E j \in 1..(i - 1) : FindOne[j] \in {"insert", "findFirst"}
    <3>1. i # 1
      BY <1>2, <2>1 DEF AccountCalls
    <3>2. 1 \in 1..(i - 1)
      BY <1>2, <3>1
    <3> QED BY <3>2, <1>2
  <2> QED BY <2>1 DEF Founded, After
<1> QED BY <1>1, <1>3 DEF Findable

CreateCalls == {"checkMail", "insert", "add", "insertRow"} \cup ClearCalls \cup FindCalls
LEMMA CreateIs ==
  /\ Create \in Seq(CreateCalls)
  /\ \A u : Founded(Create) /\ Findable(Create, u)
<1> DEFINE C == CreateCalls
           found == <<"checkMail", "insert">>
           put == <<"insertRow">>
<1>1. found \in Seq(C) /\ put \in Seq(C)
  BY DEF CreateCalls
<1>2. AddRole \in Seq(C) /\ Clear \in Seq(C) /\ FindOne \in Seq(C)
  <2>1. ClearCalls \subseteq C /\ FindCalls \subseteq C /\ {"add"} \cup ClearCalls \subseteq C
    BY DEF CreateCalls
  <2> HIDE DEF C
  <2>2. AddRole \in Seq(C)
    BY <2>1, AddRoleIs, Widened
  <2>3. Clear \in Seq(C)
    BY <2>1, ClearIs, Widened
  <2>4. FindOne \in Seq(C)
    BY <2>1, FindOneIs, Widened
  <2> QED BY <2>2, <2>3, <2>4
<1>3. Create = found \o AddRole \o Clear \o put \o FindOne
  BY DEF Create
<1>4. C \subseteq Calls
  BY DEF CreateCalls, ClearCalls, FindCalls, Calls
<1> HIDE DEF C, found, put
<1>5. PICK v, w, x, y, z : v = found /\ w = AddRole /\ x = Clear /\ y = put /\ z = FindOne
  OBVIOUS
<1>6. /\ v \in Seq(C) /\ w \in Seq(C) /\ x \in Seq(C) /\ y \in Seq(C) /\ z \in Seq(C)
  BY <1>1, <1>2, <1>5
<1>7. PICK t : t = w \o x \o y \o z
  OBVIOUS
<1>8. t \in Seq(C) /\ found \o t \in Seq(C)
  <2>1. w \o x \in Seq(C)
    BY <1>6, Joined
  <2>2. w \o x \o y \in Seq(C)
    BY <1>6, <2>1, Joined
  <2>3. t \in Seq(C)
    BY <1>6, <1>7, <2>2, Joined
  <2> QED BY <1>1, <2>3, Joined
<1>9. Create = found \o t
  <2>1. v \in Seq(Calls) /\ w \in Seq(Calls)
    BY <1>4, <1>6, Widened
  <2>2. x \in Seq(Calls) /\ y \in Seq(Calls) /\ z \in Seq(Calls)
    BY <1>4, <1>6, Widened
  <2>3. Links(v, w, x, y, z)
    BY <2>1, <2>2 DEF Links
  <2>4. Regrouped(v, w, x, y, z)
    BY <2>3, Chained
  <2>5. v \o w \o x \o y \o z = v \o (w \o x \o y \o z)
    BY <2>4 DEF Regrouped
  <2> QED BY <1>3, <1>5, <1>7, <2>5
<1>10. found \o t \in Seq(C)
  BY <1>8
<1>11. t \in Seq(Calls)
  BY <1>4, <1>8, Widened
<1>12. "checkMail" \in Calls \ (AccountCalls \cup {"findFirst"})
  BY DEF Calls, AccountCalls
<1>13. \A u : Founded(found \o t) /\ Findable(found \o t, u)
  BY <1>11, <1>12, InsertFirst DEF found
<1> QED BY <1>9, <1>10, <1>13 DEF C

DropCalls == {"loadRoles"} \cup ClearCalls
LEMMA DropRolesIs == DropRoles \in Seq(DropCalls)
<1>1. <<"loadRoles">> \in Seq(DropCalls) /\ Clear \in Seq(DropCalls)
  BY DEF DropCalls, Clear, ClearCalls
<1>2. <<"loadRoles">> \o Clear \in Seq(DropCalls)
  BY <1>1, Joined
<1> QED BY <1>2 DEF DropRoles

UpdateCalls == {"checkMail", "patch", "updateRow"} \cup DropCalls \cup FindCalls
LEMMA UpdateIs ==
  ASSUME NEW m, NEW r
  PROVE  Update(m, r) \in Seq(IF r = None THEN UpdateCalls ELSE UpdateCalls \cup {"add"})
<1> DEFINE C == IF r = None THEN UpdateCalls ELSE UpdateCalls \cup {"add"}
<1>1. PICK a : a = IF m = None THEN <<>> ELSE <<"checkMail">>
  OBVIOUS
<1>2. PICK b : b = IF r = None THEN <<>> ELSE DropRoles \o AddRole
  OBVIOUS
<1>3. UpdateCalls \subseteq C
  OBVIOUS
<1>4. a \in Seq(C)
  <2>1. <<"checkMail">> \in Seq(UpdateCalls) /\ <<>> \in Seq(UpdateCalls)
    BY DEF UpdateCalls
  <2> HIDE DEF C
  <2>2. a \in Seq(UpdateCalls)
    BY <1>1, <2>1
  <2> QED BY <1>3, <2>2
<1>5. b \in Seq(C)
  <2>1. CASE r = None
    BY <1>2, <2>1
  <2>2. CASE r # None
    <3>1. C = UpdateCalls \cup {"add"}
      BY <2>2
    <3> HIDE DEF C
    <3>2. DropRoles \in Seq(C) /\ AddRole \in Seq(C)
      BY <3>1, DropRolesIs, AddRoleIs DEF UpdateCalls, DropCalls
    <3>3. DropRoles \o AddRole \in Seq(C)
      BY <3>2, Joined
    <3> QED BY <1>2, <2>2, <3>3
  <2> QED BY <2>1, <2>2
<1>6. Clear \in Seq(UpdateCalls) /\ FindOne \in Seq(UpdateCalls)
  BY ClearIs, FindOneIs DEF UpdateCalls, DropCalls
<1>7. <<"patch">> \in Seq(UpdateCalls) /\ <<"updateRow">> \in Seq(UpdateCalls)
  BY DEF UpdateCalls
<1> HIDE DEF C
<1>8. Clear \in Seq(C) /\ FindOne \in Seq(C) /\ <<"patch">> \in Seq(C) /\ <<"updateRow">> \in Seq(C)
  BY <1>3, <1>6, <1>7
<1>9. a \o <<"patch">> \o b \o Clear \o <<"updateRow">> \o FindOne \in Seq(C)
  <2>1. a \o <<"patch">> \in Seq(C)
    BY <1>4, <1>8, Joined
  <2>2. a \o <<"patch">> \o b \in Seq(C)
    BY <1>5, <2>1, Joined
  <2>3. a \o <<"patch">> \o b \o Clear \in Seq(C)
    BY <1>8, <2>2, Joined
  <2>4. a \o <<"patch">> \o b \o Clear \o <<"updateRow">> \in Seq(C)
    BY <1>8, <2>3, Joined
  <2> QED BY <1>8, <2>4, Joined
<1> QED BY <1>1, <1>2, <1>9 DEF Update, C

BanCalls == {"deactivate", "listSessions", "listTokens", "endSession", "revoke"} \cup ClearCalls
LEMMA BanIs ==
  /\ Ban \in Seq(BanCalls)
  /\ Ban = <<"deactivate", "listSessions", "listTokens", "clearLists", "clearRoles", "clearUsers">>
<1> DEFINE b == <<"deactivate", "listSessions", "listTokens">>
           w == <<"deactivate", "listSessions", "listTokens", "clearLists", "clearRoles", "clearUsers">>
<1>1. b \in Seq(BanCalls) /\ Clear \in Seq(BanCalls) /\ w \in Seq(BanCalls)
  BY DEF BanCalls, Clear, ClearCalls
<1>2. Len(b) = 3 /\ Len(Clear) = 3 /\ Len(w) = 6
  BY DEF Clear
<1>3. \A i \in 1..3 : w[i] = b[i] /\ w[3 + i] = Clear[i]
  BY DEF Clear
<1> HIDE DEF b, w
<1>4. b \o Clear \in Seq(BanCalls) /\ Len(b \o Clear) = 6
  <2>1. b \o Clear \in Seq(BanCalls)
    BY <1>1, Joined
  <2>2. Len(b \o Clear) = Len(b) + Len(Clear)
    BY <1>1, Joined
  <2> QED BY <1>2, <2>1, <2>2
<1>5. ASSUME NEW i \in 1..6 PROVE (b \o Clear)[i] = w[i]
  <2>1. \A k \in 1..Len(b) : (b \o Clear)[k] = b[k]
    BY <1>1, Joined
  <2>2. \A k \in 1..Len(Clear) : (b \o Clear)[Len(b) + k] = Clear[k]
    BY <1>1, Joined
  <2>3. i \in 1..3 \/ (i - 3 \in 1..3 /\ i = 3 + (i - 3))
    OBVIOUS
  <2> QED BY <2>1, <2>2, <2>3, <1>2, <1>3
<1>6. b \o Clear = w
  BY <1>1, <1>2, <1>4, <1>5, SeqEqual
<1> QED BY <1>1, <1>6 DEF Ban, b, w

LEMMA RolesAre ==
  /\ DropRoles \o AddRole \in Seq({"add"} \cup DropCalls)
  /\ <<"removeRole">> \o Clear \in Seq({"removeRole"} \cup ClearCalls)
  /\ Unban \in Seq({"activate"} \cup ClearCalls)
<1>1. DropRoles \o AddRole \in Seq({"add"} \cup DropCalls)
  <2>1. PICK C : C = {"add"} \cup DropCalls
    OBVIOUS
  <2>2. DropRoles \in Seq(C) /\ AddRole \in Seq(C)
    BY <2>1, DropRolesIs, AddRoleIs DEF DropCalls
  <2> QED BY <2>1, <2>2, Joined
<1>2. <<"removeRole">> \o Clear \in Seq({"removeRole"} \cup ClearCalls)
  <2>1. PICK C : C = {"removeRole"} \cup ClearCalls
    OBVIOUS
  <2>2. Clear \in Seq(C) /\ <<"removeRole">> \in Seq(C)
    BY <2>1, ClearIs
  <2> QED BY <2>1, <2>2, Joined
<1>3. Unban \in Seq({"activate"} \cup ClearCalls)
  <2>1. PICK C : C = {"activate"} \cup ClearCalls
    OBVIOUS
  <2>2. Clear \in Seq(C) /\ <<"activate">> \in Seq(C)
    BY <2>1, ClearIs
  <2> QED BY <2>1, <2>2, Joined DEF Unban
<1> QED BY <1>1, <1>2, <1>3

\* What the calls of a request take is there if it is for one of the calls it may make.
LEMMA InformedIf ==
  ASSUME NEW r, NEW C, NEW t \in Seq(C),
         "insert" \in C \/ "insertRow" \in C => r.name \in Names,
         "add" \in C \/ "findRole" \in C \/ "setList" \in C => r.role \in Roles,
         "rowOfUser" \notin C
  PROVE  Informed(t, r)
<1>1. \A i \in 1..Len(t) : t[i] \in C
  OBVIOUS
<1> QED BY <1>1 DEF Informed

LEMMA BeginOK ==
  ASSUME RequestsOK, Grows, NEW p \in Procs, NEW kind \in Kinds, NEW todo, NEW r \in ReqType,
         Begin(p, kind, todo, r), todo \in Seq(Calls), Informed(todo, r),
         Held(r.user) \/ (Founded(todo) /\ Findable(todo, r.user))
  PROVE  RequestsOK'
<1>1. PICK s : s = [r EXCEPT !.kind = kind, !.todo = todo]
  OBVIOUS
<1>2. /\ s \in ReqType /\ s.todo = todo /\ s.name = r.name /\ s.role = r.role
      /\ s.user = r.user /\ s.users = r.users
  BY <1>1 DEF ReqType
<1>3. Informed(s.todo, s)
  BY <1>2 DEF Informed
<1>4. ReqOK(s)
  BY <1>2, <1>3 DEF ReqOK
<1>5. ReqOK(s)'
  BY <1>2, <1>4, ReqOKGrows
<1>6. req' = [req EXCEPT ![p] = s]
  BY <1>1 DEF Begin
<1> QED BY <1>2, <1>5, <1>6, PutOK

LEMMA AboutIs ==
  ASSUME NEW u \in Users, NEW r \in Roles \cup {None}
  PROVE  About(u, r) \in ReqType /\ About(u, r).user = u /\ About(u, r).role = r
BY IdleNext DEF About, ReqType

LEMMA RequestAboutOK ==
  ASSUME Stored, RequestsOK, Grows, NEW p \in Procs, NEW u \in Users, RequestAbout(p, u)
  PROVE  RequestsOK'
<1>a. PICK x : x = About(u, None)
  OBVIOUS
<1>b. x \in ReqType /\ x.user = u
  BY <1>a, AboutIs
<1>c. PICK y : y = About(u, "photographer")
  OBVIOUS
<1>d. y \in ReqType /\ y.user = u /\ y.role = "photographer"
  BY <1>c, AboutIs DEF Roles
<1>e. HasAccount(u) => Held(u)
  BY DEF Held
<1>f. {"find", "list", "ban", "unban", "upgrade", "expire", "update"} \subseteq Kinds
  BY DEF Kinds
<1>1. ASSUME NEW kind \in {"find", "list"}, HasRow(u), Begin(p, kind, FindOne, x)
      PROVE  RequestsOK'
  <2>1. FindOne \in Seq(Calls)
    BY FindOneIs DEF FindCalls, Calls
  <2>2. Founded(FindOne) /\ Findable(FindOne, u)
    BY <1>1, FindOneIs DEF Stored, RowsOK, Named
  <2>3. Informed(FindOne, x)
    <3>1. \A i \in 1..Len(FindOne) : FindOne[i] \in FindCalls
      BY FindOneIs
    <3> QED BY <3>1 DEF Informed, FindCalls
  <2> QED BY <1>1, <1>b, <1>f, <2>1, <2>2, <2>3, BeginOK
<1>2. ASSUME NEW kind \in {"ban", "unban"}, NEW t \in {Ban, Unban}, HasAccount(u), Begin(p, kind, t, x)
      PROVE  RequestsOK'
  <2>0. PICK C : C = BanCalls \cup {"activate"}
    OBVIOUS
  <2>1. t \in Seq(C)
    <3>1. t \in Seq(BanCalls) \/ t \in Seq({"activate"} \cup ClearCalls)
      BY BanIs, RolesAre
    <3>2. BanCalls \subseteq C /\ {"activate"} \cup ClearCalls \subseteq C
      BY <2>0 DEF BanCalls
    <3> QED BY <3>1, <3>2
  <2>2. t \in Seq(Calls)
    BY <2>0, <2>1 DEF BanCalls, ClearCalls, Calls
  <2>3. Informed(t, x)
    <3>1. \A i \in 1..Len(t) : t[i] \in C
      BY <2>1
    <3> QED BY <2>0, <3>1 DEF Informed, BanCalls, ClearCalls
  <2> QED BY <1>2, <1>b, <1>e, <1>f, <2>2, <2>3, BeginOK
<1>3. ASSUME NEW kind \in {"upgrade", "expire"},
             NEW t \in {DropRoles \o AddRole, <<"removeRole">> \o Clear}, HasAccount(u),
             Begin(p, kind, t, y)
      PROVE  RequestsOK'
  <2>0. PICK C : C = {"add", "removeRole"} \cup DropCalls
    OBVIOUS
  <2>1. t \in Seq(C)
    <3>1. t \in Seq({"add"} \cup DropCalls) \/ t \in Seq({"removeRole"} \cup ClearCalls)
      BY RolesAre
    <3>2. {"add"} \cup DropCalls \subseteq C /\ {"removeRole"} \cup ClearCalls \subseteq C
      BY <2>0 DEF DropCalls
    <3> QED BY <3>1, <3>2
  <2>2. t \in Seq(Calls)
    BY <2>0, <2>1 DEF DropCalls, ClearCalls, Calls
  <2>3. Informed(t, y)
    <3>1. \A i \in 1..Len(t) : t[i] \in C
      BY <2>1
    <3> QED BY <1>d, <2>0, <3>1 DEF Informed, DropCalls, ClearCalls, Roles
  <2> QED BY <1>3, <1>d, <1>e, <1>f, <2>2, <2>3, BeginOK
<1>4. ASSUME HasAccount(u), NEW m \in Mails \cup {None}, NEW r \in Roles \cup {None},
             NEW a \in BOOLEAN \cup {None},
             Begin(p, "update", Update(m, r), [About(u, r) EXCEPT !.mail = m, !.active = a])
      PROVE  RequestsOK'
  <2>1. PICK s : s = [About(u, r) EXCEPT !.mail = m, !.active = a]
    OBVIOUS
  <2>2. s \in ReqType /\ s.user = u /\ s.role = r
    <3>1. PICK o : o = About(u, r)
      OBVIOUS
    <3>2. o \in ReqType /\ o.user = u /\ o.role = r
      BY <3>1, AboutIs
    <3>3. s.user = u /\ s.role = r
      BY <2>1, <3>1, <3>2 DEF ReqType
    <3>4. s \in ReqType
      BY <2>1, <3>1, <3>2 DEF ReqType
    <3> QED BY <3>3, <3>4
  <2>3. PICK C : C = IF r = None THEN UpdateCalls ELSE UpdateCalls \cup {"add"}
    OBVIOUS
  <2>4. PICK t : t = Update(m, r)
    OBVIOUS
  <2>5. t \in Seq(C)
    BY <2>3, <2>4, UpdateIs
  <2>6. t \in Seq(Calls)
    BY <2>3, <2>5 DEF UpdateCalls, DropCalls, FindCalls, ClearCalls, Calls
  <2>7. Informed(t, s)
    <3>1. \A i \in 1..Len(t) : t[i] \in C
      BY <2>5
    <3>2. "add" \in C => r \in Roles
      BY <2>3 DEF UpdateCalls, DropCalls, FindCalls, ClearCalls
    <3>3. C \cap {"insert", "insertRow", "rowOfUser", "findRole", "setList"} = {}
      BY <2>3 DEF UpdateCalls, DropCalls, FindCalls, ClearCalls
    <3> QED BY <2>2, <3>1, <3>2, <3>3 DEF Informed
  <2> QED BY <1>4, <1>e, <1>f, <2>1, <2>2, <2>4, <2>6, <2>7, BeginOK
<1> QED BY <1>a, <1>c, <1>1, <1>2, <1>3, <1>4 DEF RequestAbout

LEMMA RequestOK ==
  ASSUME Stored, RequestsOK, Grows, NEW p \in Procs, Request(p)
  PROVE  RequestsOK'
<1>0. setting.users \subseteq Users
  BY AccountsAssumption DEF Stored, TablesOK
<1>1. CASE \E u \in setting.users : RequestAbout(p, u)
  BY <1>0, <1>1, RequestAboutOK
<1>2. ASSUME NEW n \in Names \ Mails, NEW m \in Mails, NEW r \in Roles,
             Begin(p, "create", Create, [Idle EXCEPT !.name = n, !.mail = m, !.role = r])
      PROVE  RequestsOK'
  <2>1. PICK s : s = [Idle EXCEPT !.name = n, !.mail = m, !.role = r]
    OBVIOUS
  <2>2. s \in ReqType
    BY <2>1, IdleNext DEF ReqType
  <2>3. s.name = n /\ s.role = r /\ s.user = None
    BY <2>1 DEF Idle
  <2>4. PICK t : t = Create
    OBVIOUS
  <2>5. t \in Seq(Calls) /\ Founded(t) /\ Findable(t, s.user)
    BY <2>4, CreateIs DEF CreateCalls, ClearCalls, FindCalls, Calls
  <2>6. Informed(t, s)
    <3>1. \A i \in 1..Len(t) : t[i] \in CreateCalls
      BY <2>4, CreateIs
    <3> QED BY <2>3, <3>1 DEF Informed, CreateCalls, ClearCalls, FindCalls
  <2>7. "create" \in Kinds
    BY DEF Kinds
  <2> QED BY <1>2, <2>1, <2>2, <2>4, <2>5, <2>6, <2>7, BeginOK
<1>3. ASSUME NEW r \in Roles, Begin(p, "listRole", <<"findRole">>, About(None, r)) PROVE RequestsOK'
  <2>1. PICK s : s = About(None, r)
    OBVIOUS
  <2>2. s \in ReqType
    BY <2>1, IdleNext DEF About, ReqType
  <2>3. s.role = r
    BY <2>1 DEF About, Idle
  <2>4. PICK t : t = <<"findRole">>
    OBVIOUS
  <2>5. t \in Seq(Calls) /\ Len(t) = 1 /\ t[1] = "findRole"
    BY <2>4 DEF Calls
  <2>6. Founded(t) /\ Findable(t, s.user) /\ Informed(t, s)
    BY <2>3, <2>5 DEF Founded, Findable, Informed, AccountCalls
  <2>7. "listRole" \in Kinds
    BY DEF Kinds
  <2> QED BY <1>3, <2>1, <2>2, <2>4, <2>5, <2>6, <2>7, BeginOK
<1>4. CASE Begin(p, "sync", <<"countUsers">>, Idle)
  <2>4. PICK t : t = <<"countUsers">>
    OBVIOUS
  <2>5. t \in Seq(Calls) /\ Len(t) = 1 /\ t[1] = "countUsers"
    BY <2>4 DEF Calls
  <2>6. Founded(t) /\ Findable(t, Idle.user) /\ Informed(t, Idle)
    BY <2>5 DEF Founded, Findable, Informed, AccountCalls
  <2>7. "sync" \in Kinds
    BY DEF Kinds
  <2> QED BY <1>4, <2>4, <2>5, <2>6, <2>7, IdleNext, BeginOK
<1> QED BY <1>1, <1>2, <1>3, <1>4 DEF Request

-----------------------------------------------------------------------------
(* The calls, for the tables and what is still to be awaited *)

\* What makes no account or row needs no more than the tables as they are.
LEMMA SameTables ==
  ASSUME Stored, UNCHANGED <<setting, identityVars, row, cacheVars, history>>
  PROVE  Stored' /\ Grows
BY DEF identityVars, cacheVars, history, Stored, TablesOK, CachesOK, RowsOK, KnownOK, AllOK, Grows,
       HasAccount, HasRow, Named, Accounts

\* The account at the head of a call about an account is there.
LEMMA HeldAtHead ==
  ASSUME RequestsOK, NEW p \in Procs, req[p].todo # <<>>, Head(req[p].todo) \in AccountCalls
  PROVE  Held(req[p].user)
<1>1. ReqOK(req[p]) /\ req[p].todo \in Seq(Calls)
  BY DEF RequestsOK, ReqType
<1>2. 1 \in 1..Len(req[p].todo) /\ req[p].todo[1] = Head(req[p].todo)
  BY <1>1, RestOf
<1>3. ~After(req[p].todo, 1, {"insert", "findFirst"})
  BY DEF After
<1> QED BY <1>1, <1>2, <1>3 DEF ReqOK, Founded

LEMMA HeadIs ==
  ASSUME RequestsOK, NEW p \in Procs, NEW c, Doing(p, c)
  PROVE  /\ req[p] \in ReqType /\ ReqOK(req[p]) /\ req[p].todo \in Seq(Calls)
         /\ req[p].todo # <<>> /\ Head(req[p].todo) = c
         /\ Rest(p) \in Seq(Calls)
         /\ c \in AccountCalls => Held(req[p].user)
         /\ c \in {"insert", "insertRow"} => req[p].name \in Names
         /\ c \in {"add", "findRole", "setList"} => req[p].role \in Roles
         /\ c = "rowOfUser" => req[p].users \subseteq Accounts
         /\ c = "findFirst" => Held(req[p].user) \/ Named(req[p].user)
<1>1. req[p] \in ReqType /\ ReqOK(req[p]) /\ req[p].todo \in Seq(Calls)
  BY DEF RequestsOK, ReqType
<1>2. req[p].todo # <<>> /\ Head(req[p].todo) = c
  BY DEF Doing
<1>3. 1 \in 1..Len(req[p].todo) /\ req[p].todo[1] = c /\ Rest(p) \in Seq(Calls)
  BY <1>1, <1>2, RestOf DEF Rest
<1>4. Informed(req[p].todo, req[p])
  BY <1>1 DEF ReqOK
<1>5. c = "findFirst" => Held(req[p].user) \/ Named(req[p].user)
  <2>1. ~After(req[p].todo, 1, {"insert"})
    BY DEF After
  <2> QED BY <1>1, <1>3, <2>1 DEF ReqOK, Findable
<1> QED BY <1>1, <1>2, <1>3, <1>4, <1>5, HeldAtHead DEF Informed

\* What the rest of a request takes is there.
LEMMA InformedRest ==
  ASSUME NEW t \in Seq(Calls), t # <<>>, NEW r, Informed(t, r),
         NEW s, s.name = r.name, s.role = r.role, s.users \subseteq r.users
  PROVE  Informed(Tail(t), s)
<1>1. \A i \in 1..Len(Tail(t)) : i + 1 \in 1..Len(t) /\ Tail(t)[i] = t[i + 1]
  BY RestOf
<1> QED BY <1>1 DEF Informed

LEMMA InformedJoined ==
  ASSUME NEW s \in Seq(Calls), NEW t \in Seq(Calls), NEW r, Informed(s, r), Informed(t, r)
  PROVE  Informed(s \o t, r)
<1>1. PICK w : w = s \o t
  OBVIOUS
<1>2. \A i \in 1..Len(w) : (\E k \in 1..Len(s) : w[i] = s[k]) \/ (\E k \in 1..Len(t) : w[i] = t[k])
  <2>1. ASSUME NEW i \in 1..Len(s \o t)
        PROVE  (\E k \in 1..Len(s) : (s \o t)[i] = s[k]) \/ (\E k \in 1..Len(t) : (s \o t)[i] = t[k])
    BY JoinedAt
  <2> QED BY <1>1, <2>1
<1>3. Informed(w, r)
  BY <1>2 DEF Informed
<1> QED BY <1>1, <1>3

LEMMA InformedPlain ==
  ASSUME NEW t, NEW r,
         \A i \in 1..Len(t) : t[i] \notin {"insert", "insertRow", "add", "findRole", "setList", "rowOfUser"}
  PROVE  Informed(t, r)
BY DEF Informed

LEMMA InformedOne ==
  ASSUME NEW c \in Calls, NEW t \in Seq(Calls), NEW r, Informed(t, r),
         c \notin {"insert", "insertRow", "add", "findRole", "setList", "rowOfUser"}
  PROVE  <<c>> \o t \in Seq(Calls) /\ Informed(<<c>> \o t, r)
<1>1. PICK s : s = <<c>>
  OBVIOUS
<1>2. s \in Seq(Calls) /\ Len(s) = 1 /\ s[1] = c
  BY <1>1
<1>3. Informed(s, r)
  BY <1>2 DEF Informed
<1> QED BY <1>1, <1>2, <1>3, InformedJoined, Joined

LEMMA InformedGrows ==
  ASSUME Grows, NEW t, NEW r, Informed(t, r)
  PROVE  Informed(t, r)'
<1>1. Accounts \subseteq Accounts'
  BY DEF Grows, Accounts
<1> QED BY <1>1 DEF Informed

LEMMA HeldSet ==
  ASSUME RequestsOK, Grows, NEW p \in Procs, NEW r \in ReqType, Set(p, r), Held(r.user)',
         Informed(r.todo, r)
  PROVE  RequestsOK'
<1>1. ReqOK(r)'
  BY InformedGrows DEF ReqOK
<1> QED BY <1>1, SetOK

\* A request that goes on with what was read.
LEMMA FindFirstOK ==
  ASSUME Stored, RequestsOK, NEW p \in Procs, FindFirst(p)
  PROVE  Stored' /\ RequestsOK'
<1>0. Stored' /\ Grows
  BY SameTables DEF FindFirst
<1>1. PICK o : o = req[p]
  OBVIOUS
<1>2. PICK u : u = o.user
  OBVIOUS
<1>3. Doing(p, "findFirst")
  BY DEF FindFirst
<1>4. /\ o \in ReqType /\ o.todo \in Seq(Calls) /\ o.todo # <<>>
      /\ Rest(p) \in Seq(Calls) /\ (Held(u) \/ Named(u)) /\ Informed(o.todo, o)
  BY <1>1, <1>2, <1>3, HeadIs DEF ReqOK
<1>5. u \in Users
  BY <1>4 DEF Held, Named
<1>6. CASE userCache[u] # None
  <2>1. Held(u)
    BY <1>5, <1>6 DEF Stored, KnownOK, Held
  <2> QED BY <1>0, <1>1, <1>2, <1>4, <1>6, <2>1, ProceedOK DEF FindFirst
<1>7. CASE userCache[u] = None /\ HasAccount(u)
  <2>1. PICK s : s = [o EXCEPT !.active = account[u].active, !.todo = <<"setFirst">> \o Rest(p)]
    OBVIOUS
  <2>2. /\ s.todo = <<"setFirst">> \o Rest(p) /\ s.user = u /\ s.name = o.name /\ s.role = o.role
        /\ s.users = o.users
    BY <1>2, <1>4, <2>1 DEF ReqType
  <2>3. Informed(Rest(p), s)
    BY <1>1, <1>4, <2>2, InformedRest DEF Rest
  <2>4. s.todo \in Seq(Calls) /\ Informed(s.todo, s)
    BY <1>4, <2>2, <2>3, InformedOne DEF Calls
  <2>5. account[u].active \in BOOLEAN
    BY <1>5, <1>7 DEF Stored, TablesOK, HasAccount, AccountType
  <2>6. s \in ReqType
    BY <1>4, <2>1, <2>2, <2>4, <2>5 DEF ReqType
  <2>7. Held(s.user)'
    BY <1>0, <1>5, <1>7, <2>2 DEF Held, Grows
  <2>8. Set(p, s)
    BY <1>1, <1>2, <1>7, <2>1 DEF FindFirst
  <2> QED BY <1>0, <2>4, <2>6, <2>7, <2>8, HeldSet
<1>8. CASE userCache[u] = None /\ ~HasAccount(u) /\ o.kind = "list"
  BY <1>0, <1>1, <1>2, <1>8, StopOK DEF FindFirst
<1>9. CASE userCache[u] = None /\ ~HasAccount(u) /\ o.kind # "list"
  <2>1. PICK s : s = [o EXCEPT !.name = row[u].name, !.mail = row[u].mail, !.role = "customer", !.todo = Upsert]
    OBVIOUS
  <2>2. row[u].name \in Names /\ row[u].mail \in Mails \cup {None}
    BY <1>4, <1>5, <1>9 DEF Held, Named, Stored, TablesOK, RowType
  <2>3. s.todo = Upsert /\ s.user = u /\ s.name = row[u].name /\ s.role = "customer"
    BY <1>2, <1>4, <2>1 DEF ReqType
  <2>4. Upsert \in Seq(Calls) /\ Founded(Upsert) /\ Findable(Upsert, u)
    <3>1. AddRole \in Seq(Calls) /\ Clear \in Seq(Calls)
      BY AddRoleIs, ClearIs DEF ClearCalls, Calls
    <3>2. AddRole \o Clear \in Seq(Calls)
      BY <3>1, Joined
    <3>3. "findName" \in Calls \ (AccountCalls \cup {"findFirst"})
      BY DEF Calls, AccountCalls
    <3> QED BY <3>2, <3>3, UpsertIs, InsertFirst
  <2>5. Informed(s.todo, s)
    <3>1. \A i \in 1..Len(Upsert) : Upsert[i] \in {"findName", "insert", "add"} \cup ClearCalls
      BY UpsertIs
    <3> QED BY <2>2, <2>3, <3>1 DEF Informed, ClearCalls, Roles
  <2>6. s \in ReqType
    BY <1>4, <2>1, <2>2, <2>4 DEF ReqType, Roles
  <2>7. ReqOK(s)
    BY <2>3, <2>4, <2>5 DEF ReqOK
  <2>8. ReqOK(s)'
    BY <1>0, <2>6, <2>7, ReqOKGrows
  <2>9. Set(p, s)
    BY <1>1, <1>2, <1>9, <2>1 DEF FindFirst
  <2> QED BY <1>0, <2>6, <2>8, <2>9, SetOK
<1> QED BY <1>6, <1>7, <1>8, <1>9

\* Writing the caches.
LEMMA SetFirstOK ==
  ASSUME Stored, RequestsOK, NEW p \in Procs, SetFirst(p)
  PROVE  Stored' /\ RequestsOK'
<1> PICK u : u = req[p].user
  OBVIOUS
<1>1. Doing(p, "setFirst") /\ Proceed(p) /\ userCache' = [userCache EXCEPT ![u] = req[p].active]
  BY DEF SetFirst
<1>2. req[p].active \in BOOLEAN \cup {None} /\ Held(u) /\ req[p].todo # <<>> /\ Head(req[p].todo) = "setFirst"
  <2>1. "setFirst" \in AccountCalls
    BY DEF AccountCalls
  <2> QED BY <1>1, <2>1, HeadIs DEF ReqType
<1>3. Grows
  BY DEF SetFirst, identityVars, Grows, HasAccount, Named
<1>4. userCache' \in [Users -> BOOLEAN \cup {None}]
  BY <1>1, <1>2 DEF Stored, CachesOK
<1>5. \A v \in Users : userCache'[v] # None => HasAccount(v)
  BY <1>1, <1>2 DEF Stored, CachesOK, KnownOK, Held
<1>6. Stored'
  <2>1. TablesOK' /\ RowsOK' /\ AllOK'
    BY DEF SetFirst, identityVars, history, Stored, TablesOK, RowsOK, AllOK, HasRow, HasAccount, Accounts
  <2>2. CachesOK'
    BY <1>4 DEF SetFirst, Stored, CachesOK
  <2>3. KnownOK'
    BY <1>5 DEF SetFirst, identityVars, Stored, KnownOK, HasAccount
  <2> QED BY <2>1, <2>2, <2>3 DEF Stored
<1> QED BY <1>1, <1>2, <1>3, <1>6, ProceedOK

LEMMA CacheStored ==
  ASSUME Stored, CachesOK', UNCHANGED <<setting, identityVars, row, history>>,
         UNCHANGED listCache \/ listCache' = [r \in Lists |-> None]
           \/ \E r \in Roles : \A s \in Lists \ {r} : listCache'[s] = listCache[s],
         \A u \in Users : userCache'[u] \in {None, userCache[u]}
  PROVE  Stored' /\ Grows
<1>1. Grows
  BY DEF identityVars, Grows, HasAccount, Named
<1>2. TablesOK' /\ RowsOK' /\ KnownOK'
  BY DEF identityVars, history, Stored, TablesOK, RowsOK, KnownOK, HasRow, HasAccount
<1>3. listCache'["all"] \in {None, listCache["all"]}
  <2>1. "all" \in Lists /\ "all" \notin Roles
    BY DEF Lists, Roles
  <2> QED BY <2>1
<1>4. AllOK'
  BY <1>3 DEF identityVars, Stored, AllOK, Accounts, HasAccount
<1> QED BY <1>1, <1>2, <1>4 DEF Stored

LEMMA SetRolesOK ==
  ASSUME Stored, RequestsOK, NEW p \in Procs, SetRoles(p)
  PROVE  Stored' /\ RequestsOK'
<1>1. Doing(p, "setRoles") /\ Proceed(p)
  BY DEF SetRoles
<1>2. req[p].roles \subseteq Roles /\ req[p].todo # <<>> /\ Head(req[p].todo) = "setRoles"
  BY <1>1, HeadIs DEF ReqType
<1>3. CachesOK'
  BY <1>2 DEF SetRoles, Stored, CachesOK
<1>4. Stored' /\ Grows
  BY <1>3, CacheStored DEF SetRoles
<1> QED BY <1>1, <1>2, <1>4, ProceedOK

LEMMA SetListOK ==
  ASSUME Stored, RequestsOK, NEW p \in Procs, SetList(p)
  PROVE  Stored' /\ RequestsOK'
<1>1. Doing(p, "setList") /\ Proceed(p)
  BY DEF SetList
<1>2. /\ req[p].users \subseteq Users /\ req[p].role \in Roles /\ req[p].todo # <<>>
      /\ Head(req[p].todo) = "setList"
  BY <1>1, HeadIs DEF ReqType
<1>3. CachesOK'
  BY <1>2 DEF SetList, Stored, CachesOK
<1>4. \A s \in Lists \ {req[p].role} : listCache'[s] = listCache[s]
  BY DEF SetList, Stored, CachesOK
<1>5. Stored' /\ Grows
  BY <1>2, <1>3, <1>4, CacheStored DEF SetList
<1> QED BY <1>1, <1>2, <1>5, ProceedOK

LEMMA ClearOK ==
  ASSUME Stored, RequestsOK, NEW p \in Procs, ClearLists(p) \/ ClearRoles(p)
  PROVE  Stored' /\ RequestsOK'
<1>1. PICK c \in {"clearLists", "clearRoles"} : Doing(p, c) /\ Proceed(p)
  BY DEF ClearLists, ClearRoles
<1>2. req[p].todo # <<>> /\ Head(req[p].todo) = c
  BY <1>1, HeadIs
<1>3. CachesOK'
  BY DEF ClearLists, ClearRoles, Stored, CachesOK
<1>4. Stored' /\ Grows
  BY <1>3, CacheStored DEF ClearLists, ClearRoles
<1> QED BY <1>1, <1>2, <1>4, ProceedOK

\* The end of a ban is noted.
LEMMA ClearUsersOK ==
  ASSUME Stored, RequestsOK, NEW p \in Procs, ClearUsers(p)
  PROVE  Stored' /\ RequestsOK'
<1>1. Doing(p, "clearUsers") /\ Proceed(p)
  BY DEF ClearUsers
<1>2. req[p].todo # <<>> /\ Head(req[p].todo) = "clearUsers"
  BY <1>1, HeadIs
<1>3. leaving' \subseteq leaving /\ out' \subseteq Users
  BY DEF ClearUsers, history, Stored, TablesOK
<1>4. CachesOK'
  BY DEF ClearUsers, Stored, CachesOK
<1>5. Grows
  BY DEF ClearUsers, identityVars, Grows, HasAccount, Named
<1>6. TablesOK'
  BY <1>3 DEF ClearUsers, identityVars, Stored, TablesOK
<1>7. RowsOK' /\ AllOK' /\ KnownOK'
  BY DEF ClearUsers, identityVars, Stored, RowsOK, AllOK, KnownOK, HasRow, HasAccount, Accounts
<1>8. Stored'
  BY <1>4, <1>6, <1>7 DEF Stored
<1> QED BY <1>1, <1>2, <1>5, <1>8, ProceedOK

LEMMA GetRolesOK ==
  ASSUME Stored, RequestsOK, NEW p \in Procs, GetRoles(p)
  PROVE  Stored' /\ RequestsOK'
<1>0. Stored' /\ Grows
  BY SameTables DEF GetRoles
<1>1. PICK o : o = req[p]
  OBVIOUS
<1>2. PICK u : u = o.user
  OBVIOUS
<1>3. Doing(p, "getRoles")
  BY DEF GetRoles
<1>4. /\ o \in ReqType /\ o.todo \in Seq(Calls) /\ o.todo # <<>> /\ Rest(p) \in Seq(Calls)
      /\ Held(u) /\ Informed(o.todo, o)
  <2>1. "getRoles" \in AccountCalls
    BY DEF AccountCalls
  <2> QED BY <1>1, <1>2, <1>3, <2>1, HeadIs DEF ReqOK
<1>5. PICK s, R, t : /\ s = [o EXCEPT !.roles = R, !.todo = t] /\ Set(p, s) /\ R \subseteq Roles
                     /\ t \in {Rest(p), <<"setRoles">> \o Rest(p)}
  <2>1. u \in Users /\ account[u].roles \subseteq Roles /\ HasAccount(u)
    BY <1>4 DEF Held, HasAccount, Stored, TablesOK, AccountType
  <2>2. CASE roleCache[u] # None
    <3>1. roleCache[u] \subseteq Roles
      BY <2>1, <2>2 DEF Stored, CachesOK
    <3> QED BY <1>1, <1>2, <2>2, <3>1 DEF GetRoles
  <2>3. CASE roleCache[u] = None
    BY <1>1, <1>2, <2>1, <2>3 DEF GetRoles
  <2> QED BY <2>2, <2>3
<1>6. /\ s.todo = t /\ s.user = u /\ s.name = o.name /\ s.role = o.role /\ s.users = o.users
  BY <1>2, <1>4, <1>5 DEF ReqType
<1>7. Informed(Rest(p), s)
  BY <1>1, <1>4, <1>6, InformedRest DEF Rest
<1>8. t \in Seq(Calls) /\ Informed(t, s)
  <2>1. <<"setRoles">> \o Rest(p) \in Seq(Calls) /\ Informed(<<"setRoles">> \o Rest(p), s)
    BY <1>4, <1>7, InformedOne DEF Calls
  <2> QED BY <1>4, <1>5, <1>7, <2>1
<1>9. s \in ReqType
  BY <1>4, <1>5, <1>8 DEF ReqType
<1>10. Held(s.user)'
  BY <1>0, <1>4, <1>6 DEF Held, Grows
<1> QED BY <1>0, <1>5, <1>6, <1>8, <1>9, <1>10, HeldSet

LEMMA RepairOK ==
  ASSUME Stored, RequestsOK, NEW p \in Procs, Repair(p)
  PROVE  Stored' /\ RequestsOK'
<1>0. Stored' /\ Grows
  BY SameTables DEF Repair
<1>1. PICK o : o = req[p]
  OBVIOUS
<1>3. Doing(p, "repair")
  BY DEF Repair
<1>4. /\ o \in ReqType /\ o.todo \in Seq(Calls) /\ o.todo # <<>> /\ Head(o.todo) = "repair"
      /\ Held(o.user)
  <2>1. "repair" \in AccountCalls
    BY DEF AccountCalls
  <2> QED BY <1>1, <1>3, <2>1, HeadIs
<1>5. CASE o.roles # {}
  BY <1>0, <1>1, <1>4, <1>5, ProceedOK DEF Repair
<1>6. CASE o.roles = {}
  <2>1. PICK t : t = IF o.kind = "list" THEN <<"getRoles">> ELSE <<>>
    OBVIOUS
  <2>2. PICK s : s = [o EXCEPT !.role = "customer", !.todo = AddRole \o t]
    OBVIOUS
  <2>3. PICK C : C = {"add", "getRoles"} \cup ClearCalls
    OBVIOUS
  <2>4. t \in Seq(C)
    <3>1. <<"getRoles">> \in Seq(C) /\ <<>> \in Seq(C)
      BY <2>3
    <3> QED BY <2>1, <3>1
  <2>5. AddRole \in Seq(C)
    BY <2>3, AddRoleIs
  <2>6. AddRole \o t \in Seq(C)
    BY <2>4, <2>5, Joined
  <2>7. s.todo = AddRole \o t /\ s.user = o.user /\ s.role = "customer"
    BY <1>4, <2>2 DEF ReqType
  <2>8. s.todo \in Seq(Calls) /\ Informed(s.todo, s)
    <3>1. PICK w : w = AddRole \o t
      OBVIOUS
    <3>2. \A i \in 1..Len(w) : w[i] \in C
      BY <2>6, <3>1
    <3>3. w \in Seq(Calls)
      BY <2>3, <2>6, <3>1 DEF ClearCalls, Calls
    <3>4. Informed(w, s)
      BY <2>3, <2>7, <3>2 DEF Informed, ClearCalls, Roles
    <3> QED BY <2>7, <3>1, <3>3, <3>4
  <2>9. s \in ReqType
    BY <1>4, <2>2, <2>7, <2>8 DEF ReqType, Roles
  <2>10. Held(s.user)'
    BY <1>0, <1>4, <2>7 DEF Held, Grows
  <2>11. Set(p, s)
    BY <1>1, <1>6, <2>1, <2>2 DEF Repair
  <2> QED BY <1>0, <2>8, <2>9, <2>10, <2>11, HeldSet
<1> QED BY <1>5, <1>6

LEMMA FindRoleOK ==
  ASSUME Stored, RequestsOK, NEW p \in Procs, FindRole(p)
  PROVE  Stored' /\ RequestsOK'
<1>0. Stored' /\ Grows
  BY SameTables DEF FindRole
<1>1. PICK o : o = req[p]
  OBVIOUS
<1>3. Doing(p, "findRole")
  BY DEF FindRole
<1>4. o \in ReqType /\ o.todo # <<>> /\ Head(o.todo) = "findRole" /\ o.role \in Roles
  BY <1>1, <1>3, HeadIs
<1>5. CASE listCache[o.role] # None
  BY <1>0, <1>1, <1>4, <1>5, ProceedOK DEF FindRole
<1>6. CASE listCache[o.role] = None
  <2>1. PICK t : t = <<"setList">>
    OBVIOUS
  <2>2. t \in Seq(Calls) /\ Len(t) = 1 /\ t[1] = "setList"
    BY <2>1 DEF Calls
  <2>3. PICK U : U = {u \in Users : o.role \in account[u].roles}
    OBVIOUS
  <2>4. PICK s : s = [o EXCEPT !.users = U, !.todo = t]
    OBVIOUS
  <2>5. s \in ReqType /\ s.todo = t /\ s.role = o.role
    BY <1>4, <2>2, <2>3, <2>4 DEF ReqType
  <2>6. ReqOK(s)'
    <3>0. \A i \in 1..Len(t) : t[i] = "setList"
      <4>1. \A i \in 1..1 : i = 1
        OBVIOUS
      <4> QED BY <2>2, <4>1
    <3>1. \A i \in 1..Len(s.todo) : s.todo[i] = "setList"
      BY <2>5, <3>0
    <3>2. Founded(s.todo)' /\ Findable(s.todo, s.user)'
      BY <3>1 DEF Founded, Findable, AccountCalls
    <3>3. Informed(s.todo, s)'
      BY <1>4, <2>5, <3>1 DEF Informed
    <3> QED BY <3>2, <3>3 DEF ReqOK
  <2>7. Set(p, s)
    BY <1>1, <1>6, <2>1, <2>3, <2>4 DEF FindRole
  <2> QED BY <1>0, <2>5, <2>6, <2>7, SetOK
<1> QED BY <1>5, <1>6

\* What changes an account, and what changes a row.
LEMMA AccountStored ==
  ASSUME Stored, NEW u, NEW a \in AccountType, account' = [account EXCEPT ![u] = a],
         UNCHANGED <<setting, sessions, tokens, access, row, cacheVars>>,
         leaving' \subseteq Procs \X Users, out' \subseteq Users
  PROVE  Stored' /\ Grows /\ (u \in Users => Held(u)')
<1>1. a # NoAccount
  BY AccountsAssumption DEF AccountType, NoAccount
<1>2. account \in [Users -> {NoAccount} \cup AccountType]
  BY DEF Stored, TablesOK
<1>3. account' \in [Users -> {NoAccount} \cup AccountType]
  BY <1>2
<1>4. \A v \in Users : HasAccount(v) => HasAccount(v)'
  BY <1>1, <1>2 DEF HasAccount
<1>5. Grows
  BY <1>4 DEF Grows, Named
<1>6. u \in Users => Held(u)'
  BY <1>1, <1>2 DEF Held, HasAccount
<1>7. TablesOK'
  BY <1>3 DEF Stored, TablesOK
<1>8. CachesOK' /\ RowsOK'
  BY DEF cacheVars, Stored, CachesOK, RowsOK, HasRow
<1>9. KnownOK' /\ AllOK'
  BY <1>4 DEF cacheVars, Stored, KnownOK, AllOK, Accounts
<1> QED BY <1>5, <1>6, <1>7, <1>8, <1>9 DEF Stored

LEMMA RowStored ==
  ASSUME Stored, NEW u, NEW w \in RowType, w.name \in Names,
         row' \in {row, [row EXCEPT ![u] = w]},
         UNCHANGED <<setting, identityVars, cacheVars, history>>
  PROVE  Stored' /\ Grows
<1>1. row \in [Users -> RowType] /\ row' \in [Users -> RowType]
  BY DEF Stored, TablesOK
<1>2. \A v \in Users : row'[v] \in {row[v], w}
  BY <1>1
<1>3. RowsOK'
  BY <1>2 DEF Stored, RowsOK, HasRow
<1>4. Grows
  BY <1>2 DEF identityVars, Grows, Named, HasAccount
<1>5. TablesOK'
  BY <1>1 DEF identityVars, history, Stored, TablesOK
<1>6. CachesOK' /\ KnownOK' /\ AllOK'
  BY DEF identityVars, cacheVars, Stored, CachesOK, KnownOK, AllOK, HasAccount, Accounts
<1> QED BY <1>3, <1>4, <1>5, <1>6 DEF Stored

\* A request that goes on with the same account.
LEMMA GoOn ==
  ASSUME RequestsOK, Grows, NEW p \in Procs, req[p].todo # <<>>,
         NEW s \in ReqType, Set(p, s), Held(s.user)',
         s.todo = Rest(p), s.name = req[p].name, s.role = req[p].role,
         s.users \subseteq req[p].users
  PROVE  RequestsOK'
<1>1. req[p].todo \in Seq(Calls) /\ Informed(req[p].todo, req[p])
  BY DEF RequestsOK, ReqType, ReqOK
<1>2. Informed(s.todo, s)
  BY <1>1, InformedRest DEF Rest
<1> QED BY <1>2, HeldSet

LEMMA EachInformed ==
  ASSUME NEW S, IsFiniteSet(S), NEW c \in Calls, NEW t \in Seq(Calls), NEW r, Informed(t, r),
         c \notin {"insert", "insertRow", "add", "findRole", "setList", "rowOfUser"}
  PROVE  Each(c, S) \o t \in Seq(Calls) /\ Informed(Each(c, S) \o t, r)
<1>1. Each(c, S) \in Seq(Calls) /\ \A i \in 1..Len(Each(c, S)) : Each(c, S)[i] = c
  BY EachIs
<1>2. Informed(Each(c, S), r)
  BY <1>1 DEF Informed
<1> QED BY <1>1, <1>2, InformedJoined, Joined

LEMMA LookupOK ==
  ASSUME Stored, RequestsOK, NEW p \in Procs, CheckMail(p) \/ FindName(p)
  PROVE  Stored' /\ RequestsOK'
<1>1. Stored' /\ Grows
  BY SameTables DEF CheckMail, FindName
<1>2. PICK c \in {"checkMail", "findName"} : Doing(p, c) /\ (Stop(p) \/ Proceed(p))
  BY DEF CheckMail, FindName
<1>3. req[p].todo # <<>> /\ Head(req[p].todo) = c
  BY <1>2, HeadIs
<1> QED BY <1>1, <1>2, <1>3, StopOK, ProceedOK

LEMMA InsertOK ==
  ASSUME Stored, RequestsOK, NEW p \in Procs, Insert(p)
  PROVE  Stored' /\ RequestsOK'
<1>1. PICK o : o = req[p]
  OBVIOUS
<1>2. Doing(p, "insert")
  BY DEF Insert
<1>3. o \in ReqType /\ o.todo \in Seq(Calls) /\ o.todo # <<>> /\ Rest(p) \in Seq(Calls)
      /\ o.name \in Names /\ Informed(o.todo, o)
  BY <1>1, <1>2, HeadIs DEF ReqOK
<1>4. CASE NameTaken(o.name)
  <2>1. Stop(p) /\ UNCHANGED <<setting, identityVars, row, cacheVars, history>>
    BY <1>1, <1>4 DEF Insert, identityVars
  <2> QED BY <2>1, SameTables, StopOK
<1>5. CASE ~NameTaken(o.name)
  <2>1. PICK u \in setting.users :
          /\ account' = [account EXCEPT ![u] = [name |-> o.name, mail |-> o.mail, active |-> TRUE, roles |-> {}]]
          /\ Set(p, [o EXCEPT !.user = u, !.todo = Rest(p)])
    BY <1>1, <1>5 DEF Insert
  <2>2. PICK a : a = [name |-> o.name, mail |-> o.mail, active |-> TRUE, roles |-> {}]
    OBVIOUS
  <2>3. a \in AccountType
    BY <1>3, <2>2 DEF AccountType, ReqType
  <2>4. u \in Users /\ leaving' \subseteq Procs \X Users /\ out' \subseteq Users
    BY AccountsAssumption DEF Insert, history, Stored, TablesOK
  <2>5. Stored' /\ Grows /\ Held(u)'
    BY <2>1, <2>2, <2>3, <2>4, AccountStored DEF Insert
  <2>6. PICK s : s = [o EXCEPT !.user = u, !.todo = Rest(p)]
    OBVIOUS
  <2>7. /\ s.todo = Rest(p) /\ s.user = u /\ s.name = o.name /\ s.role = o.role /\ s.users = o.users
        /\ s \in ReqType
    BY <1>3, <2>4, <2>6 DEF ReqType
  <2>8. Informed(s.todo, s)
    BY <1>1, <1>3, <2>7, InformedRest DEF Rest
  <2> QED BY <2>1, <2>5, <2>6, <2>7, <2>8, HeldSet
<1> QED BY <1>4, <1>5

\* What changes the account a request is about, and goes on.
LEMMA ChangeOK ==
  ASSUME Stored, RequestsOK, NEW p \in Procs, NEW c \in AccountCalls, Doing(p, c),
         NEW a \in AccountType, account' = [account EXCEPT ![req[p].user] = a],
         UNCHANGED <<setting, sessions, tokens, access, row, cacheVars>>,
         leaving' \subseteq Procs \X Users, out' \subseteq Users,
         NEW R \in SUBSET Roles, Set(p, [req[p] EXCEPT !.roles = R, !.todo = Rest(p)])
  PROVE  Stored' /\ RequestsOK'
<1>1. PICK o : o = req[p]
  OBVIOUS
<1>2. o \in ReqType /\ o.todo # <<>> /\ Rest(p) \in Seq(Calls) /\ Held(o.user)
  BY <1>1, HeadIs
<1>3. Stored' /\ Grows /\ Held(o.user)'
  BY <1>1, <1>2, AccountStored DEF Held
<1>4. PICK s : s = [o EXCEPT !.roles = R, !.todo = Rest(p)]
  OBVIOUS
<1>5. /\ s.todo = Rest(p) /\ s.user = o.user /\ s.name = o.name /\ s.role = o.role /\ s.users = o.users
      /\ s \in ReqType
  BY <1>2, <1>4 DEF ReqType
<1>6. Held(s.user)'
  BY <1>3, <1>5
<1> QED BY <1>1, <1>2, <1>3, <1>4, <1>5, <1>6, GoOn

LEMMA ProceedIs ==
  ASSUME RequestsOK, NEW p \in Procs, Proceed(p)
  PROVE  req[p].roles \in SUBSET Roles /\ Set(p, [req[p] EXCEPT !.roles = req[p].roles, !.todo = Rest(p)])
<1>1. req[p] \in ReqType
  BY DEF RequestsOK
<1>2. [req[p] EXCEPT !.todo = Rest(p)] = [req[p] EXCEPT !.roles = req[p].roles, !.todo = Rest(p)]
  BY <1>1 DEF ReqType
<1> QED BY <1>1, <1>2 DEF Proceed, Then, ReqType

LEMMA ChangesOK ==
  ASSUME Stored, RequestsOK, NEW p \in Procs,
         Add(p) \/ Drop(p) \/ RemoveRole(p) \/ Patch(p) \/ Activate(p) \/ Deactivate(p)
  PROVE  Stored' /\ RequestsOK'
<1>1. PICK o : o = req[p]
  OBVIOUS
<1>2. o \in ReqType
  BY <1>1 DEF RequestsOK
<1>3. ASSUME NEW c \in AccountCalls, Doing(p, c)
      PROVE  o.user \in Users /\ account[o.user] \in AccountType
  BY <1>1, <1>3, HeadIs DEF Held, HasAccount, Stored, TablesOK
<1>4. {"add", "drop", "removeRole", "patch", "activate", "deactivate"} \subseteq AccountCalls
  BY DEF AccountCalls
<1>5. CASE Add(p)
  <2>1. Doing(p, "add") /\ Proceed(p)
    BY <1>5 DEF Add
  <2>2. o.role \in Roles
    BY <1>1, <2>1, HeadIs
  <2>3. PICK a : a = [account[o.user] EXCEPT !.roles = @ \cup {o.role}]
    OBVIOUS
  <2>4. a \in AccountType
    BY <1>3, <1>4, <2>1, <2>2, <2>3 DEF AccountType
  <2>5. account' = [account EXCEPT ![o.user] = a]
    BY <1>1, <1>5, <2>3 DEF Add
  <2>6. leaving' \subseteq Procs \X Users /\ out' \subseteq Users
    BY <1>5 DEF Add, history, Stored, TablesOK
  <2> QED BY <1>1, <1>4, <1>5, <2>1, <2>4, <2>5, <2>6, ProceedIs, ChangeOK DEF Add
<1>6. CASE Drop(p)
  <2>1. Doing(p, "drop")
    BY <1>6 DEF Drop
  <2>2. PICK r \in o.roles : /\ account' = [account EXCEPT ![o.user].roles = @ \ {r}]
                             /\ Set(p, [o EXCEPT !.roles = @ \ {r}, !.todo = Rest(p)])
    BY <1>1, <1>6 DEF Drop
  <2>3. PICK a : a = [account[o.user] EXCEPT !.roles = @ \ {r}]
    OBVIOUS
  <2>4. a \in AccountType
    BY <1>3, <1>4, <2>1, <2>3 DEF AccountType
  <2>5. account' = [account EXCEPT ![o.user] = a]
    BY <2>2, <2>3
  <2>6. leaving' \subseteq Procs \X Users /\ out' \subseteq Users
    BY <1>6 DEF Drop, history, Stored, TablesOK
  <2>7. PICK R : R = o.roles \ {r}
    OBVIOUS
  <2>8. R \in SUBSET Roles /\ Set(p, [o EXCEPT !.roles = R, !.todo = Rest(p)])
    BY <1>2, <2>2, <2>7 DEF ReqType
  <2> QED BY <1>1, <1>4, <1>6, <2>1, <2>4, <2>5, <2>6, <2>8, ChangeOK DEF Drop
<1>7. CASE RemoveRole(p)
  <2>1. Doing(p, "removeRole") /\ Proceed(p)
    BY <1>7 DEF RemoveRole
  <2>3. PICK a : a = [account[o.user] EXCEPT !.roles = @ \ {o.role}]
    OBVIOUS
  <2>4. a \in AccountType
    BY <1>3, <1>4, <2>1, <2>3 DEF AccountType
  <2>5. account' = [account EXCEPT ![o.user] = a]
    BY <1>1, <1>7, <2>3 DEF RemoveRole
  <2>6. leaving' \subseteq Procs \X Users /\ out' \subseteq Users
    BY <1>7 DEF RemoveRole, history, Stored, TablesOK
  <2> QED BY <1>1, <1>4, <1>7, <2>1, <2>4, <2>5, <2>6, ProceedIs, ChangeOK DEF RemoveRole
<1>8. CASE Patch(p)
  <2>1. Doing(p, "patch") /\ Proceed(p)
    BY <1>8 DEF Patch
  <2>2. PICK m : m = IF o.mail = None THEN account[o.user].mail ELSE o.mail
    OBVIOUS
  <2>3. PICK b : b = IF o.active = None THEN account[o.user].active ELSE o.active
    OBVIOUS
  <2>4. PICK a : a = [account[o.user] EXCEPT !.mail = m, !.active = b]
    OBVIOUS
  <2>5. account[o.user] \in AccountType /\ o.user \in Users
    BY <1>3, <1>4, <2>1
  <2>6. m \in Mails \cup {None}
    BY <1>2, <2>2, <2>5 DEF AccountType, ReqType
  <2>7. b \in BOOLEAN
    BY <1>2, <2>3, <2>5 DEF AccountType, ReqType
  <2>8. a \in AccountType
    BY <2>4, <2>5, <2>6, <2>7 DEF AccountType
  <2>9. account' = [account EXCEPT ![o.user] = a]
    BY <1>1, <1>8, <2>2, <2>3, <2>4 DEF Patch
  <2>10. leaving' \subseteq Procs \X Users /\ out' \subseteq Users
    BY <1>8 DEF Patch, Activated, history, Stored, TablesOK
  <2> QED BY <1>1, <1>4, <1>8, <2>1, <2>8, <2>9, <2>10, ProceedIs, ChangeOK DEF Patch
<1>9. CASE Activate(p)
  <2>1. Doing(p, "activate") /\ Proceed(p)
    BY <1>9 DEF Activate
  <2>3. PICK a : a = [account[o.user] EXCEPT !.active = TRUE]
    OBVIOUS
  <2>4. a \in AccountType
    BY <1>3, <1>4, <2>1, <2>3 DEF AccountType
  <2>5. account' = [account EXCEPT ![o.user] = a]
    BY <1>1, <1>9, <2>3 DEF Activate
  <2>6. leaving' \subseteq Procs \X Users /\ out' \subseteq Users
    BY <1>9 DEF Activate, Activated, Stored, TablesOK
  <2> QED BY <1>1, <1>4, <1>9, <2>1, <2>4, <2>5, <2>6, ProceedIs, ChangeOK DEF Activate
<1>10. CASE Deactivate(p)
  <2>1. Doing(p, "deactivate") /\ Proceed(p)
    BY <1>10 DEF Deactivate
  <2>3. PICK a : a = [account[o.user] EXCEPT !.active = FALSE]
    OBVIOUS
  <2>4. a \in AccountType
    BY <1>3, <1>4, <2>1, <2>3 DEF AccountType
  <2>5. account' = [account EXCEPT ![o.user] = a]
    BY <1>1, <1>10, <2>3 DEF Deactivate
  <2>6. leaving' \subseteq Procs \X Users /\ out' \subseteq Users
    BY <1>1, <1>3, <1>4, <1>10, <2>1 DEF Deactivate, Stored, TablesOK
  <2> QED BY <1>1, <1>4, <1>10, <2>1, <2>4, <2>5, <2>6, ProceedIs, ChangeOK DEF Deactivate
<1> QED BY <1>5, <1>6, <1>7, <1>8, <1>9, <1>10

LEMMA RolesFinite == \A S \in SUBSET Roles : IsFiniteSet(S)
<1>1. IsFiniteSet({"customer"})
  BY FS_Singleton
<1>2. IsFiniteSet({"customer"} \cup {"photographer"})
  BY <1>1, FS_AddElement
<1>3. IsFiniteSet({"customer"} \cup {"photographer"} \cup {"manager"})
  BY <1>2, FS_AddElement
<1>4. Roles = {"customer"} \cup {"photographer"} \cup {"manager"}
  BY DEF Roles
<1> QED BY <1>3, <1>4, FS_Subset

\* What reads a list of things goes on with one call for each.
LEMMA LoadOK ==
  ASSUME Stored, RequestsOK, NEW p \in Procs, LoadRoles(p) \/ ListSessions(p) \/ ListTokens(p)
  PROVE  Stored' /\ RequestsOK'
<1>0. Stored' /\ Grows
  BY SameTables DEF LoadRoles, ListSessions, ListTokens
<1>1. PICK o : o = req[p]
  OBVIOUS
<1>2. PICK c \in AccountCalls : Doing(p, c)
  BY DEF LoadRoles, ListSessions, ListTokens, AccountCalls
<1>3. /\ o \in ReqType /\ o.todo \in Seq(Calls) /\ o.todo # <<>> /\ Rest(p) \in Seq(Calls)
      /\ Held(o.user) /\ Informed(o.todo, o)
  BY <1>1, <1>2, HeadIs DEF ReqOK
<1>4. o.user \in Users /\ account[o.user].roles \in SUBSET Roles
      /\ sessions[o.user] \in SUBSET Sessions /\ tokens[o.user] \in SUBSET Sessions
  BY <1>3 DEF Held, HasAccount, Stored, TablesOK, AccountType
<1>5. ASSUME NEW S, IsFiniteSet(S), NEW d \in {"drop", "endSession", "revoke"},
             NEW R \in SUBSET Roles, NEW I \in SUBSET Sessions,
             Set(p, [o EXCEPT !.roles = R, !.ids = I, !.todo = Each(d, S) \o Rest(p)])
      PROVE  RequestsOK'
  <2>1. PICK s : s = [o EXCEPT !.roles = R, !.ids = I, !.todo = Each(d, S) \o Rest(p)]
    OBVIOUS
  <2>2. /\ s.todo = Each(d, S) \o Rest(p) /\ s.user = o.user /\ s.name = o.name /\ s.role = o.role
        /\ s.users = o.users
    BY <1>3, <2>1 DEF ReqType
  <2>3. Informed(Rest(p), s)
    BY <1>1, <1>3, <2>2, InformedRest DEF Rest
  <2>4. s.todo \in Seq(Calls) /\ Informed(s.todo, s)
    <3>1. d \in Calls
      BY <1>5 DEF Calls
    <3>2. d \notin {"insert", "insertRow", "add", "findRole", "setList", "rowOfUser"}
      BY <1>5
    <3>3. Each(d, S) \o Rest(p) \in Seq(Calls) /\ Informed(Each(d, S) \o Rest(p), s)
      BY <1>3, <1>5, <2>3, <3>1, <3>2, EachInformed
    <3> QED BY <2>2, <3>3
  <2>5. s \in ReqType
    BY <1>3, <1>5, <2>1, <2>2, <2>4 DEF ReqType
  <2>6. Held(s.user)'
    BY <1>0, <1>3, <2>2 DEF Held, Grows
  <2> QED BY <1>0, <1>5, <2>1, <2>4, <2>5, <2>6, HeldSet
<1>6. o.roles \in SUBSET Roles /\ o.ids \in SUBSET Sessions
  BY <1>3 DEF ReqType
<1>7. \A I \in SUBSET Sessions : IsFiniteSet(I)
  BY AccountsAssumption, FS_Subset
<1>8. CASE LoadRoles(p)
  <2>1. PICK S : S = account[o.user].roles
    OBVIOUS
  <2>2. [o EXCEPT !.roles = S, !.todo = Each("drop", S) \o Rest(p)]
          = [o EXCEPT !.roles = S, !.ids = o.ids, !.todo = Each("drop", S) \o Rest(p)]
    BY <1>3 DEF ReqType
  <2>3. S \in SUBSET Roles /\ IsFiniteSet(S)
    BY <1>4, <2>1, RolesFinite
  <2>4. Set(p, [o EXCEPT !.roles = S, !.todo = Each("drop", S) \o Rest(p)])
    BY <1>1, <1>8, <2>1 DEF LoadRoles
  <2> QED BY <1>0, <1>5, <1>6, <2>2, <2>3, <2>4
<1>9. CASE ListSessions(p)
  <2>1. PICK S : S = sessions[o.user]
    OBVIOUS
  <2>2. [o EXCEPT !.ids = S, !.todo = Each("endSession", S) \o Rest(p)]
          = [o EXCEPT !.roles = o.roles, !.ids = S, !.todo = Each("endSession", S) \o Rest(p)]
    BY <1>3 DEF ReqType
  <2>3. S \in SUBSET Sessions /\ IsFiniteSet(S)
    BY <1>4, <1>7, <2>1
  <2>4. Set(p, [o EXCEPT !.ids = S, !.todo = Each("endSession", S) \o Rest(p)])
    BY <1>1, <1>9, <2>1 DEF ListSessions
  <2> QED BY <1>0, <1>5, <1>6, <2>2, <2>3, <2>4
<1>10. CASE ListTokens(p)
  <2>1. PICK S : S = tokens[o.user]
    OBVIOUS
  <2>2. [o EXCEPT !.ids = S, !.todo = Each("revoke", S) \o Rest(p)]
          = [o EXCEPT !.roles = o.roles, !.ids = S, !.todo = Each("revoke", S) \o Rest(p)]
    BY <1>3 DEF ReqType
  <2>3. S \in SUBSET Sessions /\ IsFiniteSet(S)
    BY <1>4, <1>7, <2>1
  <2>4. Set(p, [o EXCEPT !.ids = S, !.todo = Each("revoke", S) \o Rest(p)])
    BY <1>1, <1>10, <2>1 DEF ListTokens
  <2> QED BY <1>0, <1>5, <1>6, <2>2, <2>3, <2>4
<1> QED BY <1>8, <1>9, <1>10

\* Sessions and tokens end.
LEMMA EndsStored ==
  ASSUME Stored, UNCHANGED <<setting, account, access, row, cacheVars, history>>,
         sessions' \in [Users -> SUBSET Sessions], tokens' \in [Users -> SUBSET Sessions],
         \A u \in Users : sessions'[u] \subseteq sessions[u] /\ tokens'[u] \subseteq tokens[u]
  PROVE  Stored' /\ Grows
<1>1. Grows
  BY DEF Grows, HasAccount, Named
<1>2. TablesOK' /\ CachesOK' /\ RowsOK' /\ AllOK'
  BY DEF cacheVars, history, Stored, TablesOK, CachesOK, RowsOK, AllOK, HasRow, HasAccount, Accounts
<1>3. KnownOK'
  <2> SUFFICES ASSUME NEW u \in Users,
                      sessions'[u] # {} \/ tokens'[u] # {} \/ u \in access' \/ userCache'[u] # None
               PROVE  account'[u] # NoAccount
    BY DEF KnownOK, HasAccount
  <2>1. sessions[u] # {} \/ tokens[u] # {} \/ u \in access \/ userCache[u] # None
    BY DEF cacheVars
  <2> QED BY <2>1 DEF Stored, KnownOK, HasAccount
<1> QED BY <1>1, <1>2, <1>3 DEF Stored

LEMMA EndOK ==
  ASSUME Stored, RequestsOK, NEW p \in Procs, EndSession(p) \/ Revoke(p)
  PROVE  Stored' /\ RequestsOK'
<1>1. PICK o : o = req[p]
  OBVIOUS
<1>2. PICK c \in AccountCalls : Doing(p, c)
  BY DEF EndSession, Revoke, AccountCalls
<1>3. o \in ReqType /\ o.todo # <<>> /\ Rest(p) \in Seq(Calls) /\ Held(o.user)
  BY <1>1, <1>2, HeadIs
<1>4. /\ sessions' \in [Users -> SUBSET Sessions] /\ tokens' \in [Users -> SUBSET Sessions]
      /\ \A u \in Users : sessions'[u] \subseteq sessions[u] /\ tokens'[u] \subseteq tokens[u]
  <2>1. sessions \in [Users -> SUBSET Sessions] /\ tokens \in [Users -> SUBSET Sessions]
    BY DEF Stored, TablesOK
  <2>2. CASE EndSession(p)
    <3>1. tokens' = tokens /\ \E i : sessions' \in {sessions, [sessions EXCEPT ![o.user] = @ \ {i}]}
      BY <1>1, <2>2 DEF EndSession
    <3> QED BY <2>1, <3>1
  <2>3. CASE Revoke(p)
    <3>1. sessions' = sessions /\ \E i : tokens' \in {tokens, [tokens EXCEPT ![o.user] = @ \ {i}]}
      BY <1>1, <2>3 DEF Revoke
    <3> QED BY <2>1, <3>1
  <2> QED BY <2>2, <2>3
<1>5. Stored' /\ Grows
  BY <1>4, EndsStored DEF EndSession, Revoke
<1>6. Stop(p) \/ \E i \in o.ids : Set(p, [o EXCEPT !.ids = @ \ {i}, !.todo = Rest(p)])
  BY <1>1 DEF EndSession, Revoke
<1>7. ASSUME NEW i \in o.ids, Set(p, [o EXCEPT !.ids = @ \ {i}, !.todo = Rest(p)]) PROVE RequestsOK'
  <2>1. PICK s : s = [o EXCEPT !.ids = @ \ {i}, !.todo = Rest(p)]
    OBVIOUS
  <2>2. /\ s.todo = Rest(p) /\ s.user = o.user /\ s.name = o.name /\ s.role = o.role /\ s.users = o.users
        /\ s \in ReqType
    BY <1>3, <2>1 DEF ReqType
  <2>3. Held(s.user)'
    BY <1>3, <1>5, <2>2 DEF Held, Grows
  <2> QED BY <1>1, <1>3, <1>5, <1>7, <2>1, <2>2, <2>3, GoOn
<1> QED BY <1>5, <1>6, <1>7, StopOK

\* Rows.
LEMMA RowsChangeOK ==
  ASSUME Stored, RequestsOK, NEW p \in Procs, UpdateRow(p) \/ InsertRow(p)
  PROVE  Stored' /\ RequestsOK'
<1>1. PICK o : o = req[p]
  OBVIOUS
<1>2. PICK c \in AccountCalls : Doing(p, c)
  BY DEF UpdateRow, InsertRow, AccountCalls
<1>3. o \in ReqType /\ o.todo # <<>> /\ Head(o.todo) = c /\ Held(o.user) /\ o.user \in Users
  BY <1>1, <1>2, HeadIs DEF Held
<1>4. Stored' /\ Grows /\ (Stop(p) \/ Proceed(p))
  <2>1. CASE UpdateRow(p) /\ row' = row
    <3>1. Stop(p) \/ Proceed(p)
      BY <2>1 DEF UpdateRow
    <3> QED BY <2>1, <3>1, SameTables DEF UpdateRow
  <2>2. CASE UpdateRow(p) /\ row' # row
    <3>1. /\ HasRow(o.user) /\ Proceed(p)
          /\ row' = [row EXCEPT ![o.user].mail = IF o.mail = None THEN @ ELSE o.mail]
      BY <1>1, <2>2 DEF UpdateRow
    <3>2. PICK w : w = [row[o.user] EXCEPT !.mail = IF o.mail = None THEN @ ELSE o.mail]
      OBVIOUS
    <3>3. w \in RowType /\ w.name \in Names
      BY <1>3, <3>1, <3>2 DEF Stored, TablesOK, RowsOK, RowType, ReqType
    <3>4. row' = [row EXCEPT ![o.user] = w]
      BY <3>1, <3>2
    <3> QED BY <2>2, <3>1, <3>3, <3>4, RowStored DEF UpdateRow
  <2>3. CASE InsertRow(p)
    <3>1. o.name \in Names
      BY <1>1, <2>3, HeadIs DEF InsertRow
    <3>2. PICK w : w = [name |-> o.name, mail |-> o.mail]
      OBVIOUS
    <3>3. w \in RowType /\ w.name \in Names
      BY <1>3, <3>1, <3>2 DEF RowType, ReqType
    <3>4. row' \in {row, [row EXCEPT ![o.user] = w]} /\ Proceed(p)
      BY <1>1, <2>3, <3>2 DEF InsertRow
    <3> QED BY <2>3, <3>3, <3>4, RowStored DEF InsertRow
  <2> QED BY <2>1, <2>2, <2>3
<1>5. Held(req[p].user) \/ Head(req[p].todo) \notin {"insert", "findFirst"}
  BY <1>1, <1>3
<1> QED BY <1>1, <1>3, <1>4, <1>5, StopOK, ProceedOK

\* Synchronising accounts and rows.
LEMMA PlainGoOn ==
  ASSUME RequestsOK, Grows, NEW p \in Procs, NEW s, Set(p, s), NEW U \in SUBSET Users,
         NEW t \in Seq(Plain), s = [req[p] EXCEPT !.users = U, !.todo = t]
  PROVE  RequestsOK'
<1>1. req[p] \in ReqType
  BY DEF RequestsOK
<1>2. t \in Seq(Calls)
  BY DEF Plain
<1>3. s \in ReqType /\ s.todo = t
  BY <1>1, <1>2 DEF ReqType
<1> QED BY <1>3, PlainSet

LEMMA CountOK ==
  ASSUME Stored, RequestsOK, NEW p \in Procs, CountUsers(p) \/ CountRows(p) \/ FindRows(p)
  PROVE  Stored' /\ RequestsOK'
<1>0. Stored' /\ Grows
  BY SameTables DEF CountUsers, CountRows, FindRows
<1>1. {<<"countRows">>, <<"findUsers">>, <<"findRows">>, <<"nextRow">>} \subseteq Seq(Plain)
  BY DEF Plain, Calls, AccountCalls
<1>2. req[p] \in ReqType
  BY DEF RequestsOK
<1>3. Accounts \in SUBSET Users /\ Rows \in SUBSET Users /\ req[p].users \in SUBSET Users
  BY <1>2 DEF Accounts, Rows, ReqType
<1>4. PICK s, U, t : /\ Set(p, s) /\ U \in {Accounts, Rows, req[p].users}
                     /\ t \in {<<"countRows">>, <<"findUsers">>, <<"findRows">>, <<"nextRow">>}
                     /\ s = [req[p] EXCEPT !.users = U, !.todo = t]
  <2>1. CASE CountUsers(p)
    BY <2>1 DEF CountUsers
  <2>2. CASE FindRows(p)
    BY <2>2 DEF FindRows
  <2>3. CASE CountRows(p)
    <3>1. PICK t \in {<<"findUsers">>, <<"findRows">>} : Set(p, [req[p] EXCEPT !.todo = t])
      BY <2>3 DEF CountRows, Then
    <3>2. [req[p] EXCEPT !.todo = t] = [req[p] EXCEPT !.users = req[p].users, !.todo = t]
      BY <1>2 DEF ReqType
    <3> QED BY <3>1, <3>2
  <2> QED BY <2>1, <2>2, <2>3
<1> QED BY <1>0, <1>1, <1>3, <1>4, PlainGoOn

LEMMA FindUsersOK ==
  ASSUME Stored, RequestsOK, NEW p \in Procs, FindUsers(p)
  PROVE  Stored' /\ RequestsOK'
<1>1. PICK U : U = IF listCache["all"] # None THEN listCache["all"] ELSE Accounts
  OBVIOUS
<1>2. U \subseteq Accounts /\ U \subseteq Users
  BY <1>1 DEF Stored, AllOK, Accounts
<1>3. listCache' = [listCache EXCEPT !["all"] = U] /\ listCache' \in [Lists -> (SUBSET Users) \cup {None}]
  BY <1>1, <1>2 DEF FindUsers, Stored, CachesOK
<1>4. Grows
  BY DEF FindUsers, identityVars, Grows, HasAccount, Named
<1>5. Stored'
  <2>1. TablesOK' /\ RowsOK' /\ KnownOK'
    BY DEF FindUsers, identityVars, history, Stored, TablesOK, RowsOK, KnownOK, HasRow, HasAccount
  <2>2. CachesOK'
    BY <1>3 DEF FindUsers, Stored, CachesOK
  <2>3. listCache'["all"] = U
    BY <1>3 DEF Stored, CachesOK, Lists
  <2>4. AllOK'
    BY <1>2, <2>3 DEF FindUsers, identityVars, AllOK, Accounts, HasAccount
  <2> QED BY <2>1, <2>2, <2>4 DEF Stored
<1>6. PICK t : t = Each("rowOfUser", U)
  OBVIOUS
<1>7. PICK s : s = [req[p] EXCEPT !.users = U, !.todo = t]
  OBVIOUS
<1>8. Set(p, s)
  BY <1>1, <1>6, <1>7 DEF FindUsers
<1>9. t \in Seq(Calls) /\ \A i \in 1..Len(t) : t[i] = "rowOfUser"
  <2>1. IsFiniteSet(U)
    BY <1>2, AccountsAssumption, FS_Subset
  <2>2. "rowOfUser" \in Calls
    BY DEF Calls
  <2> QED BY <1>6, <2>1, <2>2, EachIs
<1>10. req[p] \in ReqType
  BY DEF RequestsOK
<1>11. s \in ReqType /\ s.todo = t /\ s.users = U
  BY <1>2, <1>7, <1>9, <1>10 DEF ReqType
<1>12. Informed(s.todo, s) /\ Founded(s.todo) /\ Findable(s.todo, s.user)
  <2>1. \A i \in 1..Len(s.todo) : s.todo[i] = "rowOfUser"
    BY <1>9, <1>11
  <2>2. Informed(s.todo, s)
    BY <1>2, <1>11, <2>1 DEF Informed
  <2> QED BY <2>1, <2>2 DEF Founded, Findable, AccountCalls
<1>13. ReqOK(s)
  BY <1>12 DEF ReqOK
<1>14. ReqOK(s)'
  BY <1>4, <1>11, <1>13, ReqOKGrows
<1> QED BY <1>4, <1>5, <1>8, <1>11, <1>14, SetOK

LEMMA RowOfUserOK ==
  ASSUME Stored, RequestsOK, NEW p \in Procs, RowOfUser(p)
  PROVE  Stored' /\ RequestsOK'
<1>1. PICK o : o = req[p]
  OBVIOUS
<1>2. Doing(p, "rowOfUser")
  BY DEF RowOfUser
<1>3. /\ o \in ReqType /\ ReqOK(o) /\ o.todo # <<>> /\ Head(o.todo) = "rowOfUser"
      /\ o.todo \in Seq(Calls) /\ Rest(p) \in Seq(Calls) /\ o.users \subseteq Accounts
  BY <1>1, <1>2, HeadIs
<1>4. PICK u \in o.users :
        /\ row' \in {row, [row EXCEPT ![u] = [name |-> account[u].name, mail |-> account[u].mail]]}
        /\ Set(p, [o EXCEPT !.users = @ \ {u}, !.todo = Rest(p)])
  BY <1>1 DEF RowOfUser
<1>5. PICK w : w = [name |-> account[u].name, mail |-> account[u].mail]
  OBVIOUS
<1>6. w \in RowType /\ w.name \in Names
  BY <1>3, <1>5 DEF Accounts, HasAccount, Stored, TablesOK, AccountType, RowType
<1>7. Stored' /\ Grows
  BY <1>4, <1>5, <1>6, RowStored DEF RowOfUser
<1>8. PICK s : s = [o EXCEPT !.users = @ \ {u}, !.todo = Rest(p)]
  OBVIOUS
<1>9. /\ s.todo = Tail(o.todo) /\ s.user = o.user /\ s.name = o.name /\ s.role = o.role
      /\ s.users \subseteq o.users
  BY <1>1, <1>3, <1>8 DEF ReqType, Rest
<1>10. s \in ReqType
  BY <1>3, <1>8 DEF ReqType
<1>11. ReqOK(s)
  BY <1>3, <1>9, <1>10, RestOK
<1>12. ReqOK(s)'
  BY <1>7, <1>10, <1>11, ReqOKGrows
<1> QED BY <1>4, <1>7, <1>8, <1>10, <1>12, SetOK

LEMMA NextRowOK ==
  ASSUME Stored, RequestsOK, NEW p \in Procs, NextRow(p)
  PROVE  Stored' /\ RequestsOK'
<1>0. Stored' /\ Grows
  BY SameTables DEF NextRow
<1>1. PICK o : o = req[p]
  OBVIOUS
<1>2. Doing(p, "nextRow")
  BY DEF NextRow
<1>3. o \in ReqType /\ ReqOK(o) /\ o.users \subseteq Users
  BY <1>1, <1>2, HeadIs DEF ReqType
<1>4. CASE o.users = {}
  <2>1. PICK s : s = [o EXCEPT !.todo = <<>>]
    OBVIOUS
  <2>2. s \in ReqType /\ s.todo \in Seq(Plain)
    <3>1. <<>> \in Seq(Plain) /\ <<>> \in Seq(Calls)
      OBVIOUS
    <3>2. \A t \in Seq(Calls) : [o EXCEPT !.todo = t] \in ReqType /\ [o EXCEPT !.todo = t].todo = t
      BY <1>3 DEF ReqType
    <3> QED BY <2>1, <3>1, <3>2
  <2> QED BY <1>0, <1>1, <1>4, <2>1, <2>2, PlainSet DEF NextRow, Then
<1>5. ASSUME NEW u \in o.users, row[u].mail = None, Set(p, [o EXCEPT !.users = @ \ {u}])
      PROVE  RequestsOK'
  <2>1. PICK s : s = [o EXCEPT !.users = @ \ {u}]
    OBVIOUS
  <2>2. /\ s.todo = o.todo /\ s.user = o.user /\ s.name = o.name /\ s.role = o.role
        /\ s.users \subseteq o.users
    BY <1>3, <2>1 DEF ReqType
  <2>3. s \in ReqType
    BY <1>3, <2>1 DEF ReqType
  <2>4. ReqOK(s)
    BY <1>3, <2>2 DEF ReqOK, Informed
  <2>5. ReqOK(s)'
    BY <1>0, <2>3, <2>4, ReqOKGrows
  <2> QED BY <1>0, <1>5, <2>1, <2>3, <2>5, SetOK
<1>6. ASSUME NEW u \in o.users, row[u].mail # None,
             Set(p, [o EXCEPT !.users = @ \ {u}, !.name = row[u].mail, !.mail = row[u].mail,
                              !.role = "customer", !.todo = Upsert \o <<"nextRow">>])
      PROVE  RequestsOK'
  <2>1. PICK m : m = row[u].mail
    OBVIOUS
  <2>2. m \in Mails /\ m \in Names
    BY <1>3, <1>6, <2>1, AccountsAssumption DEF Stored, TablesOK, RowType
  <2>3. PICK t : t = Upsert \o <<"nextRow">>
    OBVIOUS
  <2>4. PICK s : s = [o EXCEPT !.users = @ \ {u}, !.name = m, !.mail = m, !.role = "customer", !.todo = t]
    OBVIOUS
  <2>5. PICK C : C = {"findName", "insert", "add", "nextRow"} \cup ClearCalls
    OBVIOUS
  <2>6. Upsert \in Seq(C) /\ <<"nextRow">> \in Seq(C)
    <3>1. {"findName", "insert", "add"} \cup ClearCalls \subseteq C
      BY <2>5
    <3>2. <<"nextRow">> \in Seq(C)
      BY <2>5
    <3> QED BY <3>1, <3>2, UpsertIs
  <2>7. t \in Seq(C)
    BY <2>3, <2>6, Joined
  <2>8. t \in Seq(Calls)
    BY <2>5, <2>7 DEF ClearCalls, Calls
  <2>9. s \in ReqType /\ s.todo = t /\ s.name = m /\ s.role = "customer"
    BY <1>3, <2>2, <2>4, <2>8 DEF ReqType, Roles
  <2>10. Informed(t, s)
    <3>1. \A i \in 1..Len(t) : t[i] \in C
      BY <2>7
    <3> QED BY <2>2, <2>5, <2>9, <3>1 DEF Informed, ClearCalls, Roles
  <2>11. Founded(t) /\ Findable(t, s.user)
    <3>1. AddRole \in Seq(Calls) /\ Clear \in Seq(Calls)
      BY AddRoleIs, ClearIs DEF ClearCalls, Calls
    <3>2. PICK x : x = AddRole \o Clear
      OBVIOUS
    <3>3. x \in Seq(Calls)
      BY <3>1, <3>2, Joined
    <3>4. PICK a : a = <<"findName", "insert">>
      OBVIOUS
    <3>5. a \in Seq(Calls) /\ <<"nextRow">> \in Seq(Calls)
      BY <3>4 DEF Calls
    <3>6. a \o x \o <<"nextRow">> = a \o (x \o <<"nextRow">>)
      BY <3>3, <3>5, ConcatAssociative
    <3>7. x \o <<"nextRow">> \in Seq(Calls)
      BY <3>3, <3>5, Joined
    <3>8. t = <<"findName", "insert">> \o (x \o <<"nextRow">>)
      BY <2>3, <3>2, <3>4, <3>6, UpsertIs
    <3>9. "findName" \in Calls \ (AccountCalls \cup {"findFirst"})
      BY DEF Calls, AccountCalls
    <3> QED BY <3>7, <3>8, <3>9, InsertFirst
  <2>12. ReqOK(s)
    BY <2>9, <2>10, <2>11 DEF ReqOK
  <2>13. ReqOK(s)'
    BY <1>0, <2>9, <2>12, ReqOKGrows
  <2> QED BY <1>0, <1>6, <2>1, <2>3, <2>4, <2>9, <2>13, SetOK
<1> QED BY <1>0, <1>1, <1>4, <1>5, <1>6 DEF NextRow

-----------------------------------------------------------------------------
(* What users, time and failures change *)

LEMMA SameRequests ==
  ASSUME RequestsOK, Grows, UNCHANGED req
  PROVE  RequestsOK'
<1>1. \A q \in Procs : ReqOK(req[q])'
  <2>1. \A r \in ReqType : ReqOK(r) => ReqOK(r)'
    BY ReqOKGrows
  <2> TAKE q \in Procs
  <2>2. PICK r : r = req[q]
    OBVIOUS
  <2>3. r \in ReqType /\ ReqOK(r) /\ r = req'[q]
    BY <2>2 DEF RequestsOK
  <2>4. ReqOK(r)'
    BY <2>1, <2>3
  <2> QED BY <2>3, <2>4
<1> QED BY <1>1 DEF RequestsOK

LEMMA RegisterOK ==
  ASSUME Stored, NEW u \in Users, Register(u)
  PROVE  Stored' /\ Grows
<1>1. PICK n \in Names, m \in Mails :
        account' = [account EXCEPT ![u] = [name |-> n, mail |-> m, active |-> TRUE, roles |-> {}]]
  BY DEF Register
<1>2. [name |-> n, mail |-> m, active |-> TRUE, roles |-> {}] \in AccountType
  BY DEF AccountType
<1>3. leaving' \subseteq Procs \X Users /\ out' \subseteq Users
  BY DEF Register, history, Stored, TablesOK
<1> QED BY <1>1, <1>2, <1>3, AccountStored DEF Register

\* Who is known somewhere has an account.
LEMMA SessionsStored ==
  ASSUME Stored, NEW u \in Users, HasAccount(u),
         UNCHANGED <<setting, account, row, cacheVars, history>>,
         sessions' \in [Users -> SUBSET Sessions], tokens' \in [Users -> SUBSET Sessions],
         access' \subseteq Users,
         \A v \in Users \ {u} : /\ sessions'[v] = sessions[v] /\ tokens'[v] = tokens[v]
                                /\ v \in access' => v \in access
  PROVE  Stored' /\ Grows
<1>1. Grows
  BY DEF Grows, HasAccount, Named
<1>2. TablesOK' /\ CachesOK' /\ RowsOK' /\ AllOK'
  BY DEF cacheVars, history, Stored, TablesOK, CachesOK, RowsOK, AllOK, HasRow, HasAccount, Accounts
<1>3. KnownOK'
  BY DEF cacheVars, Stored, KnownOK, HasAccount
<1> QED BY <1>1, <1>2, <1>3 DEF Stored

LEMMA UserOK ==
  ASSUME Stored, NEW u \in Users,
         SignIn(u) \/ SignOut(u) \/ Authorize(u) \/ Refresh(u) \/ AccessExpires(u)
  PROVE  Stored' /\ Grows
<1>1. HasAccount(u)
  <2>1. CASE SignIn(u)
    <3>1. account[u].active
      BY <2>1 DEF SignIn
    <3> QED BY <3>1 DEF HasAccount, NoAccount
  <2>2. sessions[u] # {} \/ tokens[u] # {} \/ u \in access => HasAccount(u)
    BY DEF Stored, KnownOK
  <2> QED BY <2>1, <2>2 DEF SignOut, Authorize, Refresh, AccessExpires
<1>2. /\ sessions \in [Users -> SUBSET Sessions] /\ tokens \in [Users -> SUBSET Sessions]
      /\ access \subseteq Users
  BY DEF Stored, TablesOK
<1>3. /\ sessions' \in [Users -> SUBSET Sessions] /\ tokens' \in [Users -> SUBSET Sessions]
      /\ access' \subseteq Users
      /\ \A v \in Users \ {u} : /\ sessions'[v] = sessions[v] /\ tokens'[v] = tokens[v]
                                /\ v \in access' => v \in access
  <2>1. CASE SignIn(u) \/ SignOut(u)
    <3>1. PICK S : S \subseteq Sessions /\ sessions' = [sessions EXCEPT ![u] = S]
      BY <1>2, <2>1 DEF SignIn, SignOut
    <3> QED BY <1>2, <2>1, <3>1 DEF SignIn, SignOut
  <2>2. CASE Authorize(u)
    <3>1. PICK S : S \subseteq Sessions /\ tokens' = [tokens EXCEPT ![u] = S]
      BY <1>2, <2>2 DEF Authorize
    <3> QED BY <1>2, <2>2, <3>1 DEF Authorize
  <2>3. CASE Refresh(u) \/ AccessExpires(u)
    BY <1>2, <2>3 DEF Refresh, AccessExpires
  <2> QED BY <2>1, <2>2, <2>3
<1>4. UNCHANGED <<setting, account, row, cacheVars, history>>
  BY DEF SignIn, SignOut, Authorize, Refresh, AccessExpires
<1> QED BY <1>1, <1>3, <1>4, SessionsStored

LEMMA VisitOK ==
  ASSUME Stored, NEW u \in Users, Visit(u)
  PROVE  Stored' /\ Grows
<1>1. HasAccount(u)
  BY DEF Visit, Authenticated, Stored, KnownOK
<1>2. PICK w : w = [name |-> account[u].name, mail |-> None]
  OBVIOUS
<1>3. w \in RowType /\ w.name \in Names
  BY <1>1, <1>2 DEF HasAccount, Stored, TablesOK, AccountType, RowType
<1> QED BY <1>2, <1>3, RowStored DEF Visit

LEMMA ExpireOK ==
  ASSUME Stored, (\E u \in Users : ExpireUser(u) \/ ExpireRoles(u)) \/ \E r \in Lists : ExpireList(r)
  PROVE  Stored' /\ Grows
<1>1. UNCHANGED <<setting, identityVars, row, history>>
  BY DEF ExpireUser, ExpireRoles, ExpireList
<1>2. CachesOK'
  BY DEF ExpireUser, ExpireRoles, ExpireList, Stored, CachesOK
<1>3. \A u \in Users : userCache'[u] \in {None, userCache[u]}
  BY DEF ExpireUser, ExpireRoles, ExpireList, Stored, CachesOK
<1>4. \A r \in Lists : listCache'[r] \in {None, listCache[r]}
  BY DEF ExpireUser, ExpireRoles, ExpireList, Stored, CachesOK
<1>5. Grows
  BY <1>1 DEF identityVars, Grows, HasAccount, Named
<1>6. TablesOK' /\ RowsOK' /\ KnownOK'
  BY <1>1, <1>3 DEF identityVars, history, Stored, TablesOK, RowsOK, KnownOK, HasRow, HasAccount
<1>7. AllOK'
  <2>1. listCache'["all"] \in {None, listCache["all"]}
    BY <1>4 DEF Lists
  <2> QED BY <1>1, <2>1 DEF identityVars, Stored, AllOK, Accounts, HasAccount
<1> QED BY <1>2, <1>5, <1>6, <1>7 DEF Stored

LEMMA WorkOK ==
  ASSUME Stored, RequestsOK, NEW p \in Procs, Work(p)
  PROVE  Stored' /\ RequestsOK'
<1>1. CASE Read(p)
  BY <1>1, FindFirstOK, SetFirstOK, GetRolesOK, SetRolesOK, RepairOK, FindRoleOK, SetListOK DEF Read
<1>2. CASE ClearCache(p)
  BY <1>2, ClearOK, ClearUsersOK DEF ClearCache
<1>3. CASE Change(p)
  BY <1>3, LookupOK, InsertOK, ChangesOK, LoadOK, RowsChangeOK DEF Change
<1>4. CASE BanStep(p)
  BY <1>4, ChangesOK, LoadOK, EndOK DEF BanStep
<1>5. CASE Sync(p)
  BY <1>5, CountOK, FindUsersOK, RowOfUserOK, NextRowOK DEF Sync
<1> QED BY <1>1, <1>2, <1>3, <1>4, <1>5 DEF Work

LEMMA StoredStep ==
  ASSUME TInv, [Next]_vars
  PROVE  TInv'
<1> USE DEF TInv
<1>1. CASE UNCHANGED vars
  <2>1. Stored' /\ Grows
    BY <1>1, SameTables DEF vars
  <2> QED BY <1>1, <2>1, SameRequests DEF vars
<1>2. ASSUME NEW p \in Procs, Request(p) PROVE TInv'
  <2>1. Stored' /\ Grows
    BY <1>2, SameTables DEF Request
  <2> QED BY <1>2, <2>1, RequestOK DEF Request
<1>3. ASSUME NEW p \in Procs, Work(p) PROVE TInv'
  <2>1. UNCHANGED <<setting, failures>>
    BY <1>3 DEF Work, Read, ClearCache, Change, BanStep, Sync, FindFirst, SetFirst, GetRoles, SetRoles,
       Repair, FindRole, SetList, ClearLists, ClearRoles, ClearUsers, CheckMail, FindName, Insert, Add,
       LoadRoles, Drop, RemoveRole, Patch, UpdateRow, InsertRow, Activate, Deactivate, ListSessions,
       ListTokens, EndSession, Revoke, CountUsers, CountRows, FindUsers, RowOfUser, FindRows, NextRow
  <2> QED BY <1>3, <2>1, WorkOK
<1>4. ASSUME NEW p \in Procs, Fail(p) PROVE TInv'
  <2>1. Stored' /\ Grows
    BY <1>4, SameTables DEF Fail
  <2>2. RequestsOK'
    BY <1>4, <2>1, StopOK DEF Fail
  <2>3. setting.failures \in Nat
    BY AccountsAssumption DEF Stored, TablesOK
  <2>4. failures' \in 0..setting'.failures
    BY <1>4, <2>3 DEF Fail
  <2> QED BY <2>1, <2>2, <2>4
<1>5. ASSUME NEW u \in Users,
             \/ Register(u) \/ SignIn(u) \/ SignOut(u) \/ Authorize(u) \/ Refresh(u)
             \/ AccessExpires(u) \/ Visit(u) \/ ExpireUser(u) \/ ExpireRoles(u)
      PROVE  TInv'
  <2>1. Stored' /\ Grows
    BY <1>5, RegisterOK, UserOK, VisitOK, ExpireOK
  <2>2. UNCHANGED <<setting, req, failures>>
    BY <1>5 DEF Register, SignIn, SignOut, Authorize, Refresh, AccessExpires, Visit, ExpireUser, ExpireRoles
  <2> QED BY <2>1, <2>2, SameRequests
<1>6. ASSUME NEW r \in Lists, ExpireList(r) PROVE TInv'
  <2>1. Stored' /\ Grows
    BY <1>6, ExpireOK
  <2> QED BY <1>6, <2>1, SameRequests DEF ExpireList
<1> QED BY <1>1, <1>2, <1>3, <1>4, <1>5, <1>6 DEF Next

LEMMA StoredInit == Init => TInv
<1> SUFFICES ASSUME Init PROVE TInv
  OBVIOUS
<1>1. TablesOK
  BY AccountsAssumption DEF Init, TablesOK, RowType, NoRow
<1>2. CachesOK
  BY DEF Init, CachesOK
<1>3. RowsOK
  BY DEF Init, RowsOK, HasRow
<1>4. KnownOK
  BY DEF Init, KnownOK
<1>5. AllOK
  BY DEF Init, AllOK, Lists
<1>6. RequestsOK
  <2>1. ReqOK(Idle)
    <3>1. Len(Idle.todo) = 0
      BY DEF Idle
    <3> QED BY <3>1 DEF ReqOK, Informed, Founded, Findable
  <2> QED BY <2>1, IdleNext DEF Init, RequestsOK
<1>7. failures \in 0..setting.failures
  BY AccountsAssumption DEF Init
<1> QED BY <1>1, <1>2, <1>3, <1>4, <1>5, <1>6, <1>7 DEF TInv, Stored

LEMMA AccountsStored == Spec => []TInv
<1>1. Init => TInv
  BY StoredInit
<1>2. TInv /\ [Next]_vars => TInv'
  BY StoredStep
<1> QED BY <1>1, <1>2, PTL DEF Spec

LEMMA TypeIs == TInv => TypeOK
<1> SUFFICES ASSUME TInv PROVE TypeOK
  OBVIOUS
<1>1. ASSUME NEW p \in Procs
      PROVE  /\ DOMAIN req[p] = DOMAIN Idle
             /\ req[p].user \in Users \cup {None} /\ req[p].role \in Roles \cup {None}
             /\ req[p].roles \subseteq Roles /\ req[p].users \subseteq Users
  <2>1. req[p] \in ReqType
    BY DEF TInv, RequestsOK
  <2>2. DOMAIN req[p] = DOMAIN Idle
    BY <2>1 DEF ReqType, Idle
  <2> QED BY <2>1, <2>2 DEF ReqType
<1>2. account \in [Users -> {NoAccount} \cup
        [name : Names, mail : Mails \cup {None}, active : BOOLEAN, roles : SUBSET Roles]]
  BY DEF TInv, Stored, TablesOK, AccountType
<1>3. row \in [Users -> [name : Names \cup {None}, mail : Mails \cup {None}]]
  BY DEF TInv, Stored, TablesOK, RowType
<1>4. userCache \in [Users -> BOOLEAN \cup {None}]
  BY DEF TInv, Stored, CachesOK
<1>5. roleCache \in [Users -> (SUBSET Roles) \cup {None}]
  BY DEF TInv, Stored, CachesOK
<1>6. listCache \in [Lists -> (SUBSET Users) \cup {None}]
  BY DEF TInv, Stored, CachesOK
<1> QED BY <1>1, <1>2, <1>3, <1>4, <1>5, <1>6 DEF TypeOK, TInv, Stored, TablesOK

\* Type correctness: the tables, the caches and the requests in flight keep their shape.
THEOREM AccountsTypeCorrect == Spec => []TypeOK
BY AccountsStored, TypeIs, PTL

-----------------------------------------------------------------------------
(* Bans: the calls a ban goes through, and what is true of its user at each *)

Gone(p, u) == <<p, u>> \in leaving

\* What is left to do while sessions are ended, and while refresh tokens are revoked.
ToTokens == <<"listTokens">> \o Clear
Ending(ids) == Each("endSession", ids) \o ToTokens
Revoking(ids) == Each("revoke", ids) \o Clear

BanOK(p, r) ==
  r.kind = "ban" =>
    /\ Held(r.user)
    /\ \/ r.todo = Ban
       \/ r.todo = Tail(Ban)
       \/ r.todo = Ending(r.ids) /\ (Gone(p, r.user) => sessions[r.user] \subseteq r.ids)
       \/ /\ r.todo = Revoking(r.ids)
          /\ Gone(p, r.user) => sessions[r.user] = {} /\ tokens[r.user] \subseteq r.ids
       \/ /\ r.todo \in {Tail(Clear), Tail(Tail(Clear))}
          /\ Gone(p, r.user) => sessions[r.user] = {} /\ tokens[r.user] = {}

GoneOK == \A p \in Procs, u \in Users : Gone(p, u) => HasAccount(u) /\ ~account[u].active
OutOK ==
  \A u \in out : HasAccount(u) /\ ~account[u].active /\ sessions[u] = {} /\ tokens[u] = {}

BansOK == (\A p \in Procs : BanOK(p, req[p])) /\ GoneOK /\ OutOK

LEMMA TailIs ==
  ASSUME NEW C, NEW t \in Seq(C), NEW w \in Seq(C), Len(t) = Len(w) + 1,
         \A i \in 1..Len(w) : w[i] = t[i + 1]
  PROVE  t # <<>> /\ Tail(t) = w
<1>1. t # <<>>
  OBVIOUS
<1>2. Tail(t) \in Seq(C) /\ Len(Tail(t)) = Len(t) - 1 /\ \A i \in 1..Len(t) - 1 : Tail(t)[i] = t[i + 1]
  BY <1>1, RestOf
<1>3. Len(w) \in Nat /\ Len(t) - 1 = Len(w)
  OBVIOUS
<1> QED BY <1>1, <1>2, <1>3, SeqEqual

\* What is left of a ban after each of its calls.
BanRest(n) ==
  CASE n = 6 -> <<"deactivate", "listSessions", "listTokens", "clearLists", "clearRoles", "clearUsers">>
    [] n = 5 -> <<"listSessions", "listTokens", "clearLists", "clearRoles", "clearUsers">>
    [] n = 4 -> <<"listTokens", "clearLists", "clearRoles", "clearUsers">>
    [] n = 3 -> <<"clearLists", "clearRoles", "clearUsers">>
    [] n = 2 -> <<"clearRoles", "clearUsers">>
    [] n = 1 -> <<"clearUsers">>
    [] n = 0 -> <<>>

LEMMA BanRestIs ==
  ASSUME NEW n \in 1..6
  PROVE  /\ BanRest(n) # <<>> /\ Tail(BanRest(n)) = BanRest(n - 1)
         /\ Len(BanRest(n)) = n /\ BanRest(n) \in Seq(Calls)
<1>1. \A k \in 0..6 : BanRest(k) \in Seq(Calls) /\ Len(BanRest(k)) = k
  <2>1. BanRest(0) \in Seq(Calls) /\ Len(BanRest(0)) = 0
    BY DEF BanRest
  <2>2. BanRest(1) \in Seq(Calls) /\ Len(BanRest(1)) = 1
    BY DEF BanRest, Calls
  <2>3. BanRest(2) \in Seq(Calls) /\ Len(BanRest(2)) = 2
    BY DEF BanRest, Calls
  <2>4. BanRest(3) \in Seq(Calls) /\ Len(BanRest(3)) = 3
    BY DEF BanRest, Calls
  <2>5. BanRest(4) \in Seq(Calls) /\ Len(BanRest(4)) = 4
    BY DEF BanRest, Calls
  <2>6. BanRest(5) \in Seq(Calls) /\ Len(BanRest(5)) = 5
    BY DEF BanRest, Calls
  <2>7. BanRest(6) \in Seq(Calls) /\ Len(BanRest(6)) = 6
    BY DEF BanRest, Calls
  <2>8. \A k \in 0..6 : k = 0 \/ k = 1 \/ k = 2 \/ k = 3 \/ k = 4 \/ k = 5 \/ k = 6
    OBVIOUS
  <2> QED BY <2>1, <2>2, <2>3, <2>4, <2>5, <2>6, <2>7, <2>8
<1>2. \A i \in 1..(n - 1) : BanRest(n - 1)[i] = BanRest(n)[i + 1]
  <2>1. CASE n = 1
    BY <2>1
  <2>2. CASE n = 2
    BY <2>2 DEF BanRest
  <2>3. CASE n = 3
    BY <2>3 DEF BanRest
  <2>4. CASE n = 4
    BY <2>4 DEF BanRest
  <2>5. CASE n = 5
    BY <2>5 DEF BanRest
  <2>6. CASE n = 6
    BY <2>6 DEF BanRest
  <2> QED BY <2>1, <2>2, <2>3, <2>4, <2>5, <2>6
<1>3. n \in 0..6 /\ n - 1 \in 0..6 /\ n = (n - 1) + 1
  OBVIOUS
<1>4. PICK t, w : t = BanRest(n) /\ w = BanRest(n - 1)
  OBVIOUS
<1>5. t \in Seq(Calls) /\ w \in Seq(Calls) /\ Len(t) = n /\ Len(w) = n - 1
  BY <1>1, <1>3, <1>4
<1>6. Len(t) = Len(w) + 1 /\ \A i \in 1..Len(w) : w[i] = t[i + 1]
  BY <1>2, <1>3, <1>4, <1>5
<1>7. t # <<>> /\ Tail(t) = w
  BY <1>5, <1>6, TailIs
<1> QED BY <1>4, <1>5, <1>7

LEMMA ToTokensIs ==
  ToTokens \in Seq(Calls) /\ Clear \in Seq(Calls) /\ ToTokens = BanRest(4) /\ Clear = BanRest(3)
<1>1. PICK a : a = <<"listTokens">>
  OBVIOUS
<1>2. PICK c : c = Clear
  OBVIOUS
<1>3. PICK w : w = BanRest(4)
  OBVIOUS
<1>4. a \in Seq(Calls) /\ c \in Seq(Calls) /\ w \in Seq(Calls)
  BY <1>1, <1>2, <1>3 DEF Clear, Calls, BanRest
<1>5. Len(a) = 1 /\ Len(c) = 3 /\ Len(w) = 4
  BY <1>1, <1>2, <1>3 DEF Clear, BanRest
<1>6. w[1] = a[1] /\ w[2] = c[1] /\ w[3] = c[2] /\ w[4] = c[3]
  BY <1>1, <1>2, <1>3 DEF Clear, BanRest
<1>7. a \o c \in Seq(Calls)
  BY <1>4, Joined
<1>8. Len(a \o c) = Len(a) + Len(c)
  BY <1>4, Joined
<1>9. \A k \in 1..Len(a) : (a \o c)[k] = a[k]
  BY <1>4, Joined
<1>10. \A k \in 1..Len(c) : (a \o c)[Len(a) + k] = c[k]
  BY <1>4, Joined
<1>11. PICK x : x = a \o c
  OBVIOUS
<1>12. x \in Seq(Calls) /\ Len(x) = 4
  BY <1>5, <1>7, <1>8, <1>11
<1>13. x[1] = w[1]
  <2>1. 1 \in 1..Len(a)
    BY <1>5
  <2>2. (a \o c)[1] = a[1]
    BY <1>9, <2>1
  <2> QED BY <1>6, <1>11, <2>2
<1>14. x[1 + 1] = w[2] /\ x[1 + 2] = w[3] /\ x[1 + 3] = w[4]
  <2>1. 1 \in 1..Len(c) /\ 2 \in 1..Len(c) /\ 3 \in 1..Len(c)
    BY <1>5
  <2>2. (a \o c)[Len(a) + 1] = c[1] /\ (a \o c)[Len(a) + 2] = c[2] /\ (a \o c)[Len(a) + 3] = c[3]
    BY <1>10, <2>1
  <2> QED BY <1>5, <1>6, <1>11, <2>2
<1>15. \A i \in 1..4 : x[i] = w[i]
  <2>1. \A i \in 1..4 : i = 1 \/ i = 1 + 1 \/ i = 1 + 2 \/ i = 1 + 3
    OBVIOUS
  <2>2. 1 + 1 = 2 /\ 1 + 2 = 3 /\ 1 + 3 = 4
    OBVIOUS
  <2> QED BY <1>13, <1>14, <2>1, <2>2
<1>16. \A i \in 1..Len(w) : x[i] = w[i]
  BY <1>5, <1>15
<1>17. x = w
  BY <1>4, <1>5, <1>12, <1>16, SeqEqual
<1>18. ToTokens = x
  BY <1>1, <1>2, <1>11 DEF ToTokens
<1>19. Clear = BanRest(3)
  BY DEF Clear, BanRest
<1> QED BY <1>2, <1>3, <1>4, <1>17, <1>18, <1>19

LEMMA BanCallsAre ==
  /\ Ban # <<>> /\ Head(Ban) = "deactivate"
  /\ Tail(Ban) # <<>> /\ Head(Tail(Ban)) = "listSessions" /\ Tail(Tail(Ban)) = ToTokens
  /\ ToTokens # <<>> /\ Head(ToTokens) = "listTokens" /\ Tail(ToTokens) = Clear
  /\ Clear # <<>> /\ Head(Clear) = "clearLists"
  /\ Tail(Clear) # <<>> /\ Head(Tail(Clear)) = "clearRoles"
  /\ Tail(Tail(Clear)) # <<>> /\ Head(Tail(Tail(Clear))) = "clearUsers"
  /\ Tail(Tail(Tail(Clear))) = <<>>
<1>1. Ban = BanRest(6)
  BY BanIs DEF BanRest
<1>2. /\ Tail(BanRest(6)) = BanRest(5) /\ Tail(BanRest(5)) = BanRest(4)
      /\ Tail(BanRest(4)) = BanRest(3) /\ Tail(BanRest(3)) = BanRest(2)
      /\ Tail(BanRest(2)) = BanRest(1) /\ Tail(BanRest(1)) = BanRest(0)
  <2>1. /\ 6 \in 1..6 /\ 5 \in 1..6 /\ 4 \in 1..6 /\ 3 \in 1..6 /\ 2 \in 1..6 /\ 1 \in 1..6
        /\ 6 - 1 = 5 /\ 5 - 1 = 4 /\ 4 - 1 = 3 /\ 3 - 1 = 2 /\ 2 - 1 = 1 /\ 1 - 1 = 0
    OBVIOUS
  <2> QED BY <2>1, BanRestIs
<1>3. /\ BanRest(6) # <<>> /\ BanRest(5) # <<>> /\ BanRest(4) # <<>> /\ BanRest(3) # <<>>
      /\ BanRest(2) # <<>> /\ BanRest(1) # <<>> /\ BanRest(0) = <<>>
  BY BanRestIs DEF BanRest
<1>4. /\ Head(BanRest(6)) = "deactivate" /\ Head(BanRest(5)) = "listSessions"
      /\ Head(BanRest(4)) = "listTokens" /\ Head(BanRest(3)) = "clearLists"
      /\ Head(BanRest(2)) = "clearRoles" /\ Head(BanRest(1)) = "clearUsers"
  BY DEF BanRest
<1> QED BY <1>1, <1>2, <1>3, <1>4, ToTokensIs

\* A session or token less is a call less.
LEMMA EndingIs ==
  ASSUME NEW ids \in SUBSET Sessions
  PROVE  /\ ids = {} => Ending(ids) = ToTokens /\ Revoking(ids) = Clear
         /\ \A i \in ids : /\ Ending(ids) # <<>> /\ Head(Ending(ids)) = "endSession"
                           /\ Tail(Ending(ids)) = Ending(ids \ {i})
                           /\ Revoking(ids) # <<>> /\ Head(Revoking(ids)) = "revoke"
                           /\ Tail(Revoking(ids)) = Revoking(ids \ {i})
<1>1. IsFiniteSet(ids)
  BY AccountsAssumption, FS_Subset
<1>2. "endSession" \in Calls /\ "revoke" \in Calls
  BY DEF Calls
<1>3. ToTokens \in Seq(Calls) /\ Clear \in Seq(Calls)
  BY ToTokensIs
<1>4. Each("endSession", {}) \o ToTokens = ToTokens /\ Each("revoke", {}) \o Clear = Clear
  BY <1>2, <1>3, EachNone
<1>5. ASSUME NEW i \in ids
      PROVE  /\ Ending(ids) # <<>> /\ Head(Ending(ids)) = "endSession"
             /\ Tail(Ending(ids)) = Ending(ids \ {i})
  <2>1. PICK t \in Seq(Calls) : t = ToTokens
    BY <1>3
  <2>2. PICK c \in Calls : c = "endSession"
    BY <1>2
  <2>3. PICK S : S = ids /\ IsFiniteSet(S) /\ i \in S
    BY <1>1
  <2>4. Each(c, S) \o t # <<>> /\ Head(Each(c, S) \o t) = c
    BY <2>3, EachRest
  <2>5. Later(Each(c, S) \o t) = Each(c, S \ {i}) \o t
    BY <2>3, EachRest
  <2> QED BY <2>1, <2>2, <2>3, <2>4, <2>5 DEF Ending, Later
<1>6. ASSUME NEW i \in ids
      PROVE  /\ Revoking(ids) # <<>> /\ Head(Revoking(ids)) = "revoke"
             /\ Tail(Revoking(ids)) = Revoking(ids \ {i})
  <2>1. PICK t \in Seq(Calls) : t = Clear
    BY <1>3
  <2>2. PICK c \in Calls : c = "revoke"
    BY <1>2
  <2>3. PICK S : S = ids /\ IsFiniteSet(S) /\ i \in S
    BY <1>1
  <2>4. Each(c, S) \o t # <<>> /\ Head(Each(c, S) \o t) = c
    BY <2>3, EachRest
  <2>5. Later(Each(c, S) \o t) = Each(c, S \ {i}) \o t
    BY <2>3, EachRest
  <2> QED BY <2>1, <2>2, <2>3, <2>4, <2>5 DEF Revoking, Later
<1> QED BY <1>4, <1>5, <1>6 DEF Ending, Revoking

\* What a ban does at a stage, by the call it is at.
AtCall(p, u, r) ==
  \/ Head(r.todo) = "deactivate" /\ r.todo = Ban
  \/ Head(r.todo) = "listSessions" /\ r.todo = Tail(Ban)
  \/ /\ Head(r.todo) = "endSession" /\ r.ids # {} /\ r.todo = Ending(r.ids)
     /\ Gone(p, u) => sessions[u] \subseteq r.ids
  \/ /\ Head(r.todo) = "listTokens" /\ r.todo = ToTokens
     /\ Gone(p, u) => sessions[u] = {}
  \/ /\ Head(r.todo) = "revoke" /\ r.ids # {} /\ r.todo = Revoking(r.ids)
     /\ Gone(p, u) => sessions[u] = {} /\ tokens[u] \subseteq r.ids
  \/ /\ Head(r.todo) = "clearLists" /\ r.todo = Clear
     /\ Gone(p, u) => sessions[u] = {} /\ tokens[u] = {}
  \/ /\ Head(r.todo) = "clearRoles" /\ r.todo = Tail(Clear)
     /\ Gone(p, u) => sessions[u] = {} /\ tokens[u] = {}
  \/ /\ Head(r.todo) = "clearUsers" /\ r.todo = Tail(Tail(Clear))
     /\ Gone(p, u) => sessions[u] = {} /\ tokens[u] = {}

LEMMA BanAt ==
  ASSUME TInv, NEW p \in Procs, NEW r, r = req[p], NEW u, u = r.user, BanOK(p, r), r.kind = "ban"
  PROVE  /\ r \in ReqType /\ Held(u) /\ r.todo # <<>>
         /\ AtCall(p, u, r)
<1>1. r \in ReqType /\ r.ids \in SUBSET Sessions /\ Held(u)
  BY DEF TInv, RequestsOK, ReqType, BanOK
<1>2. CASE r.todo = Ban
  BY <1>1, <1>2, BanCallsAre DEF AtCall
<1>3. CASE r.todo = Tail(Ban)
  BY <1>1, <1>3, BanCallsAre DEF AtCall
<1>4. CASE r.todo = Ending(r.ids) /\ (Gone(p, u) => sessions[u] \subseteq r.ids)
  <2>1. CASE r.ids = {}
    <3>1. r.todo = ToTokens
      BY <1>1, <1>4, <2>1, EndingIs
    <3> QED BY <1>1, <1>4, <2>1, <3>1, BanCallsAre DEF AtCall
  <2>2. CASE r.ids # {}
    BY <1>1, <1>4, <2>2, EndingIs DEF AtCall
  <2> QED BY <2>1, <2>2
<1>5. CASE /\ r.todo = Revoking(r.ids)
           /\ Gone(p, u) => sessions[u] = {} /\ tokens[u] \subseteq r.ids
  <2>1. CASE r.ids = {}
    <3>1. r.todo = Clear
      BY <1>1, <1>5, <2>1, EndingIs
    <3> QED BY <1>1, <1>5, <2>1, <3>1, BanCallsAre DEF AtCall
  <2>2. CASE r.ids # {}
    BY <1>1, <1>5, <2>2, EndingIs DEF AtCall
  <2> QED BY <2>1, <2>2
<1>6. CASE /\ r.todo \in {Tail(Clear), Tail(Tail(Clear))}
           /\ Gone(p, u) => sessions[u] = {} /\ tokens[u] = {}
  BY <1>1, <1>6, BanCallsAre DEF AtCall
<1> QED BY <1>1, <1>2, <1>3, <1>4, <1>5, <1>6 DEF BanOK

\* What a step leaves of users who are out: it neither activates them nor lets them in.
Calm ==
  \A u \in Users :
    /\ HasAccount(u) => HasAccount(u)'
    /\ \/ (\A p \in Procs : ~Gone(p, u)') /\ u \notin out'
       \/ /\ HasAccount(u) /\ ~account'[u].active
          /\ sessions'[u] \subseteq sessions[u]
          /\ tokens'[u] \subseteq tokens[u] \/ sessions[u] # {}

\* Most steps activate nobody and let nobody in who is not active.
Steady ==
  \A u \in Users :
    HasAccount(u) =>
      /\ HasAccount(u)'
      /\ ~account[u].active => /\ ~account'[u].active
                               /\ sessions'[u] \subseteq sessions[u]
                               /\ tokens'[u] \subseteq tokens[u] \/ sessions[u] # {}

LEMMA SteadyCalm ==
  ASSUME GoneOK, OutOK, out \subseteq Users, Steady, leaving' \subseteq leaving,
         \A u \in out' : u \in out \/ \E p \in Procs : Gone(p, u)
  PROVE  Calm
<1> SUFFICES ASSUME NEW u \in Users, (\E p \in Procs : Gone(p, u)') \/ u \in out'
             PROVE  /\ HasAccount(u) /\ ~account'[u].active
                    /\ sessions'[u] \subseteq sessions[u]
                    /\ tokens'[u] \subseteq tokens[u] \/ sessions[u] # {}
  BY DEF Calm, Steady
<1>1. (\E p \in Procs : Gone(p, u)) \/ u \in out
  BY DEF Gone
<1>2. HasAccount(u) /\ ~account[u].active
  BY <1>1 DEF GoneOK, OutOK
<1> QED BY <1>2 DEF Steady

\* A ban goes on being where it was while others make their steps.
LEMMA BanKept ==
  ASSUME Calm, NEW p \in Procs, NEW r, BanOK(p, r), \A u \in Users : Gone(p, u)' => Gone(p, u)
  PROVE  BanOK(p, r)'
<1> SUFFICES ASSUME r.kind = "ban" PROVE BanOK(p, r)'
  BY DEF BanOK
<1>1. PICK u, t, ids : u = r.user /\ t = r.todo /\ ids = r.ids
  OBVIOUS
<1>2. u \in Users /\ HasAccount(u) /\ HasAccount(u)'
  BY <1>1 DEF BanOK, Held, Calm
<1>3. CASE ~Gone(p, u)'
  BY <1>1, <1>2, <1>3 DEF BanOK, Held
<1>4. CASE Gone(p, u)'
  <2>1. /\ Gone(p, u) /\ sessions'[u] \subseteq sessions[u]
        /\ tokens'[u] \subseteq tokens[u] \/ sessions[u] # {}
    BY <1>2, <1>4 DEF Calm
  <2> QED BY <1>1, <1>2, <2>1 DEF BanOK, Held
<1> QED BY <1>3, <1>4

LEMMA GoneKept ==
  ASSUME Calm, OutOK, out' \subseteq Users,
         \A u \in out' : u \in out \/ (sessions[u] = {} /\ tokens[u] = {})
  PROVE  GoneOK' /\ OutOK'
<1>1. GoneOK'
  BY DEF Calm, GoneOK
<1>2. ASSUME NEW u \in out'
      PROVE  HasAccount(u)' /\ ~account'[u].active /\ sessions'[u] = {} /\ tokens'[u] = {}
  <2>1. sessions[u] = {} /\ tokens[u] = {}
    BY <1>2 DEF OutOK
  <2>2. /\ HasAccount(u)' /\ ~account'[u].active /\ sessions'[u] \subseteq sessions[u]
        /\ tokens'[u] \subseteq tokens[u] \/ sessions[u] # {}
    BY <1>2 DEF Calm
  <2> QED BY <2>1, <2>2
<1> QED BY <1>1, <1>2 DEF OutOK

\* A step of one request, and of none.
LEMMA BansKept ==
  ASSUME TInv, TInv', BansOK, Calm, NEW p \in Procs, BanOK(p, req[p])',
         \A q \in Procs \ {p} : req'[q] = req[q] /\ \A u \in Users : Gone(q, u)' => Gone(q, u),
         \A u \in out' : u \in out \/ (sessions[u] = {} /\ tokens[u] = {})
  PROVE  BansOK'
<1>1. GoneOK' /\ OutOK'
  BY GoneKept DEF BansOK, TInv, Stored, TablesOK
<1>2. ASSUME NEW q \in Procs PROVE BanOK(q, req[q])'
  <2>1. CASE q = p
    BY <2>1
  <2>2. CASE q # p
    <3>1. PICK r : r = req[q] /\ r = req'[q]
      BY <2>2
    <3>2. BanOK(q, r) /\ \A u \in Users : Gone(q, u)' => Gone(q, u)
      BY <2>2, <3>1 DEF BansOK
    <3>3. BanOK(q, r)'
      BY <3>2, BanKept
    <3> QED BY <3>1, <3>3
  <2> QED BY <2>1, <2>2
<1> QED BY <1>1, <1>2 DEF BansOK

LEMMA BansUntouched ==
  ASSUME TInv, TInv', BansOK, Steady, UNCHANGED <<req, leaving, out>>
  PROVE  BansOK'
<1>1. Calm
  BY SteadyCalm DEF BansOK, TInv, Stored, TablesOK
<1>2. GoneOK' /\ OutOK'
  BY <1>1, GoneKept DEF BansOK, TInv, Stored, TablesOK
<1>3. ASSUME NEW q \in Procs PROVE BanOK(q, req[q])'
  <2>1. PICK r : r = req[q] /\ r = req'[q]
    OBVIOUS
  <2>2. BanOK(q, r) /\ \A u \in Users : Gone(q, u)' => Gone(q, u)
    BY <2>1 DEF BansOK, Gone
  <2>3. BanOK(q, r)'
    BY <1>1, <2>2, BanKept
  <2> QED BY <2>1, <2>3
<1> QED BY <1>2, <1>3 DEF BansOK

\* A step of a request replaces it by one of its kind, or by none.
Sets(p) ==
  /\ \A q \in Procs \ {p} : req'[q] = req[q]
  /\ req'[p].kind = req[p].kind \/ req'[p] = Idle

LEMMA KindSet ==
  ASSUME RequestsOK, NEW p \in Procs, NEW s, Set(p, s), s.kind = req[p].kind
  PROVE  Sets(p)
<1>1. req \in [Procs -> ReqType]
  BY DEF RequestsOK
<1> QED BY <1>1 DEF Set, Sets

LEMMA KindThen ==
  ASSUME RequestsOK, NEW p \in Procs, NEW t, Then(p, t)
  PROVE  Sets(p)
<1>1. PICK o : o = req[p] /\ o \in ReqType
  BY DEF RequestsOK
<1>2. PICK s : s = [o EXCEPT !.todo = t]
  OBVIOUS
<1>3. s.kind = o.kind
  BY <1>1, <1>2 DEF ReqType
<1> QED BY <1>1, <1>2, <1>3, KindSet DEF Then

LEMMA KindGoesOn ==
  ASSUME RequestsOK, NEW p \in Procs, Proceed(p) \/ Stop(p)
  PROVE  Sets(p)
BY KindThen DEF Proceed, Stop

LEMMA KindRead ==
  ASSUME RequestsOK, NEW p \in Procs, Read(p)
  PROVE  Sets(p)
<1>1. PICK o : o = req[p] /\ o \in ReqType
  BY DEF RequestsOK
<1>2. ASSUME NEW s, Set(p, s), s.kind = o.kind PROVE Sets(p)
  BY <1>1, <1>2, KindSet
<1>3. CASE FindFirst(p)
  BY <1>1, <1>2, <1>3, KindGoesOn DEF FindFirst, ReqType
<1>4. CASE SetFirst(p) \/ SetRoles(p) \/ SetList(p)
  BY <1>4, KindGoesOn DEF SetFirst, SetRoles, SetList
<1>5. CASE GetRoles(p)
  BY <1>1, <1>2, <1>5 DEF GetRoles, ReqType
<1>6. CASE Repair(p)
  BY <1>1, <1>2, <1>6, KindGoesOn DEF Repair, ReqType
<1>7. CASE FindRole(p)
  BY <1>1, <1>2, <1>7, KindGoesOn DEF FindRole, ReqType
<1> QED BY <1>3, <1>4, <1>5, <1>6, <1>7 DEF Read

LEMMA KindChange ==
  ASSUME RequestsOK, NEW p \in Procs, Change(p)
  PROVE  Sets(p)
<1>1. PICK o : o = req[p] /\ o \in ReqType
  BY DEF RequestsOK
<1>2. ASSUME NEW s, Set(p, s), s.kind = o.kind PROVE Sets(p)
  BY <1>1, <1>2, KindSet
<1>3. CASE CheckMail(p) \/ FindName(p) \/ Add(p) \/ RemoveRole(p) \/ Patch(p) \/ UpdateRow(p) \/ InsertRow(p)
  BY <1>3, KindGoesOn DEF CheckMail, FindName, Add, RemoveRole, Patch, UpdateRow, InsertRow
<1>4. CASE Insert(p)
  BY <1>1, <1>2, <1>4, KindGoesOn DEF Insert, ReqType
<1>5. CASE LoadRoles(p)
  BY <1>1, <1>2, <1>5 DEF LoadRoles, ReqType
<1>6. CASE Drop(p)
  <2>1. PICK r \in o.roles : Set(p, [o EXCEPT !.roles = @ \ {r}, !.todo = Rest(p)])
    BY <1>1, <1>6 DEF Drop
  <2>2. PICK s : s = [o EXCEPT !.roles = @ \ {r}, !.todo = Rest(p)]
    OBVIOUS
  <2>3. s.kind = o.kind
    BY <1>1, <2>2 DEF ReqType
  <2> QED BY <1>2, <2>1, <2>2, <2>3
<1> QED BY <1>3, <1>4, <1>5, <1>6 DEF Change

LEMMA KindBan ==
  ASSUME RequestsOK, NEW p \in Procs, BanStep(p)
  PROVE  Sets(p)
<1>1. PICK o : o = req[p] /\ o \in ReqType
  BY DEF RequestsOK
<1>2. ASSUME NEW s, Set(p, s), s.kind = o.kind PROVE Sets(p)
  BY <1>1, <1>2, KindSet
<1>3. CASE Activate(p) \/ Deactivate(p)
  BY <1>3, KindGoesOn DEF Activate, Deactivate
<1>4. CASE ListSessions(p) \/ ListTokens(p)
  BY <1>1, <1>2, <1>4 DEF ListSessions, ListTokens, ReqType
<1>5. ASSUME NEW i \in o.ids, Set(p, [o EXCEPT !.ids = @ \ {i}, !.todo = Rest(p)])
      PROVE  Sets(p)
  <2>1. PICK s : s = [o EXCEPT !.ids = @ \ {i}, !.todo = Rest(p)]
    OBVIOUS
  <2>2. s.kind = o.kind
    BY <1>1, <2>1 DEF ReqType
  <2> QED BY <1>2, <1>5, <2>1, <2>2
<1>6. CASE EndSession(p)
  BY <1>1, <1>5, <1>6, KindGoesOn DEF EndSession
<1>7. CASE Revoke(p)
  BY <1>1, <1>5, <1>7, KindGoesOn DEF Revoke
<1> QED BY <1>3, <1>4, <1>6, <1>7 DEF BanStep

LEMMA KindSync ==
  ASSUME RequestsOK, NEW p \in Procs, Sync(p)
  PROVE  Sets(p)
<1>1. PICK o : o = req[p] /\ o \in ReqType
  BY DEF RequestsOK
<1>2. ASSUME NEW s, Set(p, s), s.kind = o.kind PROVE Sets(p)
  BY <1>1, <1>2, KindSet
<1>3. CASE CountUsers(p) \/ FindRows(p)
  BY <1>1, <1>2, <1>3 DEF CountUsers, FindRows, ReqType
<1>4. CASE CountRows(p)
  BY <1>4, KindThen DEF CountRows
<1>5. CASE FindUsers(p)
  BY <1>1, <1>2, <1>5 DEF FindUsers, ReqType
<1>6. CASE RowOfUser(p)
  <2>1. PICK u \in o.users : Set(p, [o EXCEPT !.users = @ \ {u}, !.todo = Rest(p)])
    BY <1>1, <1>6 DEF RowOfUser
  <2>2. PICK s : s = [o EXCEPT !.users = @ \ {u}, !.todo = Rest(p)]
    OBVIOUS
  <2>3. s.kind = o.kind
    BY <1>1, <2>2 DEF ReqType
  <2> QED BY <1>2, <2>1, <2>2, <2>3
<1>7. CASE NextRow(p)
  <2>1. CASE o.users = {}
    BY <1>1, <1>7, <2>1, KindThen DEF NextRow
  <2>2. CASE o.users # {}
    <3>1. PICK u \in o.users :
            \/ Set(p, [o EXCEPT !.users = @ \ {u}])
            \/ Set(p, [o EXCEPT !.users = @ \ {u}, !.name = row[u].mail, !.mail = row[u].mail,
                                !.role = "customer", !.todo = Upsert \o <<"nextRow">>])
      BY <1>1, <1>7, <2>2 DEF NextRow
    <3>2. PICK s : s = [o EXCEPT !.users = @ \ {u}]
      OBVIOUS
    <3>3. PICK t : t = [o EXCEPT !.users = @ \ {u}, !.name = row[u].mail, !.mail = row[u].mail,
                                 !.role = "customer", !.todo = Upsert \o <<"nextRow">>]
      OBVIOUS
    <3>4. s.kind = o.kind /\ t.kind = o.kind
      BY <1>1, <3>2, <3>3 DEF ReqType
    <3> QED BY <1>2, <3>1, <3>2, <3>3, <3>4
  <2> QED BY <2>1, <2>2
<1> QED BY <1>3, <1>4, <1>5, <1>6, <1>7 DEF Sync

LEMMA KindWork ==
  ASSUME RequestsOK, NEW p \in Procs, Work(p) \/ Fail(p)
  PROVE  Sets(p)
<1>1. CASE ClearCache(p)
  BY <1>1, KindGoesOn DEF ClearCache, ClearLists, ClearRoles, ClearUsers
<1>2. CASE Fail(p)
  BY <1>2, KindGoesOn DEF Fail
<1> QED BY <1>1, <1>2, KindRead, KindChange, KindBan, KindSync DEF Work

\* Which steps activate nobody and let nobody in.
LEMMA SteadyIf ==
  ASSUME UNCHANGED identityVars
  PROVE  Steady
BY DEF identityVars, Steady, HasAccount

LEMMA SteadyAccount ==
  ASSUME TInv, NEW u \in Users, NEW a \in AccountType, account' = [account EXCEPT ![u] = a],
         HasAccount(u) => a.active = account[u].active, UNCHANGED <<sessions, tokens>>
  PROVE  Steady
<1>1. account \in [Users -> {NoAccount} \cup AccountType]
  BY DEF TInv, Stored, TablesOK
<1>2. a # NoAccount
  BY AccountsAssumption DEF AccountType, NoAccount
<1>3. ASSUME NEW v \in Users, HasAccount(v)
      PROVE  HasAccount(v)' /\ (~account[v].active => ~account'[v].active)
  <2>1. CASE v = u
    <3>1. account'[v] = a
      BY <1>1, <2>1
    <3> QED BY <1>2, <1>3, <2>1, <3>1 DEF HasAccount
  <2>2. CASE v # u
    <3>1. account'[v] = account[v]
      BY <1>1, <2>2
    <3> QED BY <1>3, <3>1 DEF HasAccount
  <2> QED BY <2>1, <2>2
<1> QED BY <1>3 DEF Steady

LEMMA SteadyRoles ==
  ASSUME TInv, NEW p \in Procs, Add(p) \/ Drop(p) \/ RemoveRole(p)
  PROVE  Steady /\ UNCHANGED history
<1>1. PICK o : o = req[p]
  OBVIOUS
<1>2. o \in ReqType /\ RequestsOK
  BY <1>1 DEF TInv, RequestsOK
<1>3. ASSUME NEW c \in AccountCalls, Doing(p, c)
      PROVE  o.user \in Users /\ account[o.user] \in AccountType
  BY <1>1, <1>2, <1>3, HeadIs DEF Held, HasAccount, TInv, Stored, TablesOK
<1>4. o.user \in Users /\ account[o.user] \in AccountType
  <2>1. {"add", "drop", "removeRole"} \subseteq AccountCalls
    BY DEF AccountCalls
  <2>2. Doing(p, "add") \/ Doing(p, "drop") \/ Doing(p, "removeRole")
    BY DEF Add, Drop, RemoveRole
  <2> QED BY <1>3, <2>1, <2>2
<1>5. Add(p) => Doing(p, "add")
  BY DEF Add
<1>6. PICK R : account' = [account EXCEPT ![o.user].roles = R] /\ R \in SUBSET Roles
  <2>1. account[o.user].roles \in SUBSET Roles
    BY <1>4 DEF AccountType
  <2>2. CASE Add(p)
    <3>1. o.role \in Roles
      BY <1>1, <1>2, <1>5, <2>2, HeadIs
    <3>2. PICK R : R = account[o.user].roles \cup {o.role}
      OBVIOUS
    <3>3. account' = [account EXCEPT ![o.user].roles = R]
      BY <1>1, <2>2, <3>2 DEF Add
    <3>4. R \in SUBSET Roles
      <4>1. \A x \in R : x \in account[o.user].roles \/ x = o.role
        BY <3>2
      <4> QED BY <2>1, <3>1, <4>1
    <3> QED BY <3>3, <3>4
  <2>3. CASE Drop(p)
    <3>1. PICK r : account' = [account EXCEPT ![o.user].roles = @ \ {r}]
      BY <1>1, <2>3 DEF Drop
    <3>2. PICK R : R = account[o.user].roles \ {r}
      OBVIOUS
    <3>3. account' = [account EXCEPT ![o.user].roles = R]
      BY <3>1, <3>2
    <3> QED BY <2>1, <3>2, <3>3
  <2>4. CASE RemoveRole(p)
    <3>1. PICK R : R = account[o.user].roles \ {o.role}
      OBVIOUS
    <3>2. account' = [account EXCEPT ![o.user].roles = R]
      BY <1>1, <2>4, <3>1 DEF RemoveRole
    <3> QED BY <2>1, <3>1, <3>2
  <2> QED BY <2>2, <2>3, <2>4
<1>7. PICK a : a = [account[o.user] EXCEPT !.roles = R]
  OBVIOUS
<1>8. a \in AccountType /\ a.active = account[o.user].active
  BY <1>4, <1>6, <1>7 DEF AccountType
<1>9. account' = [account EXCEPT ![o.user] = a]
  BY <1>6, <1>7
<1>10. UNCHANGED <<sessions, tokens>> /\ UNCHANGED history
  BY DEF Add, Drop, RemoveRole
<1> QED BY <1>4, <1>8, <1>9, <1>10, SteadyAccount

LEMMA SteadyNew ==
  ASSUME TInv, NEW u \in Users, ~HasAccount(u), NEW n, NEW m,
         account' = [account EXCEPT ![u] = [name |-> n, mail |-> m, active |-> TRUE, roles |-> {}]],
         UNCHANGED <<sessions, tokens>>
  PROVE  Steady
<1>1. account \in [Users -> {NoAccount} \cup AccountType]
  BY DEF TInv, Stored, TablesOK
<1>2. \A v \in Users : HasAccount(v) => account'[v] = account[v]
  BY <1>1
<1> QED BY <1>2 DEF Steady, HasAccount

LEMMA SteadyEnds ==
  ASSUME TInv, NEW u \in Users, NEW i, UNCHANGED account,
         \/ sessions' = [sessions EXCEPT ![u] = @ \ {i}] /\ UNCHANGED tokens
         \/ tokens' = [tokens EXCEPT ![u] = @ \ {i}] /\ UNCHANGED sessions
         \/ UNCHANGED <<sessions, tokens>>
  PROVE  Steady
<1>1. sessions \in [Users -> SUBSET Sessions] /\ tokens \in [Users -> SUBSET Sessions]
  BY DEF TInv, Stored, TablesOK
<1>2. \A v \in Users : sessions'[v] \subseteq sessions[v] /\ tokens'[v] \subseteq tokens[v]
  BY <1>1
<1> QED BY <1>2 DEF Steady, HasAccount

LEMMA SteadyWork ==
  ASSUME TInv, NEW p \in Procs, Work(p), ~Patch(p), ~Activate(p), ~Deactivate(p), ~ClearUsers(p)
  PROVE  Steady /\ UNCHANGED history
<1>1. CASE Read(p)
  <2>1. UNCHANGED identityVars /\ UNCHANGED history
    BY <1>1 DEF Read, FindFirst, SetFirst, GetRoles, SetRoles, Repair, FindRole, SetList
  <2> QED BY <2>1, SteadyIf
<1>2. CASE ClearCache(p)
  <2>1. UNCHANGED identityVars /\ UNCHANGED history
    BY <1>2 DEF ClearCache, ClearLists, ClearRoles
  <2> QED BY <2>1, SteadyIf
<1>3. CASE Sync(p)
  <2>1. UNCHANGED identityVars /\ UNCHANGED history
    BY <1>3 DEF Sync, CountUsers, CountRows, FindUsers, RowOfUser, FindRows, NextRow
  <2> QED BY <2>1, SteadyIf
<1>4. CASE CheckMail(p) \/ FindName(p) \/ LoadRoles(p) \/ UpdateRow(p) \/ InsertRow(p)
           \/ ListSessions(p) \/ ListTokens(p)
  <2>1. UNCHANGED identityVars /\ UNCHANGED history
    BY <1>4 DEF CheckMail, FindName, LoadRoles, UpdateRow, InsertRow, ListSessions, ListTokens
  <2> QED BY <2>1, SteadyIf
<1>5. CASE Insert(p)
  <2>1. CASE UNCHANGED account
    <3>1. UNCHANGED identityVars /\ UNCHANGED history
      BY <1>5, <2>1 DEF Insert, identityVars
    <3> QED BY <3>1, SteadyIf
  <2>2. CASE ~UNCHANGED account
    <3>1. PICK u \in setting.users :
            /\ ~HasAccount(u)
            /\ account' = [account EXCEPT ![u] = [name |-> req[p].name, mail |-> req[p].mail,
                                                  active |-> TRUE, roles |-> {}]]
      BY <1>5, <2>2 DEF Insert
    <3>2. u \in Users
      BY AccountsAssumption DEF TInv, Stored, TablesOK
    <3>3. UNCHANGED <<sessions, tokens>> /\ UNCHANGED history
      BY <1>5 DEF Insert
    <3> QED BY <3>1, <3>2, <3>3, SteadyNew
  <2> QED BY <2>1, <2>2
<1>6. CASE EndSession(p) \/ Revoke(p)
  <2>1. req[p].user \in Users
    <3>1. Doing(p, "endSession") \/ Doing(p, "revoke")
      BY <1>6 DEF EndSession, Revoke
    <3>2. {"endSession", "revoke"} \subseteq AccountCalls
      BY DEF AccountCalls
    <3> QED BY <3>1, <3>2, HeadIs DEF TInv, Held
  <2>2. /\ UNCHANGED account /\ UNCHANGED history
        /\ \E i : \/ sessions' = [sessions EXCEPT ![req[p].user] = @ \ {i}] /\ UNCHANGED tokens
                  \/ tokens' = [tokens EXCEPT ![req[p].user] = @ \ {i}] /\ UNCHANGED sessions
                  \/ UNCHANGED <<sessions, tokens>>
    <3>1. CASE EndSession(p)
      BY <3>1 DEF EndSession
    <3>2. CASE Revoke(p)
      BY <3>2 DEF Revoke
    <3> QED BY <1>6, <3>1, <3>2
  <2> QED BY <2>1, <2>2, SteadyEnds
<1> QED BY <1>1, <1>2, <1>3, <1>4, <1>5, <1>6, SteadyRoles DEF Work, Change, BanStep, ClearCache

LEMMA CalmChange ==
  ASSUME TInv, GoneOK, OutOK, NEW u \in Users, HasAccount(u), NEW a \in AccountType,
         account' = [account EXCEPT ![u] = a], UNCHANGED <<sessions, tokens>>,
         \/ /\ ~a.active /\ out' = out
            /\ \A q \in Procs, v \in Users : Gone(q, v)' => Gone(q, v) \/ v = u
         \/ a.active = account[u].active /\ UNCHANGED history
         \/ Activated(u)
  PROVE  Calm
<1>1. account \in [Users -> {NoAccount} \cup AccountType]
  BY DEF TInv, Stored, TablesOK
<1>2. a # NoAccount
  BY AccountsAssumption DEF AccountType, NoAccount
<1>3. account'[u] = a /\ \A v \in Users \ {u} : account'[v] = account[v]
  BY <1>1
<1>4. ASSUME NEW v \in Users, v # u
      PROVE  /\ \A q \in Procs : Gone(q, v)' => Gone(q, v)
             /\ v \in out' => v \in out
  BY <1>4 DEF Activated, history, Gone
<1>5. ASSUME NEW v \in Users
      PROVE  /\ HasAccount(v) => HasAccount(v)'
             /\ \/ (\A q \in Procs : ~Gone(q, v)') /\ v \notin out'
                \/ HasAccount(v) /\ ~account'[v].active
  <2>1. CASE v # u
    <3>1. (\E q \in Procs : Gone(q, v)) \/ v \in out => HasAccount(v) /\ ~account[v].active
      BY DEF GoneOK, OutOK
    <3> QED BY <1>3, <1>4, <2>1, <3>1 DEF HasAccount
  <2>2. CASE v = u /\ ~a.active
    BY <1>2, <1>3, <2>2 DEF HasAccount
  <2>3. CASE v = u /\ Activated(u)
    <3>1. (\A q \in Procs : ~Gone(q, v)') /\ v \notin out'
      BY <2>3 DEF Activated, Gone
    <3> QED BY <1>2, <1>3, <2>3, <3>1 DEF HasAccount
  <2>4. CASE v = u /\ a.active = account[u].active /\ UNCHANGED history
    <3>1. (\E q \in Procs : Gone(q, v)) \/ v \in out => HasAccount(v) /\ ~account[v].active
      BY DEF GoneOK, OutOK
    <3>2. \A q \in Procs : Gone(q, v)' <=> Gone(q, v)
      BY <2>4 DEF history, Gone
    <3> QED BY <1>2, <1>3, <2>4, <3>1, <3>2 DEF HasAccount, history
  <2> QED BY <2>1, <2>2, <2>3, <2>4
<1> QED BY <1>5 DEF Calm

\* updateById, activate and deactivate.
LEMMA CalmPatch ==
  ASSUME TInv, GoneOK, OutOK, NEW p \in Procs, Patch(p) \/ Activate(p) \/ Deactivate(p)
  PROVE  /\ Calm /\ out' \subseteq out
         /\ \A q \in Procs \ {p}, v \in Users : Gone(q, v)' => Gone(q, v)
<1>1. PICK o : o = req[p]
  OBVIOUS
<1>2. o \in ReqType /\ RequestsOK
  BY <1>1 DEF TInv, RequestsOK
<1>3. o.user \in Users /\ HasAccount(o.user) /\ account[o.user] \in AccountType
  <2>1. {"patch", "activate", "deactivate"} \subseteq AccountCalls
    BY DEF AccountCalls
  <2>2. Doing(p, "patch") \/ Doing(p, "activate") \/ Doing(p, "deactivate")
    BY DEF Patch, Activate, Deactivate
  <2> QED BY <1>1, <1>2, <2>1, <2>2, HeadIs DEF Held, HasAccount, TInv, Stored, TablesOK
<1>4. UNCHANGED <<sessions, tokens>>
  BY DEF Patch, Activate, Deactivate
<1>5. CASE Patch(p)
  <2>1. PICK m : m = IF o.mail = None THEN account[o.user].mail ELSE o.mail
    OBVIOUS
  <2>2. PICK b : b = IF o.active = None THEN account[o.user].active ELSE o.active
    OBVIOUS
  <2>3. PICK a : a = [account[o.user] EXCEPT !.mail = m, !.active = b]
    OBVIOUS
  <2>4. m \in Mails \cup {None}
    BY <1>2, <1>3, <2>1 DEF AccountType, ReqType
  <2>5. b \in BOOLEAN
    BY <1>2, <1>3, <2>2 DEF AccountType, ReqType
  <2>6. a \in AccountType /\ a.active = b
    BY <1>3, <2>3, <2>4, <2>5 DEF AccountType
  <2>7. account' = [account EXCEPT ![o.user] = a]
    BY <1>1, <1>5, <2>1, <2>2, <2>3 DEF Patch
  <2>8. IF o.active = TRUE THEN Activated(o.user) ELSE UNCHANGED history
    BY <1>1, <1>5 DEF Patch
  <2>9. CASE o.active = TRUE
    <3>1. Activated(o.user)
      BY <2>8, <2>9
    <3>2. Calm
      BY <1>3, <1>4, <2>6, <2>7, <3>1, CalmChange
    <3> QED BY <3>1, <3>2 DEF Activated, Gone
  <2>10. CASE o.active # TRUE
    <3>1. UNCHANGED history
      BY <2>8, <2>10
    <3>2. b = account[o.user].active \/ ~b
      BY <1>2, <2>2, <2>10 DEF ReqType
    <3>3. out' = out /\ \A q \in Procs, v \in Users : Gone(q, v)' => Gone(q, v)
      BY <3>1 DEF history, Gone
    <3>4. Calm
      BY <1>3, <1>4, <2>6, <2>7, <3>1, <3>2, <3>3, CalmChange
    <3> QED BY <3>3, <3>4
  <2> QED BY <2>9, <2>10
<1>6. CASE Activate(p)
  <2>1. PICK a : a = [account[o.user] EXCEPT !.active = TRUE]
    OBVIOUS
  <2>2. a \in AccountType
    BY <1>3, <2>1 DEF AccountType
  <2>3. account' = [account EXCEPT ![o.user] = a] /\ Activated(o.user)
    BY <1>1, <1>6, <2>1 DEF Activate
  <2>4. Calm
    BY <1>3, <1>4, <2>2, <2>3, CalmChange
  <2> QED BY <2>3, <2>4 DEF Activated, Gone
<1>7. CASE Deactivate(p)
  <2>1. PICK a : a = [account[o.user] EXCEPT !.active = FALSE]
    OBVIOUS
  <2>2. a \in AccountType /\ ~a.active
    BY <1>3, <2>1 DEF AccountType
  <2>3. /\ account' = [account EXCEPT ![o.user] = a]
        /\ leaving' = leaving \cup {<<p, o.user>>} /\ out' = out
    BY <1>1, <1>7, <2>1 DEF Deactivate
  <2>4. \A q \in Procs, v \in Users : Gone(q, v)' => Gone(q, v) \/ (q = p /\ v = o.user)
    BY <2>3 DEF Gone
  <2>5. Calm
    BY <1>3, <1>4, <2>2, <2>3, <2>4, CalmChange
  <2> QED BY <2>3, <2>4, <2>5
<1> QED BY <1>5, <1>6, <1>7

\* The ban that makes its step.
LEMMA BanPut ==
  ASSUME TInv, NEW p \in Procs, NEW s, Set(p, s), s.todo # <<>> => BanOK(p, s)'
  PROVE  BanOK(p, req[p])'
<1>1. req \in [Procs -> ReqType]
  BY DEF TInv, RequestsOK
<1>2. CASE s.todo = <<>>
  <2>1. req'[p] = Idle
    BY <1>1, <1>2 DEF Set
  <2> QED BY <2>1 DEF BanOK, Idle
<1>3. CASE s.todo # <<>>
  <2>1. req'[p] = s
    BY <1>1, <1>3 DEF Set
  <2> QED BY <1>3, <2>1
<1> QED BY <1>2, <1>3

LEMMA BanStops ==
  ASSUME TInv, NEW p \in Procs, Stop(p), req[p].kind = "ban"
  PROVE  BanOK(p, req[p])'
<1>1. PICK o : o = req[p] /\ o \in ReqType
  BY DEF TInv, RequestsOK
<1>2. PICK s : s = [o EXCEPT !.todo = <<>>]
  OBVIOUS
<1>3. s.todo = <<>>
  BY <1>1, <1>2 DEF ReqType
<1>4. Set(p, s)
  BY <1>1, <1>2 DEF Stop, Then
<1> QED BY <1>3, <1>4, BanPut

LEMMA BanDoes ==
  ASSUME TInv, NEW p \in Procs, Work(p),
         Head(req[p].todo) \in {"deactivate", "listSessions", "endSession", "listTokens", "revoke",
                                "clearLists", "clearRoles", "clearUsers"}
  PROVE  \/ Deactivate(p) /\ Head(req[p].todo) = "deactivate"
         \/ ListSessions(p) /\ Head(req[p].todo) = "listSessions"
         \/ EndSession(p) /\ Head(req[p].todo) = "endSession"
         \/ ListTokens(p) /\ Head(req[p].todo) = "listTokens"
         \/ Revoke(p) /\ Head(req[p].todo) = "revoke"
         \/ ClearLists(p) /\ Head(req[p].todo) = "clearLists"
         \/ ClearRoles(p) /\ Head(req[p].todo) = "clearRoles"
         \/ ClearUsers(p) /\ Head(req[p].todo) = "clearUsers"
<1>1. ~Read(p)
  BY DEF Read, FindFirst, SetFirst, GetRoles, SetRoles, Repair, FindRole, SetList, Doing
<1>2. ~Change(p)
  BY DEF Change, CheckMail, FindName, Insert, Add, LoadRoles, Drop, RemoveRole, Patch, UpdateRow,
     InsertRow, Doing
<1>3. ~Sync(p)
  BY DEF Sync, CountUsers, CountRows, FindUsers, RowOfUser, FindRows, NextRow, Doing
<1>4. ~Activate(p)
  BY DEF Activate, Doing
<1>5. /\ Deactivate(p) => Head(req[p].todo) = "deactivate"
      /\ ListSessions(p) => Head(req[p].todo) = "listSessions"
      /\ EndSession(p) => Head(req[p].todo) = "endSession"
      /\ ListTokens(p) => Head(req[p].todo) = "listTokens"
      /\ Revoke(p) => Head(req[p].todo) = "revoke"
      /\ ClearLists(p) => Head(req[p].todo) = "clearLists"
      /\ ClearRoles(p) => Head(req[p].todo) = "clearRoles"
      /\ ClearUsers(p) => Head(req[p].todo) = "clearUsers"
  BY DEF Deactivate, ListSessions, EndSession, ListTokens, Revoke, ClearLists, ClearRoles, ClearUsers,
     Doing
<1> QED BY <1>1, <1>2, <1>3, <1>4, <1>5 DEF Work, ClearCache, BanStep

\* What is true of the user of a ban, by the calls the ban has left.
Stage(p, u, ids, t) ==
  \/ t = <<>>
  \/ t = Tail(Ban)
  \/ t = Ending(ids) /\ (Gone(p, u) => sessions[u] \subseteq ids)
  \/ t = Revoking(ids) /\ (Gone(p, u) => sessions[u] = {} /\ tokens[u] \subseteq ids)
  \/ /\ t \in {Tail(Clear), Tail(Tail(Clear))}
     /\ Gone(p, u) => sessions[u] = {} /\ tokens[u] = {}

LEMMA BanStage ==
  ASSUME NEW p \in Procs, NEW s, Held(s.user), s.todo # <<>>, Stage(p, s.user, s.ids, s.todo)
  PROVE  BanOK(p, s)
BY DEF BanOK, Stage

LEMMA BanStageNext ==
  ASSUME NEW p \in Procs, NEW s, Held(s.user)', s.todo # <<>>, Stage(p, s.user, s.ids, s.todo)'
  PROVE  BanOK(p, s)'
BY DEF BanOK, Stage

\* The ban goes on to its next call, with other ids perhaps.
LEMMA BanGoesOn ==
  ASSUME TInv, Calm, NEW p \in Procs, NEW u, u = req[p].user, req[p].kind = "ban", Held(u),
         NEW ids, NEW t, Set(p, [req[p] EXCEPT !.ids = ids, !.todo = t]), Stage(p, u, ids, t)'
  PROVE  BanOK(p, req[p])'
<1>1. PICK o : o = req[p] /\ o \in ReqType
  BY DEF TInv, RequestsOK
<1>2. PICK s : s = [o EXCEPT !.ids = ids, !.todo = t]
  OBVIOUS
<1>3. s.todo = t /\ s.ids = ids /\ s.user = u /\ s.kind = "ban"
  BY <1>1, <1>2 DEF ReqType
<1>4. Held(u)'
  BY DEF Calm, Held
<1>5. s.todo # <<>> => BanOK(p, s)'
  BY <1>3, <1>4, BanStageNext
<1>6. Set(p, s)
  BY <1>1, <1>2
<1> QED BY <1>5, <1>6, BanPut

LEMMA BanProceeds ==
  ASSUME TInv, Calm, NEW p \in Procs, NEW u, u = req[p].user, req[p].kind = "ban", Held(u),
         Proceed(p), NEW ids, ids = req[p].ids, NEW t, t = Rest(p), Stage(p, u, ids, t)'
  PROVE  BanOK(p, req[p])'
<1>1. PICK o : o = req[p] /\ o \in ReqType
  BY DEF TInv, RequestsOK
<1>2. [o EXCEPT !.todo = t] = [o EXCEPT !.ids = ids, !.todo = t]
  BY <1>1 DEF ReqType
<1>3. Set(p, [req[p] EXCEPT !.ids = ids, !.todo = t])
  BY <1>1, <1>2 DEF Proceed, Then
<1> QED BY <1>3, BanGoesOn

\* Each call of a ban.
LEMMA BanStepOK ==
  ASSUME TInv, BansOK, Calm, NEW p \in Procs, req[p].kind = "ban", Work(p)
  PROVE  BanOK(p, req[p])'
<1>1. PICK o : o = req[p]
  OBVIOUS
<1>2. PICK u : u = o.user
  OBVIOUS
<1>3. /\ o \in ReqType /\ Held(u) /\ u \in Users /\ o.todo # <<>> /\ o.ids \in SUBSET Sessions
      /\ \/ Head(o.todo) = "deactivate" /\ o.todo = Ban
         \/ Head(o.todo) = "listSessions" /\ o.todo = Tail(Ban)
         \/ /\ Head(o.todo) = "endSession" /\ o.ids # {} /\ o.todo = Ending(o.ids)
            /\ Gone(p, u) => sessions[u] \subseteq o.ids
         \/ /\ Head(o.todo) = "listTokens" /\ o.todo = ToTokens
            /\ Gone(p, u) => sessions[u] = {}
         \/ /\ Head(o.todo) = "revoke" /\ o.ids # {} /\ o.todo = Revoking(o.ids)
            /\ Gone(p, u) => sessions[u] = {} /\ tokens[u] \subseteq o.ids
         \/ /\ Head(o.todo) = "clearLists" /\ o.todo = Clear
            /\ Gone(p, u) => sessions[u] = {} /\ tokens[u] = {}
         \/ /\ Head(o.todo) = "clearRoles" /\ o.todo = Tail(Clear)
            /\ Gone(p, u) => sessions[u] = {} /\ tokens[u] = {}
         \/ /\ Head(o.todo) = "clearUsers" /\ o.todo = Tail(Tail(Clear))
            /\ Gone(p, u) => sessions[u] = {} /\ tokens[u] = {}
  <2>1. BanOK(p, o) /\ o.kind = "ban"
    BY <1>1 DEF BansOK
  <2>2. o.ids \in SUBSET Sessions
    BY <1>1 DEF TInv, RequestsOK, ReqType
  <2>3. Held(u) /\ u \in Users
    BY <1>2, <2>1 DEF BanOK, Held
  <2>4. o \in ReqType /\ o.todo # <<>> /\ AtCall(p, u, o)
    BY <1>1, <1>2, <2>1, BanAt
  <2> QED BY <2>2, <2>3, <2>4 DEF AtCall
<1>4. Rest(p) = Tail(o.todo)
  BY <1>1 DEF Rest
<1>5. sessions \in [Users -> SUBSET Sessions] /\ tokens \in [Users -> SUBSET Sessions]
  BY DEF TInv, Stored, TablesOK
<1>6. u = req[p].user
  BY <1>1, <1>2
<1>7. ASSUME NEW ids, NEW t, Set(p, [o EXCEPT !.ids = ids, !.todo = t]), Stage(p, u, ids, t)'
      PROVE  BanOK(p, req[p])'
  <2>1. Set(p, [req[p] EXCEPT !.ids = ids, !.todo = t])
    BY <1>1, <1>7
  <2> QED BY <1>3, <1>6, <1>7, <2>1, BanGoesOn
<1>8. ASSUME NEW t, t = Rest(p), Proceed(p), Stage(p, u, o.ids, t)'
      PROVE  BanOK(p, req[p])'
  <2>1. PICK ids : ids = o.ids
    OBVIOUS
  <2>2. Stage(p, u, ids, t)' /\ ids = req[p].ids
    BY <1>1, <1>8, <2>1
  <2> QED BY <1>3, <1>6, <1>8, <2>2, BanProceeds
<1>9. CASE Deactivate(p) /\ Head(o.todo) = "deactivate"
  <2>1. PICK t : t = Rest(p)
    OBVIOUS
  <2>2. t = Tail(Ban) /\ Proceed(p)
    BY <1>3, <1>4, <1>9, <2>1 DEF Deactivate
  <2>3. Stage(p, u, o.ids, t)'
    BY <2>2 DEF Stage
  <2> QED BY <1>8, <2>1, <2>2, <2>3
<1>10. CASE ListSessions(p) /\ Head(o.todo) = "listSessions"
  <2>1. PICK ids : ids = sessions[u]
    OBVIOUS
  <2>2. Rest(p) = ToTokens
    BY <1>3, <1>4, <1>10, BanCallsAre
  <2>3. PICK t : t = Ending(ids)
    OBVIOUS
  <2>4. Set(p, [o EXCEPT !.ids = ids, !.todo = t])
    BY <1>1, <1>2, <1>10, <2>1, <2>2, <2>3 DEF ListSessions, Ending
  <2>5. sessions'[u] \subseteq ids
    BY <1>10, <2>1 DEF ListSessions, identityVars
  <2>6. Stage(p, u, ids, t)'
    BY <2>3, <2>5 DEF Stage
  <2> QED BY <1>7, <2>4, <2>6
<1>11. CASE EndSession(p) /\ Head(o.todo) = "endSession"
  <2>1. PICK i \in o.ids :
          IF i \in sessions[u]
          THEN /\ sessions' = [sessions EXCEPT ![u] = @ \ {i}]
               /\ Set(p, [o EXCEPT !.ids = @ \ {i}, !.todo = Rest(p)])
          ELSE Stop(p) /\ UNCHANGED sessions
    BY <1>1, <1>2, <1>11 DEF EndSession
  <2>2. CASE i \notin sessions[u]
    BY <1>1, <2>1, <2>2, BanStops
  <2>3. CASE i \in sessions[u]
    <3>1. PICK ids, t : ids = o.ids \ {i} /\ t = Ending(ids)
      OBVIOUS
    <3>2. o.todo = Ending(o.ids) /\ (Gone(p, u) => sessions[u] \subseteq o.ids)
      BY <1>3, <1>11
    <3>3. Rest(p) = t
      BY <1>3, <1>4, <3>1, <3>2, EndingIs
    <3>4. Set(p, [o EXCEPT !.ids = ids, !.todo = t])
      BY <1>1, <2>1, <2>3, <3>1, <3>3
    <3>5. Gone(p, u)' => Gone(p, u)
      BY <1>11 DEF EndSession, history, Gone
    <3>6. sessions'[u] = sessions[u] \ {i}
      BY <1>3, <1>5, <2>1, <2>3
    <3>7. Gone(p, u)' => sessions'[u] \subseteq ids
      BY <3>1, <3>2, <3>5, <3>6
    <3>8. Stage(p, u, ids, t)'
      BY <3>1, <3>7 DEF Stage
    <3> QED BY <1>7, <3>4, <3>8
  <2> QED BY <2>2, <2>3
<1>12. CASE ListTokens(p) /\ Head(o.todo) = "listTokens"
  <2>1. PICK ids : ids = tokens[u]
    OBVIOUS
  <2>2. Rest(p) = Clear
    BY <1>3, <1>4, <1>12, BanCallsAre
  <2>3. PICK t : t = Revoking(ids)
    OBVIOUS
  <2>4. Set(p, [o EXCEPT !.ids = ids, !.todo = t])
    BY <1>1, <1>2, <1>12, <2>1, <2>2, <2>3 DEF ListTokens, Revoking
  <2>5. Gone(p, u) => sessions[u] = {}
    BY <1>3, <1>12
  <2>6. leaving' = leaving /\ sessions' = sessions /\ tokens' = tokens
    BY <1>12 DEF ListTokens, identityVars, history
  <2>7. (Gone(p, u) => sessions[u] = {} /\ tokens[u] \subseteq ids)'
    BY <2>1, <2>5, <2>6 DEF Gone
  <2>8. Stage(p, u, ids, t)'
    BY <2>3, <2>7 DEF Stage
  <2> QED BY <1>7, <2>4, <2>8
<1>13. CASE Revoke(p) /\ Head(o.todo) = "revoke"
  <2>1. PICK i \in o.ids :
          IF i \in tokens[u]
          THEN /\ tokens' = [tokens EXCEPT ![u] = @ \ {i}]
               /\ Set(p, [o EXCEPT !.ids = @ \ {i}, !.todo = Rest(p)])
          ELSE Stop(p) /\ UNCHANGED tokens
    BY <1>1, <1>2, <1>13 DEF Revoke
  <2>2. CASE i \notin tokens[u]
    BY <1>1, <2>1, <2>2, BanStops
  <2>3. CASE i \in tokens[u]
    <3>1. PICK ids, t : ids = o.ids \ {i} /\ t = Revoking(ids)
      OBVIOUS
    <3>2. /\ o.todo = Revoking(o.ids)
          /\ Gone(p, u) => sessions[u] = {} /\ tokens[u] \subseteq o.ids
      BY <1>3, <1>13
    <3>3. Rest(p) = t
      BY <1>3, <1>4, <3>1, <3>2, EndingIs
    <3>4. Set(p, [o EXCEPT !.ids = ids, !.todo = t])
      BY <1>1, <2>1, <2>3, <3>1, <3>3
    <3>5. (Gone(p, u)' => Gone(p, u)) /\ sessions' = sessions
      BY <1>13 DEF Revoke, history, Gone
    <3>6. tokens'[u] = tokens[u] \ {i}
      BY <1>3, <1>5, <2>1, <2>3
    <3>7. Gone(p, u)' => sessions'[u] = {} /\ tokens'[u] \subseteq ids
      BY <3>1, <3>2, <3>5, <3>6
    <3>8. Stage(p, u, ids, t)'
      BY <3>1, <3>7 DEF Stage
    <3> QED BY <1>7, <3>4, <3>8
  <2> QED BY <2>2, <2>3
<1>14. CASE \/ ClearLists(p) /\ Head(o.todo) = "clearLists"
            \/ ClearRoles(p) /\ Head(o.todo) = "clearRoles"
  <2>1. PICK t : t = Rest(p)
    OBVIOUS
  <2>2. t \in {Tail(Clear), Tail(Tail(Clear))} /\ Proceed(p)
    BY <1>3, <1>4, <1>14, <2>1 DEF ClearLists, ClearRoles
  <2>3. Gone(p, u) => sessions[u] = {} /\ tokens[u] = {}
    BY <1>3, <1>14
  <2>4. leaving' = leaving /\ sessions' = sessions /\ tokens' = tokens
    BY <1>14 DEF ClearLists, ClearRoles, identityVars, history
  <2>5. (Gone(p, u) => sessions[u] = {} /\ tokens[u] = {})'
    BY <2>3, <2>4 DEF Gone
  <2>6. Stage(p, u, o.ids, t)'
    BY <2>2, <2>5 DEF Stage
  <2> QED BY <1>8, <2>1, <2>2, <2>6
<1>15. CASE ClearUsers(p) /\ Head(o.todo) = "clearUsers"
  <2>1. PICK t : t = Rest(p)
    OBVIOUS
  <2>2. t = <<>> /\ Proceed(p)
    BY <1>3, <1>4, <1>15, <2>1, BanCallsAre DEF ClearUsers
  <2>3. Stage(p, u, o.ids, t)'
    BY <2>2 DEF Stage
  <2> QED BY <1>8, <2>1, <2>2, <2>3
<1>16. Head(o.todo) \in {"deactivate", "listSessions", "endSession", "listTokens", "revoke",
                        "clearLists", "clearRoles", "clearUsers"}
  BY <1>3
<1> QED BY <1>1, <1>9, <1>10, <1>11, <1>12, <1>13, <1>14, <1>15, <1>16, BanDoes

LEMMA BansWork ==
  ASSUME TInv, TInv', BansOK, NEW p \in Procs, Work(p)
  PROVE  BansOK'
<1>1. GoneOK /\ OutOK /\ out \subseteq Users /\ RequestsOK
  BY DEF BansOK, TInv, Stored, TablesOK
<1>2. /\ Calm
      /\ \A q \in Procs \ {p}, v \in Users : Gone(q, v)' => Gone(q, v)
      /\ \A v \in out' : v \in out \/ (sessions[v] = {} /\ tokens[v] = {})
  <2>1. CASE Patch(p) \/ Activate(p) \/ Deactivate(p)
    BY <1>1, <2>1, CalmPatch
  <2>2. CASE ClearUsers(p)
    <3>1. Steady
      <4>1. UNCHANGED identityVars
        BY <2>2 DEF ClearUsers
      <4> QED BY <4>1, SteadyIf
    <3>2. leaving' \subseteq leaving
      BY <2>2 DEF ClearUsers, history
    <3>3. CASE req[p].kind = "ban" /\ <<p, req[p].user>> \in leaving
      <4>1. PICK u : u = req[p].user
        OBVIOUS
      <4>2. out' = out \cup {u} /\ Gone(p, u)
        BY <2>2, <3>3, <4>1 DEF ClearUsers, Gone
      <4>3. \A v \in out' : v \in out \/ \E q \in Procs : Gone(q, v)
        BY <4>2
      <4>4. Calm
        BY <1>1, <3>1, <3>2, <4>3, SteadyCalm
      <4>5. Head(req[p].todo) = "clearUsers"
        BY <2>2 DEF ClearUsers, Doing
      <4>6. BanOK(p, req[p])
        BY DEF BansOK
      <4>7. Gone(p, u) => sessions[u] = {} /\ tokens[u] = {}
        <5>1. AtCall(p, u, req[p])
          BY <3>3, <4>1, <4>6, BanAt
        <5> QED BY <4>5, <5>1 DEF AtCall
      <4> QED BY <3>2, <4>2, <4>4, <4>7 DEF Gone
    <3>4. CASE ~(req[p].kind = "ban" /\ <<p, req[p].user>> \in leaving)
      <4>1. out' = out
        BY <2>2, <3>4 DEF ClearUsers, history
      <4>2. Calm
        BY <1>1, <3>1, <3>2, <4>1, SteadyCalm
      <4> QED BY <3>2, <4>1, <4>2 DEF Gone
    <3> QED BY <3>3, <3>4
  <2>3. CASE ~Patch(p) /\ ~Activate(p) /\ ~Deactivate(p) /\ ~ClearUsers(p)
    <3>1. Steady /\ leaving' = leaving /\ out' = out
      BY <2>3, SteadyWork DEF history
    <3>2. Calm
      BY <1>1, <3>1, SteadyCalm
    <3> QED BY <3>1, <3>2 DEF Gone
  <2> QED BY <2>1, <2>2, <2>3
<1>3. Sets(p)
  BY <1>1, KindWork
<1>4. BanOK(p, req[p])'
  <2>1. CASE req[p].kind = "ban"
    BY <1>2, <2>1, BanStepOK
  <2>2. CASE req[p].kind # "ban"
    <3>1. req'[p].kind # "ban"
      BY <1>3, <2>2 DEF Sets, Idle
    <3> QED BY <3>1 DEF BanOK
  <2> QED BY <2>1, <2>2
<1> QED BY <1>2, <1>3, <1>4, BansKept DEF Sets

LEMMA BansFail ==
  ASSUME TInv, TInv', BansOK, NEW p \in Procs, Fail(p)
  PROVE  BansOK'
<1>1. UNCHANGED identityVars /\ UNCHANGED <<leaving, out>> /\ Stop(p)
  BY DEF Fail, history
<1>2. Calm
  BY <1>1, SteadyIf, SteadyCalm DEF BansOK, TInv, Stored, TablesOK
<1>3. Sets(p)
  BY KindWork DEF TInv
<1>4. BanOK(p, req[p])'
  <2>1. CASE req[p].kind = "ban"
    BY <1>1, <2>1, BanStops
  <2>2. CASE req[p].kind # "ban"
    <3>1. req'[p].kind # "ban"
      BY <1>3, <2>2 DEF Sets, Idle
    <3> QED BY <3>1 DEF BanOK
  <2> QED BY <2>1, <2>2
<1> QED BY <1>1, <1>2, <1>3, <1>4, BansKept DEF Sets, Gone

LEMMA BansBegin ==
  ASSUME TInv, NEW p \in Procs, NEW kind, NEW todo, NEW r \in ReqType, Begin(p, kind, todo, r),
         kind = "ban" => todo = Ban /\ Held(r.user)'
  PROVE  BanOK(p, req[p])' /\ \A q \in Procs \ {p} : req'[q] = req[q]
<1>1. req \in [Procs -> ReqType]
  BY DEF TInv, RequestsOK
<1>2. PICK s : s = [r EXCEPT !.kind = kind, !.todo = todo]
  OBVIOUS
<1>3. s.kind = kind /\ s.todo = todo /\ s.user = r.user
  BY <1>2 DEF ReqType
<1>4. req' = [req EXCEPT ![p] = s]
  BY <1>2 DEF Begin
<1>5. req'[p] = s
  BY <1>1, <1>4
<1>6. kind = "ban" => s.todo = Ban /\ Held(s.user)'
  BY <1>3
<1>7. BanOK(p, s)'
  BY <1>3, <1>6 DEF BanOK
<1> QED BY <1>1, <1>4, <1>5, <1>7

\* A request begins; when it is a ban, with all the calls of one.
Starts(p) ==
  \E kind, todo : \E r \in ReqType :
    Begin(p, kind, todo, r) /\ (kind = "ban" => todo = Ban /\ Held(r.user))

LEMMA StartsIf ==
  ASSUME NEW p \in Procs, NEW kind, NEW todo, NEW r \in ReqType, Begin(p, kind, todo, r),
         kind # "ban" \/ (todo = Ban /\ Held(r.user))
  PROVE  Starts(p)
BY DEF Starts

LEMMA StartsAbout ==
  ASSUME NEW p \in Procs, NEW u \in Users, RequestAbout(p, u)
  PROVE  Starts(p)
<1>1. ASSUME NEW role \in Roles \cup {None}
      PROVE  About(u, role) \in ReqType /\ About(u, role).user = u
  BY IdleNext DEF About, ReqType
<1>2. None \in Roles \cup {None} /\ "photographer" \in Roles \cup {None}
  BY DEF Roles
<1>3. ASSUME NEW kind, NEW todo, NEW role \in Roles \cup {None}, kind # "ban",
             Begin(p, kind, todo, About(u, role))
      PROVE  Starts(p)
  BY <1>1, <1>3, StartsIf
<1>4. CASE Begin(p, "find", FindOne, About(u, None))
  <2>1. "find" # "ban"
    OBVIOUS
  <2> QED BY <1>2, <1>3, <1>4, <2>1
<1>5. CASE Begin(p, "list", FindOne, About(u, None))
  <2>1. "list" # "ban"
    OBVIOUS
  <2> QED BY <1>2, <1>3, <1>5, <2>1
<1>6. CASE Begin(p, "ban", Ban, About(u, None)) /\ HasAccount(u)
  <2>1. Held(About(u, None).user)
    BY <1>1, <1>2, <1>6 DEF Held
  <2> QED BY <1>1, <1>2, <1>6, <2>1, StartsIf
<1>7. CASE Begin(p, "unban", Unban, About(u, None))
  <2>1. "unban" # "ban"
    OBVIOUS
  <2> QED BY <1>2, <1>3, <1>7, <2>1
<1>8. CASE Begin(p, "upgrade", DropRoles \o AddRole, About(u, "photographer"))
  <2>1. "upgrade" # "ban"
    OBVIOUS
  <2> QED BY <1>2, <1>3, <1>8, <2>1
<1>9. CASE Begin(p, "expire", <<"removeRole">> \o Clear, About(u, "photographer"))
  <2>1. "expire" # "ban"
    OBVIOUS
  <2> QED BY <1>2, <1>3, <1>9, <2>1
<1>10. ASSUME NEW m \in Mails \cup {None}, NEW r \in Roles \cup {None}, NEW a \in BOOLEAN \cup {None},
              Begin(p, "update", Update(m, r), [About(u, r) EXCEPT !.mail = m, !.active = a])
       PROVE  Starts(p)
  <2>1. PICK o : o = About(u, r) /\ o \in ReqType
    BY <1>1
  <2>2. PICK s : s = [o EXCEPT !.mail = m, !.active = a]
    OBVIOUS
  <2>3. s \in ReqType
    BY <2>1, <2>2 DEF ReqType
  <2>4. "update" # "ban"
    OBVIOUS
  <2>5. Begin(p, "update", Update(m, r), s)
    BY <1>10, <2>1, <2>2
  <2> QED BY <2>3, <2>4, <2>5, StartsIf
<1> QED BY <1>4, <1>5, <1>6, <1>7, <1>8, <1>9, <1>10 DEF RequestAbout

LEMMA RequestStarts ==
  ASSUME TInv, NEW p \in Procs, Request(p)
  PROVE  Starts(p)
<1>1. Idle \in ReqType
  BY IdleNext
<1>2. ASSUME NEW u \in setting.users, RequestAbout(p, u)
      PROVE  Starts(p)
  <2>1. u \in Users
    BY AccountsAssumption DEF TInv, Stored, TablesOK
  <2> QED BY <1>2, <2>1, StartsAbout
<1>3. ASSUME NEW n \in Names \ Mails, NEW m \in Mails, NEW r \in Roles,
             Begin(p, "create", Create, [Idle EXCEPT !.name = n, !.mail = m, !.role = r])
      PROVE  Starts(p)
  <2>1. PICK s : s = [Idle EXCEPT !.name = n, !.mail = m, !.role = r]
    OBVIOUS
  <2>2. s \in ReqType
    BY <1>1, <2>1 DEF ReqType
  <2>3. Begin(p, "create", Create, s) /\ "create" # "ban"
    BY <1>3, <2>1
  <2> QED BY <2>2, <2>3, StartsIf
<1>4. ASSUME NEW r \in Roles, Begin(p, "listRole", <<"findRole">>, About(None, r))
      PROVE  Starts(p)
  <2>1. About(None, r) \in ReqType
    BY <1>1 DEF About, ReqType
  <2>2. "listRole" # "ban"
    OBVIOUS
  <2> QED BY <1>4, <2>1, <2>2, StartsIf
<1>5. CASE Begin(p, "sync", <<"countUsers">>, Idle)
  <2>1. "sync" # "ban"
    OBVIOUS
  <2> QED BY <1>1, <1>5, <2>1, StartsIf
<1> QED BY <1>2, <1>3, <1>4, <1>5 DEF Request

LEMMA BansRequest ==
  ASSUME TInv, TInv', BansOK, NEW p \in Procs, Request(p)
  PROVE  BansOK'
<1>1. UNCHANGED identityVars /\ UNCHANGED <<leaving, out>>
  BY DEF Request, history
<1>2. Calm
  BY <1>1, SteadyIf, SteadyCalm DEF BansOK, TInv, Stored, TablesOK
<1>3. PICK kind, todo :
        \E r \in ReqType : Begin(p, kind, todo, r) /\ (kind = "ban" => todo = Ban /\ Held(r.user))
  BY RequestStarts DEF Starts
<1>4. PICK r \in ReqType :
        Begin(p, kind, todo, r) /\ (kind = "ban" => todo = Ban /\ Held(r.user))
  BY <1>3
<1>5. kind = "ban" => todo = Ban /\ Held(r.user)'
  BY <1>2, <1>4 DEF Calm, Held
<1>6. BanOK(p, req[p])' /\ \A q \in Procs \ {p} : req'[q] = req[q]
  BY <1>4, <1>5, BansBegin
<1> QED BY <1>1, <1>2, <1>6, BansKept DEF Gone

\* What users do: an account that is not active signs in to nothing, and without a session
\* there are no new refresh tokens.
LEMMA BansUser ==
  ASSUME TInv, TInv', BansOK, NEW u \in Users,
         \/ Register(u) \/ SignIn(u) \/ SignOut(u) \/ Authorize(u) \/ Refresh(u)
         \/ AccessExpires(u) \/ Visit(u) \/ ExpireUser(u) \/ ExpireRoles(u)
  PROVE  BansOK'
<1>1. UNCHANGED <<req, leaving, out>>
  BY DEF Register, SignIn, SignOut, Authorize, Refresh, AccessExpires, Visit, ExpireUser, ExpireRoles,
     history
<1>2. sessions \in [Users -> SUBSET Sessions] /\ tokens \in [Users -> SUBSET Sessions]
  BY DEF TInv, Stored, TablesOK
<1>3. Steady
  <2>1. CASE Refresh(u) \/ AccessExpires(u) \/ Visit(u) \/ ExpireUser(u) \/ ExpireRoles(u)
    <3>1. UNCHANGED account /\ UNCHANGED sessions /\ UNCHANGED tokens
      BY <2>1 DEF Refresh, AccessExpires, Visit, ExpireUser, ExpireRoles, identityVars
    <3> QED BY <3>1 DEF Steady, HasAccount
  <2>2. CASE Register(u)
    <3>1. PICK n, m : account' = [account EXCEPT ![u] =
                        [name |-> n, mail |-> m, active |-> TRUE, roles |-> {}]]
      BY <2>2 DEF Register
    <3> QED BY <2>2, <3>1, SteadyNew DEF Register
  <2>3. CASE SignIn(u)
    <3>1. account[u].active /\ UNCHANGED <<account, tokens>>
      BY <2>3 DEF SignIn
    <3>2. \A v \in Users \ {u} : sessions'[v] = sessions[v]
      BY <1>2, <2>3 DEF SignIn
    <3> QED BY <3>1, <3>2 DEF Steady, HasAccount
  <2>4. CASE SignOut(u)
    <3>1. PICK i : sessions' = [sessions EXCEPT ![u] = @ \ {i}]
      BY <2>4 DEF SignOut
    <3> QED BY <2>4, <3>1, SteadyEnds DEF SignOut
  <2>5. CASE Authorize(u)
    <3>1. sessions[u] # {} /\ UNCHANGED <<account, sessions>>
      BY <2>5 DEF Authorize
    <3>2. \A v \in Users \ {u} : tokens'[v] = tokens[v]
      BY <1>2, <2>5 DEF Authorize
    <3> QED BY <3>1, <3>2 DEF Steady, HasAccount
  <2> QED BY <2>1, <2>2, <2>3, <2>4, <2>5
<1> QED BY <1>1, <1>3, BansUntouched

LEMMA BansStep ==
  ASSUME TInv, TInv', BansOK, [Next]_vars
  PROVE  BansOK'
<1>1. CASE UNCHANGED vars
  <2>1. Steady /\ UNCHANGED <<req, leaving, out>>
    BY <1>1, SteadyIf DEF vars, history
  <2> QED BY <2>1, BansUntouched
<1>2. ASSUME NEW r \in Lists, ExpireList(r) PROVE BansOK'
  <2>1. Steady /\ UNCHANGED <<req, leaving, out>>
    BY <1>2, SteadyIf DEF ExpireList, history
  <2> QED BY <2>1, BansUntouched
<1> QED BY <1>1, <1>2, BansRequest, BansWork, BansFail, BansUser DEF Next

LEMMA BansInit == Init => BansOK
<1> SUFFICES ASSUME Init PROVE BansOK
  OBVIOUS
<1>1. \A p \in Procs : BanOK(p, req[p])
  BY DEF Init, Idle, BanOK
<1> QED BY <1>1 DEF Init, BansOK, GoneOK, OutOK, Gone

\* A user whose ban is complete, and who was not activated since, has neither a session nor
\* a refresh token, however the calls of disableUserAndClearSession interleave with its
\* sign-ins, with other requests and with their failures.
THEOREM BannedStayOut == Spec => []BannedIsOut
<1>1. Init => BansOK
  BY BansInit
<1>2. TInv /\ TInv' /\ BansOK /\ [Next]_vars => BansOK'
  BY BansStep
<1>3. TypeOK /\ BansOK => BannedIsOut
  BY DEF BannedIsOut, BansOK, OutOK
<1> QED BY <1>1, <1>2, <1>3, AccountsStored, AccountsTypeCorrect, PTL DEF Spec

-----------------------------------------------------------------------------
(***************************************************************************)
(* One role, with one request at a time.                                   *)
(***************************************************************************)

\* The calls that change the roles of an account, and those after which it has none.
Changing == {"add", "loadRoles", "drop", "removeRole"}
Founders == {"insert", "loadRoles", "drop"}
BanOnly == {"listSessions", "listTokens", "endSession", "revoke"}

\* From here on nothing but drops comes before the cached roles are cleared.
Clears(t, i) ==
  \E k \in i..Len(t) : t[k] = "clearRoles" /\ \A j \in i..(k - 1) : t[j] \in {"drop", "clearLists"}

\* How the calls of a request follow each other: a change of roles is soon followed by a clearing
\* of the cache; a role is added once; roles are removed, stored and looked at right after they
\* are read; and a request that ends sessions changes no roles.
ShapedAt(t, i) ==
  /\ t[i] \in Changing => Clears(t, i + 1)
  /\ t[i] = "add" => \A j \in 1..Len(t) : t[j] = "add" => j = i
  /\ t[i] = "drop" => \A j \in 1..i : t[j] = "drop"
  /\ t[i] = "setRoles" => i = 1
  /\ t[i] = "repair" => i = 1 \/ t[i - 1] \in {"getRoles", "setRoles"}
  /\ t[i] \in BanOnly => \A j \in 1..Len(t) : t[j] \in BanCalls
Shaped(t) == \A i \in 1..Len(t) : ShapedAt(t, i)

\* A role is added to an account that has none, or will have none by then.
Bare(u) == u \in Users /\ account[u].roles = {}
Ready(r) == \A i \in 1..Len(r.todo) : r.todo[i] = "add" => Bare(r.user) \/ After(r.todo, i, Founders)

\* What a request knows of the roles is true when it uses it.
Known(r) ==
  r.todo # <<>> /\ Head(r.todo) \in {"drop", "setRoles", "repair"} => r.roles = account[r.user].roles

CacheTrue == \A u \in Users : roleCache[u] \in {None, account[u].roles}
AtMostOne == \A u \in Users : \A x, y \in account[u].roles : x = y

Sound(r) ==
  /\ Shaped(r.todo) /\ Ready(r) /\ Known(r)
  /\ AtMostOne
  /\ CacheTrue \/ Clears(r.todo, 1)

Alone == \A p \in Procs : req[p] = Idle \/ p \in setting.procs
RolesOK == Alone /\ (Serial => \A p \in setting.procs : Sound(req[p]))

-----------------------------------------------------------------------------
(* The calls of each request *)

\* A sequence of calls that stays as it should be when it is put before or after another: and the
\* place of the call that adds a role.
PartAt(t, i) ==
  /\ t[i] \in Changing => Clears(t, i + 1)
  /\ t[i] \notin {"drop", "setRoles"} \cup BanOnly
  /\ t[i] = "repair" => i > 1 /\ t[i - 1] \in {"getRoles", "setRoles"}
Part(t) == t \in Seq(Calls) /\ \A i \in 1..Len(t) : PartAt(t, i)
NoAdd(t) == t \in Seq(Calls) /\ \A i \in 1..Len(t) : t[i] # "add"
OneAdd(t) ==
  /\ t \in Seq(Calls)
  /\ \A i \in 1..Len(t) : t[i] = "add" =>
       After(t, i, Founders) /\ \A j \in 1..Len(t) : t[j] = "add" => j = i

LEMMA ShapedIf == ASSUME NEW t, Part(t), NoAdd(t) \/ OneAdd(t) PROVE Shaped(t)
<1> SUFFICES ASSUME NEW i \in 1..Len(t) PROVE ShapedAt(t, i)
  BY DEF Shaped
<1>1. PartAt(t, i)
  BY DEF Part
<1>2. t[i] = "add" => \A j \in 1..Len(t) : t[j] = "add" => j = i
  BY DEF NoAdd, OneAdd
<1> QED BY <1>1, <1>2 DEF PartAt, ShapedAt

LEMMA OneIfNone == ASSUME NEW t, NoAdd(t) PROVE OneAdd(t)
BY DEF NoAdd, OneAdd

Silent == Calls \ (Changing \cup {"setRoles", "repair"} \cup BanOnly)

LEMMA BanShaped ==
  ASSUME NEW t \in Seq(BanCalls)
  PROVE  t \in Seq(Calls) /\ Shaped(t) /\ NoAdd(t)
<1>1. \A i \in 1..Len(t) : t[i] \in BanCalls
  OBVIOUS
<1>2. t \in Seq(Calls)
  BY DEF BanCalls, ClearCalls, Calls
<1>3. \A i \in 1..Len(t) : t[i] \notin Changing \cup {"setRoles", "repair"}
  BY <1>1 DEF BanCalls, ClearCalls, Changing
<1>4. NoAdd(t)
  BY <1>2, <1>3 DEF NoAdd, Changing
<1>5. Shaped(t)
  BY <1>1, <1>3 DEF Shaped, ShapedAt, Changing
<1> QED BY <1>2, <1>4, <1>5

LEMMA SilentPart ==
  ASSUME NEW t \in Seq(Silent)
  PROVE  Part(t) /\ NoAdd(t)
<1>1. \A i \in 1..Len(t) : t[i] \in Silent
  OBVIOUS
<1>2. t \in Seq(Calls)
  BY DEF Silent
<1>3. Part(t)
  BY <1>1, <1>2 DEF Part, PartAt, Silent, Changing
<1>4. NoAdd(t)
  BY <1>1, <1>2 DEF NoAdd, Silent, Changing
<1> QED BY <1>3, <1>4

LEMMA ClearsShift ==
  ASSUME NEW s \in Seq(Calls), NEW t \in Seq(Calls), NEW i \in 1..(Len(t) + 1), Clears(t, i)
  PROVE  Clears(s \o t, Len(s) + i)
<1>0. Len(s) \in Nat /\ Len(t) \in Nat
  OBVIOUS
<1>1. PICK k \in i..Len(t) : t[k] = "clearRoles" /\ \A j \in i..(k - 1) : t[j] \in {"drop", "clearLists"}
  BY DEF Clears
<1>2. PICK w : w = s \o t
  OBVIOUS
<1>3. Len(w) = Len(s) + Len(t) /\ \A j \in 1..Len(t) : w[Len(s) + j] = t[j]
  BY <1>2, Joined
<1>4. Len(s) + k \in (Len(s) + i)..Len(w) /\ w[Len(s) + k] = "clearRoles"
  BY <1>0, <1>1, <1>3
<1>5. ASSUME NEW m \in (Len(s) + i)..(Len(s) + k - 1) PROVE w[m] \in {"drop", "clearLists"}
  <2>1. m - Len(s) \in i..(k - 1) /\ m - Len(s) \in 1..Len(t) /\ Len(s) + (m - Len(s)) = m
    BY <1>0, <1>1
  <2>2. PICK j \in 1..Len(t) : j \in i..(k - 1) /\ m = Len(s) + j
    BY <2>1
  <2>3. w[Len(s) + j] = t[j] /\ t[j] \in {"drop", "clearLists"}
    BY <1>1, <1>3, <2>2
  <2> QED BY <2>2, <2>3, Zenon
<1>6. PICK n : n = Len(s) + k
  OBVIOUS
<1>7. n \in (Len(s) + i)..Len(w) /\ w[n] = "clearRoles"
  BY <1>4, <1>6
<1>8. \A m \in (Len(s) + i)..(n - 1) : w[m] \in {"drop", "clearLists"}
  BY <1>5, <1>6
<1>9. Clears(w, Len(s) + i)
  BY <1>7, <1>8 DEF Clears
<1> QED BY <1>2, <1>9, Zenon

LEMMA ClearsLeft ==
  ASSUME NEW s \in Seq(Calls), NEW t \in Seq(Calls), NEW i \in 1..(Len(s) + 1), Clears(s, i)
  PROVE  Clears(s \o t, i)
<1>0. Len(s) \in Nat /\ Len(t) \in Nat
  OBVIOUS
<1>1. PICK k \in i..Len(s) : s[k] = "clearRoles" /\ \A j \in i..(k - 1) : s[j] \in {"drop", "clearLists"}
  BY DEF Clears
<1>2. PICK w : w = s \o t
  OBVIOUS
<1>3. Len(w) = Len(s) + Len(t) /\ \A j \in 1..Len(s) : w[j] = s[j]
  BY <1>2, Joined
<1>4. k \in i..Len(w) /\ k \in 1..Len(s) /\ \A j \in i..(k - 1) : j \in 1..Len(s)
  BY <1>0, <1>1, <1>3
<1> QED BY <1>1, <1>2, <1>3, <1>4 DEF Clears

LEMMA PartJoined == ASSUME NEW s, NEW t, Part(s), Part(t) PROVE Part(s \o t)
<1>0. s \in Seq(Calls) /\ t \in Seq(Calls) /\ Len(s) \in Nat /\ Len(t) \in Nat
  BY DEF Part
<1>1. PICK w : w = s \o t
  OBVIOUS
<1>2. /\ w \in Seq(Calls) /\ Len(w) = Len(s) + Len(t)
      /\ \A i \in 1..Len(s) : w[i] = s[i]
      /\ \A i \in 1..Len(t) : w[Len(s) + i] = t[i]
  BY <1>0, <1>1, Joined
<1>3. ASSUME NEW i \in 1..Len(s) PROVE PartAt(w, i)
  <2>1. w[i] = s[i] /\ PartAt(s, i)
    BY <1>2 DEF Part
  <2>2. i > 1 => i - 1 \in 1..Len(s)
    BY <1>0
  <2>3. i > 1 => w[i - 1] = s[i - 1]
    BY <1>2, <2>2
  <2>4. Clears(s, i + 1) => Clears(w, i + 1)
    <3>1. i + 1 \in 1..(Len(s) + 1)
      BY <1>0
    <3> QED BY <1>0, <1>1, <3>1, ClearsLeft
  <2> QED BY <2>1, <2>3, <2>4 DEF PartAt
<1>4. ASSUME NEW i \in 1..Len(t) PROVE PartAt(w, Len(s) + i)
  <2>1. w[Len(s) + i] = t[i] /\ PartAt(t, i)
    BY <1>2 DEF Part
  <2>2. i > 1 => i - 1 \in 1..Len(t) /\ Len(s) + (i - 1) = Len(s) + i - 1 /\ Len(s) + i > 1
    BY <1>0
  <2>3. i > 1 => w[Len(s) + i - 1] = t[i - 1]
    BY <1>2, <2>2
  <2>4. Clears(t, i + 1) => Clears(w, Len(s) + i + 1)
    <3>1. i + 1 \in 1..(Len(t) + 1) /\ Len(s) + (i + 1) = Len(s) + i + 1
      BY <1>0
    <3> QED BY <1>0, <1>1, <3>1, ClearsShift
  <2> QED BY <2>1, <2>2, <2>3, <2>4 DEF PartAt
<1>5. ASSUME NEW i \in 1..Len(w) PROVE i \in 1..Len(s) \/ \E k \in 1..Len(t) : i = Len(s) + k
  <2>1. i \in 1..Len(s) \/ (i - Len(s) \in 1..Len(t) /\ i = Len(s) + (i - Len(s)))
    BY <1>0, <1>2
  <2> QED BY <2>1
<1>6. \A i \in 1..Len(w) : PartAt(w, i)
  BY <1>3, <1>4, <1>5
<1> QED BY <1>1, <1>2, <1>6 DEF Part

LEMMA AddJoined ==
  ASSUME NEW s, NEW t, (OneAdd(s) /\ NoAdd(t)) \/ (NoAdd(s) /\ OneAdd(t))
  PROVE  OneAdd(s \o t)
<1>0. s \in Seq(Calls) /\ t \in Seq(Calls) /\ Len(s) \in Nat /\ Len(t) \in Nat
  BY DEF OneAdd, NoAdd
<1>1. PICK w : w = s \o t
  OBVIOUS
<1>2. /\ w \in Seq(Calls) /\ Len(w) = Len(s) + Len(t)
      /\ \A i \in 1..Len(s) : w[i] = s[i]
      /\ \A i \in 1..Len(t) : w[Len(s) + i] = t[i]
  BY <1>0, <1>1, Joined
<1>3. ASSUME NEW i \in 1..Len(w)
      PROVE  i \in 1..Len(s) \/ (i - Len(s) \in 1..Len(t) /\ w[i] = t[i - Len(s)])
  <2>1. i \in 1..Len(s) \/ (i - Len(s) \in 1..Len(t) /\ i = Len(s) + (i - Len(s)))
    BY <1>0, <1>2
  <2> QED BY <1>2, <2>1
<1>4. CASE OneAdd(s) /\ NoAdd(t)
  <2>1. ASSUME NEW i \in 1..Len(w), w[i] = "add" PROVE i \in 1..Len(s) /\ s[i] = "add"
    BY <1>2, <1>3, <1>4, <2>1 DEF NoAdd
  <2>2. ASSUME NEW i \in 1..Len(w), w[i] = "add" PROVE After(w, i, Founders)
    <3>1. i \in 1..Len(s) /\ s[i] = "add"
      BY <2>1, <2>2
    <3>2. PICK j \in 1..(i - 1) : s[j] \in Founders
      BY <1>4, <3>1 DEF OneAdd, After
    <3>3. w[j] = s[j]
      BY <1>0, <1>2, <3>1
    <3> QED BY <3>2, <3>3 DEF After
  <2>3. \A i, j \in 1..Len(w) : w[i] = "add" /\ w[j] = "add" => j = i
    BY <1>4, <2>1 DEF OneAdd
  <2> QED BY <1>1, <1>2, <2>2, <2>3 DEF OneAdd
<1>5. CASE NoAdd(s) /\ OneAdd(t)
  <2>1. ASSUME NEW i \in 1..Len(w), w[i] = "add" PROVE i - Len(s) \in 1..Len(t) /\ t[i - Len(s)] = "add"
    BY <1>2, <1>3, <1>5, <2>1 DEF NoAdd
  <2>2. ASSUME NEW i \in 1..Len(w), w[i] = "add" PROVE After(w, i, Founders)
    <3>1. PICK m \in 1..Len(t) : m = i - Len(s) /\ t[m] = "add"
      BY <2>1, <2>2
    <3>2. PICK j \in 1..(m - 1) : t[j] \in Founders
      BY <1>5, <3>1 DEF OneAdd, After
    <3>3. w[Len(s) + j] = t[j] /\ Len(s) + j \in 1..(i - 1)
      BY <1>0, <1>2, <3>1
    <3> QED BY <3>2, <3>3 DEF After
  <2>3. ASSUME NEW i \in 1..Len(w), NEW j \in 1..Len(w), w[i] = "add", w[j] = "add" PROVE j = i
    <3>1. j - Len(s) = i - Len(s)
      BY <1>5, <2>1, <2>3 DEF OneAdd
    <3> QED BY <1>0, <3>1
  <2> QED BY <1>1, <1>2, <2>2, <2>3 DEF OneAdd
<1> QED BY <1>4, <1>5

\* One call, and the cache is cleared.
LEMMA WithClear ==
  ASSUME NEW c \in Calls
  PROVE  /\ <<c>> \o Clear \in Seq(Calls) /\ Len(<<c>> \o Clear) = 4
         /\ (<<c>> \o Clear)[1] = c
         /\ (<<c>> \o Clear)[2] = "clearLists"
         /\ (<<c>> \o Clear)[3] = "clearRoles"
         /\ (<<c>> \o Clear)[4] = "clearUsers"
<1>1. PICK s, t : s = <<c>> /\ t = Clear
  OBVIOUS
<1>2. s \in Seq(Calls) /\ Len(s) = 1 /\ s[1] = c
  BY <1>1
<1>3. /\ t \in Seq(Calls) /\ Len(t) = 3 /\ t[1] = "clearLists" /\ t[2] = "clearRoles"
      /\ t[3] = "clearUsers"
  BY <1>1 DEF Clear, Calls
<1>4. PICK w : w = s \o t
  OBVIOUS
<1>5. /\ w \in Seq(Calls) /\ Len(w) = Len(s) + Len(t)
      /\ \A i \in 1..Len(s) : w[i] = s[i]
      /\ \A i \in 1..Len(t) : w[Len(s) + i] = t[i]
  <2>1. s \in Seq(Calls) /\ t \in Seq(Calls)
    BY <1>2, <1>3
  <2> QED BY <1>4, <2>1, Joined
<1>6. Len(w) = 4 /\ w[1] = c /\ w[1 + 1] = "clearLists" /\ w[1 + 2] = "clearRoles" /\ w[1 + 3] = "clearUsers"
  BY <1>2, <1>3, <1>5
<1> QED BY <1>1, <1>4, <1>5, <1>6

LEMMA WithClearPart ==
  ASSUME NEW c \in Calls, c \notin {"drop", "setRoles", "repair"} \cup BanOnly
  PROVE  Part(<<c>> \o Clear) /\ (c # "add" => NoAdd(<<c>> \o Clear))
<1>1. PICK w : w = <<c>> \o Clear
  OBVIOUS
<1>2. /\ w \in Seq(Calls) /\ Len(w) = 4 /\ w[1] = c /\ w[2] = "clearLists" /\ w[3] = "clearRoles"
      /\ w[4] = "clearUsers"
  BY <1>1, WithClear
<1>3. Clears(w, 2)
  <2>1. 3 \in 2..Len(w) /\ \A j \in 2..(3 - 1) : j = 2
    BY <1>2
  <2> QED BY <1>2, <2>1 DEF Clears
<1>4. PartAt(w, 1)
  BY <1>2, <1>3 DEF PartAt
<1>5. ASSUME NEW i \in 2..4 PROVE PartAt(w, i)
  <2>1. w[i] \in {"clearLists", "clearRoles", "clearUsers"}
    BY <1>2
  <2> QED BY <2>1 DEF PartAt, Changing, BanOnly
<1>6. \A i \in 1..Len(w) : i = 1 \/ i \in 2..4
  BY <1>2
<1>7. Part(w)
  BY <1>2, <1>4, <1>5, <1>6 DEF Part
<1>8. c # "add" => NoAdd(w)
  <2>1. \A i \in 2..4 : w[i] # "add"
    BY <1>2
  <2> QED BY <1>2, <1>6, <2>1 DEF NoAdd
<1> QED BY <1>1, <1>7, <1>8

LEMMA AddRolePart == Part(AddRole)
BY WithClearPart DEF AddRole, Calls, BanOnly

\* A role is added after a founder.
LEMMA AddFounded ==
  ASSUME NEW s, NoAdd(s), NEW k \in 1..Len(s), s[k] \in Founders
  PROVE  OneAdd(s \o AddRole)
<1>1. PICK t : t = AddRole
  OBVIOUS
<1>2. /\ t \in Seq(Calls) /\ Len(t) = 4 /\ t[2] = "clearLists" /\ t[3] = "clearRoles"
      /\ t[4] = "clearUsers"
  BY <1>1, WithClear DEF AddRole, Calls
<1>3. \A i \in 1..Len(t) : t[i] = "add" => i = 1
  <2>1. \A i \in 1..Len(t) : i \in {1, 2, 3, 4}
    BY <1>2
  <2> QED BY <1>2, <2>1
<1>4. s \in Seq(Calls) /\ Len(s) \in Nat /\ \A i \in 1..Len(s) : s[i] # "add"
  BY DEF NoAdd
<1>5. PICK w : w = s \o t
  OBVIOUS
<1>6. /\ w \in Seq(Calls) /\ Len(w) = Len(s) + Len(t)
      /\ \A i \in 1..Len(s) : w[i] = s[i]
      /\ \A i \in 1..Len(t) : w[Len(s) + i] = t[i]
  <2>1. s \in Seq(Calls) /\ t \in Seq(Calls)
    BY <1>2, <1>4
  <2> QED BY <1>5, <2>1, Joined
<1>7. ASSUME NEW i \in 1..Len(w), w[i] = "add" PROVE i = Len(s) + 1
  <2>0. Len(w) = Len(s) + Len(t) /\ Len(s) \in Nat /\ Len(t) \in Nat
    BY <1>2, <1>4, <1>6
  <2>1. i \in 1..Len(s) \/ (i - Len(s) \in 1..Len(t) /\ i = Len(s) + (i - Len(s)))
    BY <2>0
  <2>2. i \notin 1..Len(s)
    BY <1>4, <1>6, <1>7
  <2>3. t[i - Len(s)] = "add"
    BY <1>6, <1>7, <2>1, <2>2
  <2>4. i - Len(s) = 1
    BY <1>3, <2>1, <2>2, <2>3
  <2> QED BY <1>4, <2>4
<1>8. k \in 1..(Len(s) + 1 - 1) /\ w[k] \in Founders
  BY <1>4, <1>6
<1>9. \A i \in 1..Len(w) : w[i] = "add" => After(w, i, Founders)
  BY <1>7, <1>8 DEF After
<1>10. \A i, j \in 1..Len(w) : w[i] = "add" /\ w[j] = "add" => j = i
  BY <1>7
<1> QED BY <1>1, <1>5, <1>6, <1>9, <1>10 DEF OneAdd


\* Sequences in which no role is added, or one after a founder.
Quiet(t) == Part(t) /\ NoAdd(t)
Giving(t) == Part(t) /\ OneAdd(t)
Fits(t) == Giving(t) \/ t \in Seq(BanCalls)

LEMMA QuietJoined == ASSUME NEW s, NEW t, Quiet(s), Quiet(t) PROVE Quiet(s \o t)
<1>1. s \in Seq(Calls) /\ t \in Seq(Calls)
  BY DEF Quiet, Part
<1>2. PICK w : w = s \o t
  OBVIOUS
<1>3. w \in Seq(Calls) /\ \A i \in 1..Len(w) :
        (\E k \in 1..Len(s) : w[i] = s[k]) \/ (\E k \in 1..Len(t) : w[i] = t[k])
  <2>1. ASSUME NEW i \in 1..Len(s \o t)
        PROVE  (\E k \in 1..Len(s) : (s \o t)[i] = s[k]) \/ (\E k \in 1..Len(t) : (s \o t)[i] = t[k])
    BY <1>1, JoinedAt
  <2>2. s \o t \in Seq(Calls)
    BY <1>1, Joined
  <2> QED BY <1>2, <2>1, <2>2
<1>4. NoAdd(w)
  BY <1>3 DEF NoAdd, Quiet
<1>5. Part(w)
  BY <1>2, PartJoined DEF Quiet
<1> QED BY <1>2, <1>4, <1>5 DEF Quiet

LEMMA GivingJoined ==
  ASSUME NEW s, NEW t, (Giving(s) /\ Quiet(t)) \/ (Quiet(s) /\ Giving(t))
  PROVE  Giving(s \o t)
<1>1. Part(s) /\ Part(t) /\ ((OneAdd(s) /\ NoAdd(t)) \/ (NoAdd(s) /\ OneAdd(t)))
  BY DEF Giving, Quiet
<1>2. Part(s \o t)
  BY <1>1, PartJoined
<1>3. OneAdd(s \o t)
  BY <1>1, AddJoined
<1> QED BY <1>2, <1>3 DEF Giving

LEMMA QuietGives == ASSUME NEW t, Quiet(t) PROVE Giving(t)
BY OneIfNone DEF Quiet, Giving

LEMMA GivesRole ==
  ASSUME NEW s, Quiet(s), NEW k \in 1..Len(s), s[k] \in Founders
  PROVE  Giving(s \o AddRole)
<1>1. Part(s \o AddRole)
  BY PartJoined, AddRolePart DEF Quiet
<1>2. OneAdd(s \o AddRole)
  BY AddFounded DEF Quiet
<1> QED BY <1>1, <1>2 DEF Giving

LEMMA SilentIs ==
  {"clearLists", "clearRoles", "clearUsers", "findName", "insert", "checkMail", "insertRow",
   "patch", "updateRow", "findFirst", "getRoles", "nextRow", "activate", "findRole",
   "countUsers"} \subseteq Silent
BY DEF Silent, BanOnly, Calls, Changing

LEMMA QuietSilent == ASSUME NEW t \in Seq(Silent) PROVE Quiet(t)
BY SilentPart DEF Quiet

LEMMA ClearQuiet == Quiet(Clear)
<1>1. Clear \in Seq(Silent)
  BY SilentIs DEF Clear
<1> QED BY <1>1, QuietSilent

LEMMA FindOneQuiet == Quiet(FindOne)
<1>1. PICK w : w = FindOne
  OBVIOUS
<1>2. /\ w \in Seq(Calls) /\ Len(w) = 3 /\ w[1] = "findFirst" /\ w[2] = "getRoles"
      /\ w[3] = "repair"
  BY <1>1 DEF FindOne, Calls
<1>3. \A i \in 1..Len(w) : i \in {1, 2, 3}
  BY <1>2
<1>4. NoAdd(w)
  BY <1>2, <1>3 DEF NoAdd
<1>5. PartAt(w, 1) /\ PartAt(w, 2)
  BY <1>2 DEF PartAt, Changing, BanOnly
<1>6. PartAt(w, 3)
  <2>1. 3 > 1 /\ w[3 - 1] = "getRoles"
    BY <1>2
  <2> QED BY <1>2, <2>1 DEF PartAt, Changing, BanOnly
<1> QED BY <1>1, <1>2, <1>3, <1>4, <1>5, <1>6 DEF Quiet, Part

LEMMA UpsertGiving == Giving(Upsert) /\ Giving(Upsert \o <<"nextRow">>)
<1>1. PICK s : s = <<"findName", "insert">>
  OBVIOUS
<1>2. s \in Seq(Silent) /\ 2 \in 1..Len(s) /\ s[2] = "insert"
  BY <1>1, SilentIs
<1>3. Quiet(s)
  BY <1>2, QuietSilent
<1>4. s[2] \in Founders
  BY <1>2 DEF Founders
<1>5. Giving(s \o AddRole)
  BY <1>2, <1>3, <1>4, GivesRole
<1>6. Giving(s \o AddRole \o Clear)
  BY <1>5, ClearQuiet, GivingJoined
<1>7. Giving(Upsert)
  BY <1>1, <1>6 DEF Upsert
<1>8. <<"nextRow">> \in Seq(Silent)
  BY SilentIs
<1>9. Quiet(<<"nextRow">>)
  BY <1>8, QuietSilent
<1> QED BY <1>7, <1>9, GivingJoined

LEMMA CreateGiving == Giving(Create)
<1>1. PICK s : s = <<"checkMail", "insert">>
  OBVIOUS
<1>2. s \in Seq(Silent) /\ 2 \in 1..Len(s) /\ s[2] = "insert"
  BY <1>1, SilentIs
<1>3. Quiet(s)
  BY <1>2, QuietSilent
<1>4. s[2] \in Founders
  BY <1>2 DEF Founders
<1>5. Giving(s \o AddRole)
  BY <1>2, <1>3, <1>4, GivesRole
<1>6. Giving(s \o AddRole \o Clear)
  BY <1>5, ClearQuiet, GivingJoined
<1>7. <<"insertRow">> \in Seq(Silent)
  BY SilentIs
<1>8. Quiet(<<"insertRow">>)
  BY <1>7, QuietSilent
<1>9. Giving(s \o AddRole \o Clear \o <<"insertRow">>)
  BY <1>6, <1>8, GivingJoined
<1>10. Giving(s \o AddRole \o Clear \o <<"insertRow">> \o FindOne)
  BY <1>9, FindOneQuiet, GivingJoined
<1> QED BY <1>1, <1>10 DEF Create

LEMMA UpgradeGiving == Giving(DropRoles \o AddRole)
<1>1. "loadRoles" \in Calls \ ({"add", "drop", "setRoles", "repair"} \cup BanOnly)
  BY DEF Calls, BanOnly
<1>2. PICK s : s = DropRoles
  OBVIOUS
<1>3. Quiet(s) /\ s[1] = "loadRoles" /\ Len(s) = 4
  BY <1>1, <1>2, WithClear, WithClearPart DEF DropRoles, Quiet
<1>4. 1 \in 1..Len(s) /\ s[1] \in Founders
  BY <1>3 DEF Founders
<1> QED BY <1>2, <1>3, <1>4, GivesRole

LEMMA UpdateGiving == ASSUME NEW m, NEW r PROVE Giving(Update(m, r))
<1>1. PICK a : a = IF m = None THEN <<>> ELSE <<"checkMail">>
  OBVIOUS
<1>2. PICK b : b = IF r = None THEN <<>> ELSE DropRoles \o AddRole
  OBVIOUS
<1>3. <<>> \in Seq(Silent) /\ <<"checkMail">> \in Seq(Silent) /\ <<"patch">> \in Seq(Silent)
      /\ <<"updateRow">> \in Seq(Silent)
  BY SilentIs
<1>4. Quiet(<<>>) /\ Quiet(<<"checkMail">>) /\ Quiet(<<"patch">>) /\ Quiet(<<"updateRow">>)
  BY <1>3, QuietSilent
<1>5. Quiet(a)
  BY <1>1, <1>4
<1>6. Giving(b)
  BY <1>2, <1>4, QuietGives, UpgradeGiving
<1>7. Quiet(a \o <<"patch">>)
  BY <1>4, <1>5, QuietJoined
<1>8. Giving(a \o <<"patch">> \o b)
  BY <1>6, <1>7, GivingJoined
<1>9. Giving(a \o <<"patch">> \o b \o Clear)
  BY <1>8, ClearQuiet, GivingJoined
<1>10. Giving(a \o <<"patch">> \o b \o Clear \o <<"updateRow">>)
  BY <1>4, <1>9, GivingJoined
<1>11. Giving(a \o <<"patch">> \o b \o Clear \o <<"updateRow">> \o FindOne)
  BY <1>10, FindOneQuiet, GivingJoined
<1> QED BY <1>1, <1>2, <1>11 DEF Update

LEMMA OthersGiving ==
  /\ Giving(FindOne) /\ Giving(Unban) /\ Giving(<<"removeRole">> \o Clear)
  /\ Giving(<<"findRole">>) /\ Giving(<<"countUsers">>) /\ Ban \in Seq(BanCalls)
<1>1. Giving(FindOne)
  BY FindOneQuiet, QuietGives
<1>2. "removeRole" \in Calls \ ({"add", "drop", "setRoles", "repair"} \cup BanOnly)
      /\ "activate" \in Calls \ ({"add", "drop", "setRoles", "repair"} \cup BanOnly)
  BY DEF Calls, BanOnly
<1>3. Giving(Unban) /\ Giving(<<"removeRole">> \o Clear)
  <2>1. ASSUME NEW c \in {"removeRole", "activate"} PROVE Giving(<<c>> \o Clear)
    <3>1. Quiet(<<c>> \o Clear)
      BY <1>2, WithClearPart DEF Quiet
    <3> QED BY <3>1, QuietGives
  <2> QED BY <2>1 DEF Unban
<1>4. Giving(<<"findRole">>) /\ Giving(<<"countUsers">>)
  <2>1. <<"findRole">> \in Seq(Silent) /\ <<"countUsers">> \in Seq(Silent)
    BY SilentIs
  <2> QED BY <2>1, QuietSilent, QuietGives
<1> QED BY <1>1, <1>3, <1>4, BanIs

\* Every request begins with calls that fit.
Fitting(p) == \E kind, todo : \E r \in ReqType : Begin(p, kind, todo, r) /\ Fits(todo)

LEMMA FittingIf ==
  ASSUME NEW p \in Procs, NEW kind, NEW todo, NEW r \in ReqType, Begin(p, kind, todo, r), Fits(todo)
  PROVE  Fitting(p)
BY DEF Fitting

LEMMA FittingAbout ==
  ASSUME NEW p \in Procs, NEW u \in Users, RequestAbout(p, u)
  PROVE  Fitting(p)
<1>1. About(u, None) \in ReqType /\ About(u, "photographer") \in ReqType
      /\ \A r \in Roles \cup {None} : About(u, r) \in ReqType
  BY AboutIs DEF Roles
<1>2. /\ Fits(FindOne) /\ Fits(Ban) /\ Fits(Unban) /\ Fits(DropRoles \o AddRole)
      /\ Fits(<<"removeRole">> \o Clear) /\ \A m, r : Fits(Update(m, r))
  BY OthersGiving, UpgradeGiving, UpdateGiving DEF Fits
<1>3. CASE Begin(p, "find", FindOne, About(u, None))
  BY <1>1, <1>2, <1>3, FittingIf
<1>4. CASE Begin(p, "list", FindOne, About(u, None))
  BY <1>1, <1>2, <1>4, FittingIf
<1>5. CASE Begin(p, "ban", Ban, About(u, None))
  BY <1>1, <1>2, <1>5, FittingIf
<1>6. CASE Begin(p, "unban", Unban, About(u, None))
  BY <1>1, <1>2, <1>6, FittingIf
<1>7. CASE Begin(p, "upgrade", DropRoles \o AddRole, About(u, "photographer"))
  BY <1>1, <1>2, <1>7, FittingIf
<1>8. CASE Begin(p, "expire", <<"removeRole">> \o Clear, About(u, "photographer"))
  BY <1>1, <1>2, <1>8, FittingIf
<1>9. ASSUME NEW m \in Mails \cup {None}, NEW r \in Roles \cup {None}, NEW a \in BOOLEAN \cup {None},
             Begin(p, "update", Update(m, r), [About(u, r) EXCEPT !.mail = m, !.active = a])
      PROVE  Fitting(p)
  <2>1. PICK o : o = About(u, r) /\ o \in ReqType
    BY <1>1
  <2>2. PICK s : s = [o EXCEPT !.mail = m, !.active = a]
    OBVIOUS
  <2>3. s \in ReqType
    BY <2>1, <2>2 DEF ReqType
  <2>4. Begin(p, "update", Update(m, r), s)
    BY <1>9, <2>1, <2>2
  <2> QED BY <1>2, <2>3, <2>4, FittingIf
<1> QED BY <1>3, <1>4, <1>5, <1>6, <1>7, <1>8, <1>9 DEF RequestAbout

LEMMA RequestFits ==
  ASSUME TInv, NEW p \in Procs, Request(p)
  PROVE  Fitting(p)
<1>1. Idle \in ReqType
  BY IdleNext
<1>2. ASSUME NEW u \in setting.users, RequestAbout(p, u)
      PROVE  Fitting(p)
  <2>1. u \in Users
    BY AccountsAssumption DEF TInv, Stored, TablesOK
  <2> QED BY <1>2, <2>1, FittingAbout
<1>3. ASSUME NEW n \in Names \ Mails, NEW m \in Mails, NEW r \in Roles,
             Begin(p, "create", Create, [Idle EXCEPT !.name = n, !.mail = m, !.role = r])
      PROVE  Fitting(p)
  <2>1. PICK s : s = [Idle EXCEPT !.name = n, !.mail = m, !.role = r]
    OBVIOUS
  <2>2. s \in ReqType
    BY <1>1, <2>1 DEF ReqType
  <2>3. Begin(p, "create", Create, s)
    BY <1>3, <2>1
  <2>4. Fits(Create)
    BY CreateGiving DEF Fits
  <2> QED BY <2>2, <2>3, <2>4, FittingIf
<1>4. Fits(<<"findRole">>) /\ Fits(<<"countUsers">>)
  BY OthersGiving DEF Fits
<1>5. ASSUME NEW r \in Roles, Begin(p, "listRole", <<"findRole">>, About(None, r))
      PROVE  Fitting(p)
  <2>1. About(None, r) \in ReqType
    BY <1>1 DEF About, ReqType
  <2> QED BY <1>4, <1>5, <2>1, FittingIf
<1>6. CASE Begin(p, "sync", <<"countUsers">>, Idle)
  BY <1>1, <1>4, <1>6, FittingIf
<1> QED BY <1>2, <1>3, <1>5, <1>6 DEF Request

-----------------------------------------------------------------------------
(* What a call leaves of a request *)

LEMMA ClearsRest ==
  ASSUME NEW t \in Seq(Calls), t # <<>>, NEW i \in 1..Len(t), Clears(t, i + 1)
  PROVE  Clears(Tail(t), i)
<1>0. Len(t) \in Nat \ {0}
  BY RestOf
<1>1. PICK k \in (i + 1)..Len(t) :
        t[k] = "clearRoles" /\ \A j \in (i + 1)..(k - 1) : t[j] \in {"drop", "clearLists"}
  BY DEF Clears
<1>2. PICK w : w = Tail(t)
  OBVIOUS
<1>3. Len(w) = Len(t) - 1 /\ \A j \in 1..Len(t) - 1 : w[j] = t[j + 1]
  BY <1>2, RestOf
<1>4. PICK n \in i..Len(w) : k = n + 1
  <2>1. k - 1 \in i..Len(w) /\ k = (k - 1) + 1
    BY <1>0, <1>1, <1>3
  <2> QED BY <2>1
<1>5. n \in 1..Len(t) - 1 /\ w[n] = "clearRoles"
  BY <1>0, <1>1, <1>3, <1>4
<1>6. ASSUME NEW m \in i..(n - 1) PROVE w[m] \in {"drop", "clearLists"}
  <2>1. m \in 1..Len(t) - 1 /\ m + 1 \in (i + 1)..(k - 1)
    BY <1>0, <1>3, <1>4
  <2> QED BY <1>1, <1>3, <2>1
<1>7. Clears(w, i)
  BY <1>4, <1>5, <1>6 DEF Clears
<1> QED BY <1>2, <1>7

LEMMA ClearsNext ==
  ASSUME NEW t \in Seq(Calls), t # <<>>, Clears(t, 1), Head(t) # "clearRoles"
  PROVE  Clears(Tail(t), 1) /\ Head(t) \in {"drop", "clearLists"}
<1>0. Len(t) \in Nat \ {0} /\ t[1] = Head(t)
  BY RestOf
<1>1. PICK k \in 1..Len(t) :
        t[k] = "clearRoles" /\ \A j \in 1..(k - 1) : t[j] \in {"drop", "clearLists"}
  BY DEF Clears
<1>2. k # 1
  BY <1>0, <1>1
<1>3. k \in 2..Len(t) /\ 1 \in 1..(k - 1) /\ \A j \in 2..(k - 1) : j \in 1..(k - 1)
  BY <1>0, <1>1, <1>2
<1>4. Clears(t, 2)
  BY <1>1, <1>3 DEF Clears
<1>5. 1 \in 1..Len(t) /\ Clears(t, 1 + 1)
  BY <1>0, <1>4
<1> QED BY <1>0, <1>1, <1>3, <1>5, ClearsRest

\* What is told of the calls that follow by the one that comes first.
Follows(t, h) ==
  /\ t[1] # "setRoles"
  /\ t[1] = "drop" => h = "drop"
  /\ t[1] = "repair" => h \in {"getRoles", "setRoles"}

LEMMA ShapedRest ==
  ASSUME NEW t \in Seq(Calls), t # <<>>, Shaped(t)
  PROVE  /\ Shaped(Tail(t))
         /\ Head(t) \in Changing => Clears(Tail(t), 1)
         /\ Tail(t) # <<>> => Follows(Tail(t), Head(t))
         /\ Head(t) = "add" => \A i \in 1..Len(Tail(t)) : Tail(t)[i] # "add"
         /\ Head(t) \in BanOnly => Tail(t) \in Seq(BanCalls)
<1>0. PICK n \in Nat : Len(t) = n + 1
  <2>1. Len(t) \in Nat \ {0}
    BY RestOf
  <2>2. Len(t) - 1 \in Nat /\ Len(t) = (Len(t) - 1) + 1
    BY <2>1
  <2> QED BY <2>2
<1>1. PICK w : w = Tail(t)
  OBVIOUS
<1>2. w \in Seq(Calls) /\ Len(w) = n /\ t[1] = Head(t) /\ \A j \in 1..n : w[j] = t[j + 1]
  BY <1>0, <1>1, RestOf
<1>3. \A i \in 1..n : i + 1 \in 1..Len(t) /\ i \in 1..Len(t)
  BY <1>0
<1>4. ASSUME NEW i \in 1..n PROVE ShapedAt(w, i)
  <2>1. ShapedAt(t, i + 1) /\ w[i] = t[i + 1]
    BY <1>2, <1>3 DEF Shaped
  <2>2. w[i] \in Changing => Clears(w, i + 1)
    <3>1. Clears(t, (i + 1) + 1) => Clears(w, i + 1)
      BY <1>1, <1>3, ClearsRest
    <3> QED BY <2>1, <3>1 DEF ShapedAt
  <2>3. w[i] = "add" => \A j \in 1..Len(w) : w[j] = "add" => j = i
    <3>1. ASSUME w[i] = "add", NEW j \in 1..Len(w), w[j] = "add" PROVE j = i
      <4>1. j + 1 \in 1..Len(t) /\ t[j + 1] = "add" /\ t[i + 1] = "add"
        BY <1>2, <1>3, <2>1, <3>1
      <4>2. j + 1 = i + 1
        BY <2>1, <4>1 DEF ShapedAt
      <4> QED BY <1>2, <4>2
    <3> QED BY <3>1
  <2>4. w[i] = "drop" => \A j \in 1..i : w[j] = "drop"
    <3>1. ASSUME w[i] = "drop", NEW j \in 1..i PROVE w[j] = "drop"
      <4>1. j + 1 \in 1..(i + 1) /\ j \in 1..n
        BY <1>0
      <4> QED BY <1>2, <2>1, <3>1, <4>1 DEF ShapedAt
    <3> QED BY <3>1
  <2>5. w[i] # "setRoles"
    <3>1. i + 1 # 1
      OBVIOUS
    <3> QED BY <2>1, <3>1 DEF ShapedAt
  <2>6. w[i] = "repair" => i = 1 \/ w[i - 1] \in {"getRoles", "setRoles"}
    <3>1. (i + 1) - 1 = i /\ i + 1 # 1
      OBVIOUS
    <3>2. i # 1 => i - 1 \in 1..n /\ (i - 1) + 1 = i
      OBVIOUS
    <3>3. i # 1 => w[i - 1] = t[i]
      BY <1>2, <3>2
    <3> QED BY <2>1, <3>1, <3>3 DEF ShapedAt
  <2>7. w[i] \in BanOnly => \A j \in 1..Len(w) : w[j] \in BanCalls
    BY <1>2, <1>3, <2>1 DEF ShapedAt
  <2> QED BY <2>2, <2>3, <2>4, <2>5, <2>6, <2>7 DEF ShapedAt
<1>5. Shaped(w)
  BY <1>2, <1>4 DEF Shaped
<1>6. 1 \in 1..Len(t) /\ ShapedAt(t, 1)
  BY <1>0 DEF Shaped
<1>7. Head(t) \in Changing => Clears(w, 1)
  <2>1. Clears(t, 1 + 1) => Clears(w, 1)
    BY <1>1, <1>6, ClearsRest
  <2> QED BY <1>2, <1>6, <2>1 DEF ShapedAt
<1>8. w # <<>> => Follows(w, Head(t))
  <2> SUFFICES ASSUME w # <<>> PROVE Follows(w, Head(t))
    OBVIOUS
  <2>1. 1 \in 1..n
    BY <1>2
  <2>2. w[1] = t[2] /\ 2 \in 1..Len(t) /\ ShapedAt(t, 2)
    <3>1. 1 + 1 = 2
      OBVIOUS
    <3> QED BY <1>2, <1>3, <2>1, <3>1 DEF Shaped
  <2>3. 1 \in 1..2 /\ 2 - 1 = 1 /\ 2 # 1
    OBVIOUS
  <2> QED BY <1>2, <2>2, <2>3 DEF ShapedAt, Follows
<1>9. Head(t) = "add" => \A i \in 1..Len(w) : w[i] # "add"
  <2>1. ASSUME Head(t) = "add", NEW i \in 1..Len(w), w[i] = "add" PROVE FALSE
    <3>1. i + 1 \in 1..Len(t) /\ t[i + 1] = "add"
      BY <1>2, <1>3, <2>1
    <3>2. i + 1 = 1
      BY <1>2, <1>6, <2>1, <3>1 DEF ShapedAt
    <3> QED BY <1>2, <3>2
  <2> QED BY <2>1
<1>10. Head(t) \in BanOnly => w \in Seq(BanCalls)
  <2>1. Head(t) \in BanOnly => \A i \in 1..Len(w) : w[i] \in BanCalls
    BY <1>2, <1>3, <1>6 DEF ShapedAt
  <2> QED BY <1>2, <2>1
<1> QED BY <1>1, <1>5, <1>7, <1>8, <1>9, <1>10

\* The first call, replaced by another.
Replaces(c, h) ==
  \/ c = "setFirst" /\ h = "findFirst"
  \/ c = "setRoles" /\ h = "getRoles"
  \/ c = "drop" /\ h = "loadRoles"

LEMMA HeadPut ==
  ASSUME NEW c \in Calls, NEW t \in Seq(Calls), t # <<>>
  PROVE  /\ <<c>> \o Tail(t) \in Seq(Calls) /\ Len(<<c>> \o Tail(t)) = Len(t)
         /\ (<<c>> \o Tail(t))[1] = c
         /\ \A i \in 2..Len(t) : (<<c>> \o Tail(t))[i] = t[i]
<1>1. PICK s, x, w : s = <<c>> /\ x = Tail(t) /\ w = s \o x
  OBVIOUS
<1>2. s \in Seq(Calls) /\ Len(s) = 1 /\ s[1] = c
  BY <1>1
<1>3. x \in Seq(Calls) /\ Len(t) \in Nat \ {0} /\ Len(x) = Len(t) - 1
      /\ \A i \in 1..Len(t) - 1 : x[i] = t[i + 1]
  BY <1>1, RestOf
<1>4. /\ w \in Seq(Calls) /\ Len(w) = Len(s) + Len(x)
      /\ \A i \in 1..Len(s) : w[i] = s[i]
      /\ \A i \in 1..Len(x) : w[Len(s) + i] = x[i]
  <2>1. s \in Seq(Calls) /\ x \in Seq(Calls)
    BY <1>2, <1>3
  <2> QED BY <1>1, <2>1, Joined
<1>5. Len(w) = Len(t) /\ w[1] = c
  BY <1>2, <1>3, <1>4
<1>6. ASSUME NEW i \in 2..Len(t) PROVE w[i] = t[i]
  <2>1. PICK j \in 1..Len(t) - 1 : i = j + 1 /\ i = 1 + j
    <3>1. i - 1 \in 1..Len(t) - 1 /\ i = (i - 1) + 1 /\ i = 1 + (i - 1)
      BY <1>3
    <3> QED BY <3>1
  <2>2. w[1 + j] = x[j] /\ x[j] = t[j + 1]
    BY <1>2, <1>3, <1>4
  <2> QED BY <2>1, <2>2
<1> QED BY <1>1, <1>4, <1>5, <1>6

LEMMA ClearsSame ==
  ASSUME NEW t \in Seq(Calls), NEW w \in Seq(Calls), Len(w) = Len(t), NEW i \in 2..(Len(t) + 1),
         \A j \in 2..Len(t) : w[j] = t[j], Clears(t, i)
  PROVE  Clears(w, i)
<1>1. PICK k \in i..Len(t) : t[k] = "clearRoles" /\ \A j \in i..(k - 1) : t[j] \in {"drop", "clearLists"}
  BY DEF Clears
<1>2. Len(t) \in Nat
  OBVIOUS
<1>3. k \in i..Len(w) /\ k \in 2..Len(t) /\ \A j \in i..(k - 1) : j \in 2..Len(t)
  BY <1>1, <1>2
<1> QED BY <1>1, <1>3 DEF Clears

LEMMA ShapedPut ==
  ASSUME NEW c \in Calls, NEW t \in Seq(Calls), t # <<>>, Shaped(t), Replaces(c, Head(t))
  PROVE  Shaped(<<c>> \o Tail(t)) /\ (c = "drop" => Clears(<<c>> \o Tail(t), 2))
<1>1. PICK w : w = <<c>> \o Tail(t)
  OBVIOUS
<1>2. w \in Seq(Calls) /\ Len(w) = Len(t) /\ w[1] = c /\ \A i \in 2..Len(t) : w[i] = t[i]
  BY <1>1, HeadPut
<1>3. Len(t) \in Nat \ {0} /\ t[1] = Head(t)
  BY RestOf
<1>4. \A i \in 2..(Len(t) + 1) : Clears(t, i) => Clears(w, i)
  BY <1>2, ClearsSame
<1>5. 1 \in 1..Len(t) /\ ShapedAt(t, 1)
  BY <1>3 DEF Shaped
<1>6. ShapedAt(w, 1) /\ (c = "drop" => Clears(w, 2))
  <2>1. 1 + 1 = 2 /\ 2 \in 2..(Len(t) + 1)
    BY <1>3
  <2>2. c = "drop" => Clears(w, 2)
    BY <1>3, <1>4, <1>5, <2>1 DEF ShapedAt, Changing, Replaces
  <2>3. c \in {"setFirst", "setRoles", "drop"}
    BY DEF Replaces
  <2>4. \A j \in 1..1 : j = 1
    OBVIOUS
  <2> QED BY <1>2, <2>1, <2>2, <2>3, <2>4 DEF ShapedAt, Changing, BanOnly
<1>7. ASSUME NEW i \in 2..Len(t) PROVE ShapedAt(w, i)
  <2>0. i \in 1..Len(t) /\ 1 \in 1..i /\ i # 1 /\ i + 1 \in 2..(Len(t) + 1)
    BY <1>3
  <2>1. ShapedAt(t, i) /\ w[i] = t[i]
    BY <1>2, <2>0 DEF Shaped
  <2>2. \A j \in 1..Len(w) : w[j] = t[j] \/ (j = 1 /\ w[j] = c)
    BY <1>2, <1>3
  <2>3. w[i] \in Changing => Clears(w, i + 1)
    BY <1>4, <2>0, <2>1 DEF ShapedAt
  <2>4. w[i] = "add" => \A j \in 1..Len(w) : w[j] = "add" => j = i
    BY <1>2, <2>1, <2>2 DEF ShapedAt, Replaces
  <2>5. w[i] # "drop"
    BY <1>3, <2>0, <2>1 DEF ShapedAt, Replaces
  <2>6. w[i] # "setRoles"
    BY <2>0, <2>1 DEF ShapedAt
  <2>7. w[i] = "repair" => w[i - 1] \in {"getRoles", "setRoles"}
    <3>1. i = 2 \/ i - 1 \in 2..Len(t)
      BY <1>3
    <3>2. CASE i = 2
      <4>1. i - 1 = 1
        BY <3>2
      <4> QED BY <1>2, <1>3, <2>0, <2>1, <4>1 DEF ShapedAt, Replaces
    <3>3. CASE i - 1 \in 2..Len(t)
      BY <1>2, <2>0, <2>1, <3>3 DEF ShapedAt
    <3> QED BY <3>1, <3>2, <3>3
  <2>8. w[i] \notin BanOnly
    BY <1>3, <1>5, <2>1 DEF ShapedAt, Replaces, BanCalls, ClearCalls
  <2> QED BY <2>3, <2>4, <2>5, <2>6, <2>7, <2>8 DEF ShapedAt
<1>8. \A i \in 1..Len(w) : i = 1 \/ i \in 2..Len(t)
  BY <1>2, <1>3
<1>9. Shaped(w)
  BY <1>6, <1>7, <1>8 DEF Shaped
<1> QED BY <1>1, <1>6, <1>9

-----------------------------------------------------------------------------
(* What a step leaves true of a request *)

SameRoles == (\A u \in Users : account'[u].roles = account[u].roles) /\ UNCHANGED roleCache

\* A request that awaits a call.
Underway(o) == o \in ReqType /\ o.todo \in Seq(Calls) /\ o.todo # <<>> /\ Sound(o)

LEMMA SameKnown ==
  ASSUME SameRoles
  PROVE  /\ AtMostOne => AtMostOne'
         /\ CacheTrue => CacheTrue'
         /\ \A u : Bare(u) => Bare(u)'
<1>1. AtMostOne => AtMostOne'
  BY DEF SameRoles, AtMostOne
<1>2. CacheTrue => CacheTrue'
  BY DEF SameRoles, CacheTrue
<1>3. \A u : Bare(u) => Bare(u)'
  BY DEF SameRoles, Bare
<1> QED BY <1>1, <1>2, <1>3

LEMMA ReadyRest ==
  ASSUME NEW o, NEW s, Underway(o), s.todo = Tail(o.todo),
         (Bare(o.user) => Bare(s.user)') /\ (Head(o.todo) \in Founders => Bare(s.user)')
  PROVE  Ready(s)'
<1>1. PICK t, w : t = o.todo /\ w = s.todo
  OBVIOUS
<1>2. /\ t \in Seq(Calls) /\ Len(t) \in Nat \ {0} /\ Len(w) = Len(t) - 1 /\ t[1] = Head(t)
      /\ \A i \in 1..Len(t) - 1 : w[i] = t[i + 1]
  BY <1>1, RestOf DEF Underway
<1>3. ASSUME NEW i \in 1..Len(w), w[i] = "add", ~After(w, i, Founders) PROVE Bare(s.user)'
  <2>1. i + 1 \in 1..Len(t) /\ t[i + 1] = "add"
    BY <1>2, <1>3
  <2>2. Bare(o.user) \/ After(t, i + 1, Founders)
    BY <1>1, <2>1 DEF Underway, Sound, Ready
  <2>3. ASSUME NEW j \in 1..((i + 1) - 1), t[j] \in Founders PROVE j = 1
    <3>1. CASE j # 1
      <4>1. PICK k \in 1..(i - 1) : j = k + 1
        <5>1. j - 1 \in 1..(i - 1) /\ j = (j - 1) + 1
          BY <1>2, <3>1
        <5> QED BY <5>1
      <4>2. k \in 1..Len(t) - 1 /\ w[k] = t[j]
        BY <1>2, <4>1
      <4> QED BY <1>3, <2>3, <4>1, <4>2 DEF After
    <3> QED BY <3>1
  <2>4. After(t, i + 1, Founders) => Head(t) \in Founders
    BY <1>2, <2>3 DEF After
  <2> QED BY <1>1, <2>2, <2>4
<1> QED BY <1>1, <1>3 DEF Ready

LEMMA RestSound ==
  ASSUME SameRoles, NEW o, NEW s, Underway(o), s.todo = Tail(o.todo),
         Head(o.todo) \notin {"add", "drop", "removeRole", "setRoles", "clearRoles"},
         (s.user = o.user /\ Head(o.todo) \notin Founders) \/ Bare(s.user)',
         Head(o.todo) = "getRoles" => s.roles = account[s.user].roles /\ s.user \in Users
  PROVE  Sound(s)'
<1>1. PICK t : t = o.todo /\ t \in Seq(Calls) /\ t # <<>> /\ Shaped(t) /\ s.todo = Tail(t)
  BY DEF Underway, Sound
<1>2. Shaped(s.todo)
  BY <1>1, ShapedRest
<1>3. Ready(s)'
  BY SameKnown, ReadyRest
<1>4. Known(s)'
  <2>1. ASSUME s.todo # <<>>, s.todo[1] \in {"drop", "setRoles", "repair"}
        PROVE  s.roles = account'[s.user].roles
    <3>1. Follows(s.todo, Head(t))
      BY <1>1, <2>1, ShapedRest
    <3>2. Head(t) = "getRoles"
      BY <1>1, <2>1, <3>1 DEF Follows
    <3> QED BY <1>1, <3>2 DEF SameRoles
  <2>2. s.todo # <<>> => Head(s.todo) = s.todo[1]
    <3>1. s.todo \in Seq(Calls)
      BY <1>1, RestOf
    <3> QED BY <3>1, RestOf
  <2> QED BY <2>1, <2>2 DEF Known
<1>5. AtMostOne'
  BY SameKnown DEF Underway, Sound
<1>6. CacheTrue' \/ Clears(s.todo, 1)
  <2>1. CacheTrue \/ Clears(t, 1)
    BY <1>1 DEF Underway, Sound
  <2>2. Clears(t, 1) => Clears(Tail(t), 1)
    BY <1>1, ClearsNext
  <2> QED BY <1>1, <2>1, <2>2, SameKnown
<1> QED BY <1>2, <1>3, <1>4, <1>5, <1>6 DEF Sound

LEMMA FitsIs ==
  ASSUME NEW t, Fits(t)
  PROVE  /\ t \in Seq(Calls) /\ Shaped(t)
         /\ \A i \in 1..Len(t) : t[i] = "add" => After(t, i, Founders)
         /\ t # <<>> => Head(t) \notin {"drop", "setRoles", "repair"}
<1>1. CASE Giving(t)
  <2>1. t \in Seq(Calls) /\ Shaped(t) /\ OneAdd(t) /\ \A i \in 1..Len(t) : PartAt(t, i)
    BY <1>1, ShapedIf DEF Giving, Part
  <2>2. t # <<>> => t[1] \notin {"drop", "setRoles", "repair"}
    <3>1. t # <<>> => 1 \in 1..Len(t)
      BY <2>1
    <3>2. ~(1 > 1)
      OBVIOUS
    <3> QED BY <2>1, <3>1, <3>2 DEF PartAt
  <2>3. t # <<>> => Head(t) = t[1]
    BY <2>1, RestOf
  <2> QED BY <2>1, <2>2, <2>3 DEF OneAdd
<1>2. CASE t \in Seq(BanCalls)
  <2>1. t \in Seq(Calls) /\ Shaped(t) /\ NoAdd(t)
    BY <1>2, BanShaped
  <2>2. t # <<>> => Head(t) \in BanCalls
    BY <1>2, RestOf
  <2> QED BY <2>1, <2>2 DEF NoAdd, BanCalls, ClearCalls
<1> QED BY <1>1, <1>2 DEF Fits

LEMMA FitsSound ==
  ASSUME NEW s, Fits(s.todo), AtMostOne', CacheTrue'
  PROVE  Sound(s)'
<1>1. Shaped(s.todo)
  BY FitsIs
<1>2. Ready(s)'
  BY FitsIs DEF Ready
<1>3. Known(s)'
  BY FitsIs DEF Known
<1> QED BY <1>1, <1>2, <1>3 DEF Sound

\* While the cached roles need no clearing they are true.
LEMMA CacheIs ==
  ASSUME NEW o, Underway(o), Head(o.todo) \notin {"drop", "clearLists", "clearRoles"}
  PROVE  CacheTrue
<1>1. PICK t : t = o.todo /\ t \in Seq(Calls) /\ t # <<>>
  BY DEF Underway
<1>2. ~Clears(t, 1)
  BY <1>1, ClearsNext
<1> QED BY <1>1, <1>2 DEF Underway, Sound

LEMMA NewSound ==
  ASSUME SameRoles, NEW o, NEW s, Underway(o), Fits(s.todo),
         Head(o.todo) \notin {"drop", "clearLists", "clearRoles"}
  PROVE  Sound(s)'
<1>1. CacheTrue /\ AtMostOne
  BY CacheIs DEF Underway, Sound
<1>2. CacheTrue' /\ AtMostOne'
  BY <1>1, SameKnown
<1> QED BY <1>2, FitsSound

LEMMA PutSound ==
  ASSUME SameRoles, NEW o, NEW s, Underway(o), NEW c \in Calls, Replaces(c, Head(o.todo)),
         s.todo = <<c>> \o Tail(o.todo), s.user = o.user, s.user \in Users,
         c # "setFirst" => s.roles = account[s.user].roles
  PROVE  Sound(s)'
<1>1. PICK t : t = o.todo /\ t \in Seq(Calls) /\ t # <<>> /\ Shaped(t) /\ Ready(o)
  BY DEF Underway, Sound
<1>2. PICK w : w = s.todo /\ w = <<c>> \o Tail(t)
  BY <1>1
<1>3. w \in Seq(Calls) /\ Len(w) = Len(t) /\ w[1] = c /\ \A i \in 2..Len(t) : w[i] = t[i]
  BY <1>1, <1>2, HeadPut
<1>4. Shaped(w)
  BY <1>1, <1>2, ShapedPut
<1>5. Len(t) \in Nat \ {0} /\ t[1] = Head(t)
  BY <1>1, RestOf
<1>6. Ready(s)'
  <2>1. ASSUME NEW i \in 1..Len(w), w[i] = "add", ~After(w, i, Founders) PROVE Bare(s.user)'
    <3>1. i # 1
      BY <1>3, <2>1 DEF Replaces
    <3>2. i \in 2..Len(t) /\ i \in 1..Len(t) /\ t[i] = "add"
      BY <1>3, <1>5, <2>1, <3>1
    <3>3. Bare(o.user) \/ After(t, i, Founders)
      BY <1>1, <3>2 DEF Ready
    <3>4. ASSUME NEW j \in 1..(i - 1), t[j] \in Founders PROVE FALSE
      <4>1. CASE j = 1
        <5>1. c = "drop"
          BY <1>1, <1>5, <3>4, <4>1 DEF Replaces, Founders
        <5>2. w[j] \in Founders
          BY <1>3, <4>1, <5>1 DEF Founders
        <5> QED BY <2>1, <5>2 DEF After
      <4>2. CASE j # 1
        <5>1. j \in 2..Len(t)
          BY <3>2, <4>2
        <5>2. w[j] \in Founders
          BY <1>3, <3>4, <5>1
        <5> QED BY <2>1, <5>2 DEF After
      <4> QED BY <4>1, <4>2
    <3>5. Bare(o.user)
      BY <3>3, <3>4 DEF After
    <3> QED BY <3>5, SameKnown
  <2> QED BY <1>2, <2>1 DEF Ready
<1>7. Known(s)'
  <2>1. s.todo # <<>> => Head(s.todo) = c
    BY <1>2, <1>3, RestOf
  <2> QED BY <2>1 DEF Known, Replaces, SameRoles
<1>8. CacheTrue' /\ AtMostOne'
  <2>1. Head(o.todo) \notin {"drop", "clearLists", "clearRoles"}
    BY DEF Replaces
  <2>2. CacheTrue
    BY <2>1, CacheIs
  <2> QED BY <2>2, SameKnown DEF Underway, Sound
<1> QED BY <1>2, <1>4, <1>6, <1>7, <1>8 DEF Sound

\* A request that is at its end is forgotten.
LEMMA SoundSet ==
  ASSUME RequestsOK, NEW p \in Procs, NEW s, Set(p, s), Sound(s)'
  PROVE  Sound(req[p])'
<1>0. req \in [Procs -> ReqType]
  BY DEF RequestsOK
<1>1. CASE s.todo # <<>>
  <2>1. req'[p] = s
    BY <1>0, <1>1 DEF Set
  <2> QED BY <2>1
<1>2. CASE s.todo = <<>>
  <2>1. req'[p] = Idle
    BY <1>0, <1>2 DEF Set
  <2>2. ~Clears(<<>>, 1)
    BY DEF Clears
  <2>3. AtMostOne' /\ CacheTrue'
    BY <1>2, <2>2 DEF Sound
  <2>4. PICK i : i = Idle
    OBVIOUS
  <2>5. <<>> \in Seq(BanCalls) /\ i.todo = <<>>
    BY <2>4 DEF Idle
  <2>6. Sound(i)'
    BY <2>3, <2>5, FitsSound DEF Fits
  <2> QED BY <2>1, <2>4, <2>6
<1> QED BY <1>1, <1>2

-----------------------------------------------------------------------------
(* Each call *)

LEMMA UnderwayIf ==
  ASSUME TInv, NEW p \in Procs, NEW c, Doing(p, c), Sound(req[p])
  PROVE  Underway(req[p]) /\ Head(req[p].todo) = c
BY HeadIs DEF TInv, Underway

LEMMA SameIf ==
  ASSUME UNCHANGED account, UNCHANGED roleCache
  PROVE  SameRoles
BY DEF SameRoles

Knowing == {"add", "drop", "removeRole", "setRoles", "clearRoles", "getRoles"} \cup Founders

LEMMA SoundGoesOn ==
  ASSUME TInv, SameRoles, NEW p \in Procs, NEW c, Doing(p, c), Sound(req[p]), c \notin Knowing,
         NEW s, Set(p, s), s.todo = Rest(p), s.user = req[p].user
  PROVE  Sound(req[p])'
<1>1. PICK o : o = req[p] /\ Underway(o) /\ Head(o.todo) = c
  BY UnderwayIf
<1>2. s.todo = Tail(o.todo) /\ s.user = o.user /\ Head(o.todo) \notin Founders
  BY <1>1 DEF Rest, Knowing
<1>3. Head(o.todo) \notin {"add", "drop", "removeRole", "setRoles", "clearRoles", "getRoles"}
  BY <1>1 DEF Knowing
<1>4. Sound(s)'
  BY <1>1, <1>2, <1>3, RestSound
<1> QED BY <1>4, SoundSet DEF TInv

LEMMA SoundProceeds ==
  ASSUME TInv, SameRoles, NEW p \in Procs, NEW c, Doing(p, c), Sound(req[p]), c \notin Knowing,
         Proceed(p)
  PROVE  Sound(req[p])'
<1>1. PICK o : o = req[p] /\ o \in ReqType
  BY DEF TInv, RequestsOK
<1>2. PICK s : s = [o EXCEPT !.todo = Rest(p)]
  OBVIOUS
<1>3. Set(p, s) /\ s.todo = Rest(p) /\ s.user = req[p].user
  BY <1>1, <1>2 DEF Proceed, Then, ReqType
<1> QED BY <1>3, SoundGoesOn

LEMMA SoundAnew ==
  ASSUME TInv, SameRoles, NEW p \in Procs, NEW c, Doing(p, c), Sound(req[p]),
         c \notin {"drop", "clearLists", "clearRoles"}, NEW s, Set(p, s), Fits(s.todo)
  PROVE  Sound(req[p])'
<1>1. PICK o : o = req[p] /\ Underway(o) /\ Head(o.todo) = c
  BY UnderwayIf
<1>2. Sound(s)'
  BY <1>1, NewSound
<1> QED BY <1>2, SoundSet DEF TInv

LEMMA FitsShort ==
  /\ Fits(<<>>) /\ Fits(<<"nextRow">>) /\ Fits(<<"setList">>) /\ Fits(<<"countRows">>)
  /\ Fits(<<"findUsers">>) /\ Fits(<<"findRows">>) /\ Fits(Upsert) /\ Fits(Upsert \o <<"nextRow">>)
<1>1. {"nextRow", "setList", "countRows", "findUsers", "findRows"} \subseteq Silent
  BY DEF Silent, BanOnly, Calls, Changing
<1>2. <<>> \in Seq(Silent) /\ \A c \in Silent : <<c>> \in Seq(Silent)
  OBVIOUS
<1>3. Fits(<<>>) /\ \A c \in Silent : Fits(<<c>>)
  BY <1>2, QuietSilent, QuietGives DEF Fits
<1> QED BY <1>1, <1>3, UpsertGiving DEF Fits

LEMMA SoundThen ==
  ASSUME TInv, SameRoles, NEW p \in Procs, NEW c, Doing(p, c), Sound(req[p]),
         c \notin {"drop", "clearLists", "clearRoles"}, NEW t, Then(p, t), Fits(t)
  PROVE  Sound(req[p])'
<1>1. PICK o : o = req[p] /\ o \in ReqType
  BY DEF TInv, RequestsOK
<1>2. PICK s : s = [o EXCEPT !.todo = t]
  OBVIOUS
<1>3. Set(p, s) /\ s.todo = t
  BY <1>1, <1>2 DEF Then, ReqType
<1> QED BY <1>3, SoundAnew

LEMMA SoundStops ==
  ASSUME TInv, SameRoles, NEW p \in Procs, NEW c, Doing(p, c), Sound(req[p]),
         c \notin {"drop", "clearLists", "clearRoles"}, Stop(p)
  PROVE  Sound(req[p])'
<1>1. PICK t : t \in {<<>>, <<"nextRow">>} /\ Then(p, t)
  BY DEF Stop
<1>2. Fits(t)
  BY <1>1, FitsShort
<1> QED BY <1>1, <1>2, SoundThen

LEMMA FindFirstSound ==
  ASSUME TInv, NEW p \in Procs, Sound(req[p]), FindFirst(p)
  PROVE  Sound(req[p])'
<1>1. Doing(p, "findFirst") /\ UNCHANGED account /\ UNCHANGED roleCache
  BY DEF FindFirst, identityVars, cacheVars
<1>2. SameRoles /\ "findFirst" \notin Knowing
  BY <1>1, SameIf DEF Knowing, Founders
<1>3. PICK o : o = req[p] /\ Underway(o) /\ Head(o.todo) = "findFirst"
  BY <1>1, UnderwayIf
<1>4. CASE Proceed(p)
  BY <1>1, <1>2, <1>4, SoundProceeds
<1>5. CASE Stop(p)
  BY <1>1, <1>2, <1>5, SoundStops
<1>6. CASE Set(p, [o EXCEPT !.name = row[o.user].name, !.mail = row[o.user].mail,
                            !.role = "customer", !.todo = Upsert])
  <2>1. PICK s : s = [o EXCEPT !.name = row[o.user].name, !.mail = row[o.user].mail,
                               !.role = "customer", !.todo = Upsert]
    OBVIOUS
  <2>2. s.todo = Upsert
    BY <1>3, <2>1 DEF Underway, ReqType
  <2> QED BY <1>1, <1>2, <1>6, <2>1, <2>2, FitsShort, SoundAnew
<1>7. CASE HasAccount(o.user) /\ Set(p, [o EXCEPT !.active = account[o.user].active,
                                                  !.todo = <<"setFirst">> \o Rest(p)])
  <2>1. PICK s : s = [o EXCEPT !.active = account[o.user].active, !.todo = <<"setFirst">> \o Rest(p)]
    OBVIOUS
  <2>2. s.todo = <<"setFirst">> \o Tail(o.todo) /\ s.user = o.user
    BY <1>3, <2>1 DEF Underway, ReqType, Rest
  <2>3. "setFirst" \in Calls /\ Replaces("setFirst", Head(o.todo))
    BY <1>3 DEF Calls, Replaces
  <2>4. s.user \in Users
    BY <1>1, <1>3, <2>2, HeadIs DEF TInv, Held, Named
  <2>5. Sound(s)'
    BY <1>2, <1>3, <2>2, <2>3, <2>4, PutSound
  <2> QED BY <1>7, <2>1, <2>5, SoundSet DEF TInv
<1> QED BY <1>3, <1>4, <1>5, <1>6, <1>7 DEF FindFirst

LEMMA GetRolesSound ==
  ASSUME TInv, NEW p \in Procs, Sound(req[p]), GetRoles(p)
  PROVE  Sound(req[p])'
<1>1. Doing(p, "getRoles") /\ UNCHANGED account /\ UNCHANGED roleCache
  BY DEF GetRoles, identityVars, cacheVars
<1>2. SameRoles /\ "getRoles" \notin Founders
  BY <1>1, SameIf DEF Founders
<1>3. PICK o : o = req[p] /\ Underway(o) /\ Head(o.todo) = "getRoles"
  BY <1>1, UnderwayIf
<1>4. Held(o.user)
  BY <1>1, <1>3, HeadIs DEF TInv, AccountCalls
<1>5. PICK u \in Users : u = o.user /\ HasAccount(u)
  BY <1>4 DEF Held
<1>6. CacheTrue
  BY <1>3, CacheIs
<1>7. CASE roleCache[u] # None
  <2>1. roleCache[u] = account[u].roles
    BY <1>6, <1>7 DEF CacheTrue
  <2>2. PICK s : s = [o EXCEPT !.roles = roleCache[u], !.todo = Rest(p)]
    OBVIOUS
  <2>3. s.todo = Tail(o.todo) /\ s.user = o.user /\ s.roles = account[s.user].roles
    BY <1>3, <1>5, <2>1, <2>2 DEF Underway, ReqType, Rest
  <2>4. Sound(s)'
    BY <1>2, <1>3, <1>5, <2>3, RestSound
  <2>5. Set(p, s)
    BY <1>3, <1>5, <1>7, <2>2 DEF GetRoles
  <2> QED BY <2>4, <2>5, SoundSet DEF TInv
<1>8. CASE roleCache[u] = None
  <2>1. PICK s : s = [o EXCEPT !.roles = account[u].roles, !.todo = <<"setRoles">> \o Rest(p)]
    OBVIOUS
  <2>2. s.todo = <<"setRoles">> \o Tail(o.todo) /\ s.user = o.user /\ s.roles = account[s.user].roles
    BY <1>3, <1>5, <2>1 DEF Underway, ReqType, Rest
  <2>3. "setRoles" \in Calls /\ Replaces("setRoles", Head(o.todo))
    BY <1>3 DEF Calls, Replaces
  <2>4. Sound(s)'
    BY <1>2, <1>3, <1>5, <2>2, <2>3, PutSound
  <2>5. Set(p, s)
    BY <1>3, <1>5, <1>8, <2>1 DEF GetRoles
  <2> QED BY <2>4, <2>5, SoundSet DEF TInv
<1> QED BY <1>7, <1>8

LEMMA LeavesSound ==
  ASSUME NEW o, NEW s, Underway(o), s.todo = Tail(o.todo), Ready(s)', AtMostOne',
         CacheTrue' \/ Head(o.todo) \in Changing,
         Head(o.todo) \in {"drop", "getRoles", "setRoles"} => s.roles = account'[s.user].roles
  PROVE  Sound(s)'
<1>1. PICK t : t = o.todo /\ t \in Seq(Calls) /\ t # <<>> /\ Shaped(t) /\ s.todo = Tail(t)
  BY DEF Underway, Sound
<1>2. Shaped(s.todo) /\ (Head(t) \in Changing => Clears(s.todo, 1))
  BY <1>1, ShapedRest
<1>3. Known(s)'
  <2>1. s.todo # <<>> => Follows(s.todo, Head(t)) /\ Head(s.todo) = s.todo[1]
    <3>1. s.todo \in Seq(Calls)
      BY <1>1, RestOf
    <3> QED BY <1>1, <3>1, ShapedRest, RestOf
  <2> QED BY <1>1, <2>1 DEF Known, Follows
<1> QED BY <1>1, <1>2, <1>3 DEF Sound

\* The account a request is about gets other roles, no more than one of them.
LEMMA RolesChange ==
  ASSUME TInv, NEW u \in Users, NEW R, account' = [account EXCEPT ![u].roles = R], AtMostOne,
         \A x, y \in R : x = y
  PROVE  /\ AtMostOne' /\ (R = {} => Bare(u)')
         /\ account'[u].roles = R
<1>1. account \in [Users -> {NoAccount} \cup AccountType]
  BY DEF TInv, Stored, TablesOK
<1>2. account'[u].roles = R /\ \A v \in Users \ {u} : account'[v] = account[v]
  BY <1>1 DEF NoAccount, AccountType
<1>3. AtMostOne'
  <2>1. ASSUME NEW v \in Users, NEW x \in account'[v].roles, NEW y \in account'[v].roles
        PROVE  x = y
    BY <1>2, <2>1 DEF AtMostOne
  <2> QED BY <2>1 DEF AtMostOne
<1> QED BY <1>2, <1>3 DEF Bare

LEMMA ProceedsTo ==
  ASSUME TInv, NEW p \in Procs, Proceed(p)
  PROVE  \E s : /\ Set(p, s) /\ s.todo = Tail(req[p].todo) /\ s.user = req[p].user
               /\ s.roles = req[p].roles
<1>1. PICK o : o = req[p] /\ o \in ReqType
  BY DEF TInv, RequestsOK
<1>2. PICK s : s = [o EXCEPT !.todo = Rest(p)]
  OBVIOUS
<1>3. Set(p, s) /\ s.todo = Rest(p) /\ s.user = o.user /\ s.roles = o.roles
  BY <1>1, <1>2 DEF Proceed, Then, ReqType
<1> QED BY <1>1, <1>3 DEF Rest

LEMMA SetRolesSound ==
  ASSUME TInv, NEW p \in Procs, Sound(req[p]), SetRoles(p)
  PROVE  Sound(req[p])'
<1>1. Doing(p, "setRoles") /\ UNCHANGED account /\ Proceed(p)
  BY DEF SetRoles, identityVars
<1>2. PICK o : o = req[p] /\ Underway(o) /\ Head(o.todo) = "setRoles"
  BY <1>1, UnderwayIf
<1>3. PICK s : Set(p, s) /\ s.todo = Tail(o.todo) /\ s.user = o.user /\ s.roles = o.roles
  BY <1>1, <1>2, ProceedsTo
<1>4. o.user \in Users
  BY <1>1, <1>2, HeadIs DEF TInv, AccountCalls, Held
<1>5. CacheTrue /\ AtMostOne /\ o.roles = account[o.user].roles
  BY <1>2, CacheIs DEF Underway, Sound, Known
<1>6. CacheTrue'
  <2>1. \A u \in Users : roleCache'[u] = IF u = o.user THEN o.roles ELSE roleCache[u]
    BY <1>2 DEF SetRoles, TInv, Stored, CachesOK
  <2> QED BY <1>1, <1>5, <2>1 DEF CacheTrue
<1>7. AtMostOne' /\ s.roles = account'[s.user].roles
  BY <1>1, <1>3, <1>5 DEF AtMostOne
<1>8. Ready(s)'
  <2>1. Bare(o.user) => Bare(s.user)'
    BY <1>1, <1>3 DEF Bare
  <2> QED BY <1>2, <1>3, <2>1, ReadyRest DEF Founders
<1>9. Sound(s)'
  BY <1>2, <1>3, <1>6, <1>7, <1>8, LeavesSound
<1> QED BY <1>3, <1>9, SoundSet DEF TInv

LEMMA ClearRolesSound ==
  ASSUME TInv, NEW p \in Procs, Sound(req[p]), ClearRoles(p)
  PROVE  Sound(req[p])'
<1>1. Doing(p, "clearRoles") /\ UNCHANGED account /\ Proceed(p)
  BY DEF ClearRoles, identityVars
<1>2. PICK o : o = req[p] /\ Underway(o) /\ Head(o.todo) = "clearRoles"
  BY <1>1, UnderwayIf
<1>3. PICK s : Set(p, s) /\ s.todo = Tail(o.todo) /\ s.user = o.user /\ s.roles = o.roles
  BY <1>1, <1>2, ProceedsTo
<1>4. CacheTrue'
  BY DEF ClearRoles, CacheTrue
<1>5. AtMostOne'
  BY <1>1, <1>2 DEF Underway, Sound, AtMostOne
<1>6. Ready(s)'
  <2>1. Bare(o.user) => Bare(s.user)'
    BY <1>1, <1>3 DEF Bare
  <2> QED BY <1>2, <1>3, <2>1, ReadyRest DEF Founders
<1>7. Sound(s)'
  BY <1>2, <1>3, <1>4, <1>5, <1>6, LeavesSound
<1> QED BY <1>3, <1>7, SoundSet DEF TInv

\* A role is added once, to an account without one.
LEMMA AddSound ==
  ASSUME TInv, NEW p \in Procs, Sound(req[p]), Add(p)
  PROVE  Sound(req[p])'
<1>1. Doing(p, "add") /\ Proceed(p)
  BY DEF Add
<1>2. PICK o : o = req[p] /\ Underway(o) /\ Head(o.todo) = "add"
  BY <1>1, UnderwayIf
<1>3. PICK s : Set(p, s) /\ s.todo = Tail(o.todo) /\ s.user = o.user /\ s.roles = o.roles
  BY <1>1, <1>2, ProceedsTo
<1>4. PICK t : t = o.todo /\ t \in Seq(Calls) /\ t # <<>> /\ Shaped(t) /\ AtMostOne /\ Ready(o)
  BY <1>2 DEF Underway, Sound
<1>5. Bare(o.user)
  <2>1. 1 \in 1..Len(t) /\ t[1] = "add"
    BY <1>2, <1>4, RestOf
  <2>2. ~After(t, 1, Founders)
    BY DEF After
  <2> QED BY <1>4, <2>1, <2>2 DEF Ready
<1>6. PICK u \in Users : u = o.user /\ account[u].roles = {}
  BY <1>5 DEF Bare
<1>7. PICK R : R = account[u].roles \cup {o.role}
  OBVIOUS
<1>8. account' = [account EXCEPT ![u].roles = R]
  BY <1>2, <1>6, <1>7 DEF Add
<1>9. AtMostOne'
  <2>1. \A x, y \in R : x = y
    BY <1>6, <1>7
  <2> QED BY <1>4, <1>8, <2>1, RolesChange
<1>10. Ready(s)'
  <2>1. \A i \in 1..Len(s.todo) : s.todo[i] # "add"
    BY <1>2, <1>3, <1>4, ShapedRest
  <2> QED BY <2>1 DEF Ready
<1>11. Sound(s)'
  BY <1>2, <1>3, <1>9, <1>10, LeavesSound DEF Changing
<1> QED BY <1>3, <1>11, SoundSet DEF TInv

LEMMA RemoveRoleSound ==
  ASSUME TInv, NEW p \in Procs, Sound(req[p]), RemoveRole(p)
  PROVE  Sound(req[p])'
<1>1. Doing(p, "removeRole") /\ Proceed(p)
  BY DEF RemoveRole
<1>2. PICK o : o = req[p] /\ Underway(o) /\ Head(o.todo) = "removeRole"
  BY <1>1, UnderwayIf
<1>3. PICK s : Set(p, s) /\ s.todo = Tail(o.todo) /\ s.user = o.user /\ s.roles = o.roles
  BY <1>1, <1>2, ProceedsTo
<1>4. PICK u \in Users : u = o.user
  BY <1>1, <1>2, HeadIs DEF TInv, AccountCalls, Held
<1>5. AtMostOne
  BY <1>2 DEF Underway, Sound
<1>6. PICK R : R = account[u].roles \ {o.role}
  OBVIOUS
<1>7. account' = [account EXCEPT ![u].roles = R]
  BY <1>2, <1>4, <1>6 DEF RemoveRole
<1>8. AtMostOne' /\ (R = {} => Bare(u)')
  <2>1. \A x, y \in R : x = y
    BY <1>5, <1>6 DEF AtMostOne
  <2> QED BY <1>5, <1>7, <2>1, RolesChange
<1>9. Ready(s)'
  <2>1. Bare(o.user) => Bare(s.user)'
    BY <1>3, <1>4, <1>6, <1>8 DEF Bare
  <2> QED BY <1>2, <1>3, <2>1, ReadyRest DEF Founders
<1>10. Sound(s)'
  BY <1>2, <1>3, <1>8, <1>9, LeavesSound DEF Changing
<1> QED BY <1>3, <1>10, SoundSet DEF TInv

\* The one role there is was read, and is removed.
LEMMA DropSound ==
  ASSUME TInv, NEW p \in Procs, Sound(req[p]), Drop(p)
  PROVE  Sound(req[p])'
<1>1. Doing(p, "drop")
  BY DEF Drop
<1>2. PICK o : o = req[p] /\ Underway(o) /\ Head(o.todo) = "drop"
  BY <1>1, UnderwayIf
<1>3. PICK u \in Users : u = o.user
  BY <1>1, <1>2, HeadIs DEF TInv, AccountCalls, Held
<1>4. PICK r \in o.roles : /\ account' = [account EXCEPT ![u].roles = @ \ {r}]
                          /\ Set(p, [o EXCEPT !.roles = @ \ {r}, !.todo = Rest(p)])
  BY <1>2, <1>3 DEF Drop
<1>5. PICK s : s = [o EXCEPT !.roles = @ \ {r}, !.todo = Rest(p)]
  OBVIOUS
<1>6. s.todo = Tail(o.todo) /\ s.user = u /\ s.roles = o.roles \ {r} /\ Set(p, s)
  BY <1>2, <1>3, <1>4, <1>5 DEF Underway, ReqType, Rest
<1>7. AtMostOne /\ o.roles = account[u].roles
  BY <1>2, <1>3 DEF Underway, Sound, Known
<1>8. o.roles \ {r} = {}
  BY <1>4, <1>7 DEF AtMostOne
<1>9. PICK R : R = account[u].roles \ {r}
  OBVIOUS
<1>10. R = {} /\ account' = [account EXCEPT ![u].roles = R]
  BY <1>4, <1>7, <1>8, <1>9
<1>11. AtMostOne' /\ Bare(u)' /\ account'[u].roles = R
  <2>1. \A x, y \in R : x = y
    BY <1>10
  <2> QED BY <1>7, <1>10, <2>1, RolesChange
<1>12. Ready(s)'
  BY <1>2, <1>6, <1>11, ReadyRest
<1>13. Sound(s)'
  BY <1>2, <1>6, <1>8, <1>10, <1>11, <1>12, LeavesSound DEF Changing
<1> QED BY <1>6, <1>13, SoundSet DEF TInv

LEMMA InsertSound ==
  ASSUME TInv, NEW p \in Procs, Sound(req[p]), Insert(p)
  PROVE  Sound(req[p])'
<1>1. Doing(p, "insert") /\ UNCHANGED roleCache
  BY DEF Insert, cacheVars
<1>2. PICK o : o = req[p] /\ Underway(o) /\ Head(o.todo) = "insert"
  BY <1>1, UnderwayIf
<1>3. CASE Stop(p) /\ UNCHANGED account
  BY <1>1, <1>3, SameIf, SoundStops
<1>4. ASSUME NEW u \in setting.users, ~HasAccount(u),
             account' = [account EXCEPT ![u] =
               [name |-> o.name, mail |-> o.mail, active |-> TRUE, roles |-> {}]],
             Set(p, [o EXCEPT !.user = u, !.todo = Rest(p)])
      PROVE  Sound(req[p])'
  <2>1. u \in Users /\ account \in [Users -> {NoAccount} \cup AccountType]
    BY AccountsAssumption DEF TInv, Stored, TablesOK
  <2>2. account[u].roles = {} /\ account'[u].roles = {}
    BY <1>4, <2>1 DEF HasAccount, NoAccount
  <2>3. \A v \in Users \ {u} : account'[v] = account[v]
    BY <1>4, <2>1
  <2>4. SameRoles
    BY <1>1, <2>2, <2>3 DEF SameRoles
  <2>5. PICK s : s = [o EXCEPT !.user = u, !.todo = Rest(p)]
    OBVIOUS
  <2>6. s.todo = Tail(o.todo) /\ s.user = u
    BY <1>2, <2>5 DEF Underway, ReqType, Rest
  <2>7. Bare(s.user)'
    BY <2>1, <2>2, <2>6 DEF Bare
  <2>8. Sound(s)'
    BY <1>2, <2>4, <2>6, <2>7, RestSound
  <2> QED BY <1>4, <2>5, <2>8, SoundSet DEF TInv
<1> QED BY <1>2, <1>3, <1>4 DEF Insert

LEMMA OneDrop ==
  ASSUME NEW x
  PROVE  Each("drop", {x}) = <<"drop">>
<1>1. IsFiniteSet({x}) /\ Cardinality({x}) = 1
  BY FS_Singleton
<1>2. "drop" \in Calls
  BY DEF Calls
<1>3. PICK e : e = Each("drop", {x})
  OBVIOUS
<1>4. e \in Seq(Calls) /\ Len(e) = 1 /\ \A i \in 1..Len(e) : e[i] = "drop"
  BY <1>1, <1>2, <1>3, EachIs
<1>5. e = <<"drop">>
  BY <1>4
<1> QED BY <1>3, <1>5

LEMMA LoadRolesSound ==
  ASSUME TInv, NEW p \in Procs, Sound(req[p]), LoadRoles(p)
  PROVE  Sound(req[p])'
<1>1. Doing(p, "loadRoles") /\ UNCHANGED account /\ UNCHANGED roleCache
  BY DEF LoadRoles, identityVars, cacheVars
<1>2. PICK o : o = req[p] /\ Underway(o) /\ Head(o.todo) = "loadRoles"
  BY <1>1, UnderwayIf
<1>3. PICK u \in Users : u = o.user
  BY <1>1, <1>2, HeadIs DEF TInv, AccountCalls, Held
<1>4. PICK R : R = account[u].roles
  OBVIOUS
<1>5. PICK s : s = [o EXCEPT !.roles = R, !.todo = Each("drop", R) \o Rest(p)]
  OBVIOUS
<1>6. Set(p, s)
  BY <1>2, <1>3, <1>4, <1>5 DEF LoadRoles
<1>7. s.todo = Each("drop", R) \o Tail(o.todo) /\ s.user = u /\ s.roles = R
  BY <1>2, <1>3, <1>5 DEF Underway, ReqType, Rest
<1>8. SameRoles /\ "drop" \in Calls
  BY <1>1, SameIf DEF Calls
<1>9. CASE R = {}
  <2>1. Tail(o.todo) \in Seq(Calls)
    BY <1>2, RestOf DEF Underway
  <2>2. s.todo = Tail(o.todo)
    BY <1>7, <1>8, <1>9, <2>1, EachNone
  <2>3. Bare(s.user)'
    BY <1>1, <1>3, <1>4, <1>7, <1>9 DEF Bare
  <2>4. Sound(s)'
    BY <1>2, <1>8, <2>2, <2>3, RestSound
  <2> QED BY <1>6, <2>4, SoundSet DEF TInv
<1>10. ASSUME NEW x \in R PROVE Sound(req[p])'
  <2>1. R = {x}
    BY <1>2, <1>3, <1>4, <1>10 DEF Underway, Sound, AtMostOne
  <2>2. s.todo = <<"drop">> \o Tail(o.todo)
    BY <1>7, <2>1, OneDrop
  <2>3. Replaces("drop", Head(o.todo))
    BY <1>2 DEF Replaces
  <2>4. s.user = o.user /\ s.user \in Users /\ s.roles = account[s.user].roles
    BY <1>3, <1>4, <1>7
  <2>5. Sound(s)'
    BY <1>2, <1>8, <2>2, <2>3, <2>4, PutSound
  <2> QED BY <1>6, <2>5, SoundSet DEF TInv
<1> QED BY <1>9, <1>10

LEMMA RepairShaped ==
  ASSUME NEW t \in {<<>>, <<"getRoles">>}
  PROVE  Part(AddRole \o t) /\ Shaped(AddRole \o t)
<1>1. t \in Seq(Silent)
  <2>1. <<>> \in Seq(Silent) /\ <<"getRoles">> \in Seq(Silent)
    BY SilentIs
  <2> QED BY <2>1, Zenon
<1>2. Part(t) /\ NoAdd(t)
  BY <1>1, SilentPart
<1>3. PICK a, w : a = AddRole /\ w = a \o t
  OBVIOUS
<1>4. Part(a) /\ Part(w)
  BY <1>2, <1>3, AddRolePart, PartJoined
<1>5. /\ Len(a) = 4 /\ a[1] = "add" /\ a[2] = "clearLists" /\ a[3] = "clearRoles"
      /\ a[4] = "clearUsers"
  BY <1>3, WithClear DEF AddRole, Calls
<1>6. ASSUME NEW i \in 1..Len(w), w[i] = "add" PROVE i = 1
  <2>1. a \in Seq(Calls) /\ t \in Seq(Calls)
    BY <1>2, <1>4 DEF Part
  <2>2. i \in 1..Len(a \o t)
    BY <1>3
  <2>3. (i \in 1..Len(a) /\ w[i] = a[i]) \/ \E k \in 1..Len(t) : w[i] = t[k]
    BY <1>3, <2>1, <2>2, JoinedAt
  <2>4. i \in 1..4 /\ a[i] = "add"
    BY <1>2, <1>5, <1>6, <2>3 DEF NoAdd
  <2>5. i \in {1, 2, 3, 4}
    BY <2>4
  <2> QED BY <1>5, <2>4, <2>5
<1>7. ASSUME NEW i \in 1..Len(w) PROVE ShapedAt(w, i)
  <2>1. PartAt(w, i)
    BY <1>4 DEF Part
  <2> QED BY <1>6, <2>1 DEF PartAt, ShapedAt
<1> QED BY <1>3, <1>4, <1>7 DEF Shaped

LEMMA RepairSound ==
  ASSUME TInv, NEW p \in Procs, Sound(req[p]), Repair(p)
  PROVE  Sound(req[p])'
<1>1. Doing(p, "repair") /\ UNCHANGED account /\ UNCHANGED roleCache
  BY DEF Repair, identityVars, cacheVars
<1>2. PICK o : o = req[p] /\ Underway(o) /\ Head(o.todo) = "repair"
  BY <1>1, UnderwayIf
<1>3. SameRoles
  BY <1>1, SameIf
<1>4. CASE o.roles # {}
  <2>1. Proceed(p) /\ "repair" \notin Knowing
    BY <1>2, <1>4 DEF Repair, Knowing, Founders
  <2> QED BY <1>1, <1>3, <2>1, SoundProceeds
<1>5. CASE o.roles = {}
  <2>1. PICK t \in {<<>>, <<"getRoles">>} :
          Set(p, [o EXCEPT !.role = "customer", !.todo = AddRole \o t])
    BY <1>2, <1>5 DEF Repair
  <2>2. PICK s : s = [o EXCEPT !.role = "customer", !.todo = AddRole \o t]
    OBVIOUS
  <2>3. s.todo = AddRole \o t /\ s.user = o.user
    BY <1>2, <2>2 DEF Underway, ReqType
  <2>4. o.user \in Users
    BY <1>1, <1>2, HeadIs DEF TInv, AccountCalls, Held
  <2>5. account[o.user].roles = {}
    BY <1>2, <1>5 DEF Underway, Sound, Known
  <2>6. Bare(s.user)'
    BY <1>1, <2>3, <2>4, <2>5 DEF Bare
  <2>7. Part(s.todo) /\ Shaped(s.todo)
    BY <2>3, RepairShaped
  <2>8. Known(s)'
    <3>1. s.todo # <<>> => s.todo[1] \notin {"drop", "setRoles", "repair"}
      <4>1. s.todo # <<>> => 1 \in 1..Len(s.todo)
        BY <2>7 DEF Part
      <4>2. ~(1 > 1)
        OBVIOUS
      <4> QED BY <2>7, <4>1, <4>2 DEF Part, PartAt
    <3>2. s.todo # <<>> => Head(s.todo) = s.todo[1]
      BY <2>7, RestOf DEF Part
    <3> QED BY <3>1, <3>2 DEF Known
  <2>9. CacheTrue' /\ AtMostOne'
    BY <1>2, <1>3, CacheIs, SameKnown DEF Underway, Sound
  <2>10. Sound(s)'
    BY <2>6, <2>7, <2>8, <2>9 DEF Sound, Ready
  <2> QED BY <2>1, <2>2, <2>10, SoundSet DEF TInv
<1> QED BY <1>4, <1>5

\* What leaves the roles alone: other reads, and the calls of a ban and of a synchronisation.
LEMMA PlainSound ==
  ASSUME TInv, NEW p \in Procs, Sound(req[p]),
         \/ SetFirst(p) \/ SetList(p) \/ ClearLists(p) \/ ClearUsers(p) \/ CheckMail(p) \/ FindName(p)
         \/ UpdateRow(p) \/ InsertRow(p) \/ Patch(p) \/ Activate(p) \/ Deactivate(p)
  PROVE  Sound(req[p])'
<1>1. PICK o : o = req[p] /\ o \in ReqType
  BY DEF TInv, RequestsOK
<1>2. account \in [Users -> {NoAccount} \cup AccountType]
  BY DEF TInv, Stored, TablesOK
<1>3. CASE SetFirst(p) \/ SetList(p) \/ ClearLists(p) \/ ClearUsers(p)
  <2>1. PICK c \in {"setFirst", "setList", "clearLists", "clearUsers"} : Doing(p, c) /\ Proceed(p)
    BY <1>3 DEF SetFirst, SetList, ClearLists, ClearUsers
  <2>2. UNCHANGED account /\ UNCHANGED roleCache
    BY <1>3 DEF SetFirst, SetList, ClearLists, ClearUsers, identityVars
  <2>3. c \notin Knowing
    BY DEF Knowing, Founders
  <2> QED BY <2>1, <2>2, <2>3, SameIf, SoundProceeds
<1>4. CASE CheckMail(p) \/ FindName(p) \/ UpdateRow(p) \/ InsertRow(p)
  <2>1. PICK c \in {"checkMail", "findName", "updateRow", "insertRow"} :
          Doing(p, c) /\ (Proceed(p) \/ Stop(p))
    BY <1>4 DEF CheckMail, FindName, UpdateRow, InsertRow
  <2>2. UNCHANGED account /\ UNCHANGED roleCache
    BY <1>4 DEF CheckMail, FindName, UpdateRow, InsertRow, identityVars, cacheVars
  <2>3. c \notin Knowing /\ c \notin {"drop", "clearLists", "clearRoles"}
    BY DEF Knowing, Founders
  <2> QED BY <2>1, <2>2, <2>3, SameIf, SoundProceeds, SoundStops
<1>5. CASE Patch(p) \/ Activate(p) \/ Deactivate(p)
  <2>1. PICK c \in {"patch", "activate", "deactivate"} : Doing(p, c) /\ Proceed(p)
    BY <1>5 DEF Patch, Activate, Deactivate
  <2>2. c \notin Knowing /\ c \in AccountCalls
    BY DEF Knowing, Founders, AccountCalls
  <2>3. o.user \in Users
    BY <1>1, <2>1, <2>2, HeadIs DEF TInv, Held
  <2>4. \A u \in Users : account'[u].roles = account[u].roles
    <3>1. PICK m, a : account' = [account EXCEPT ![o.user] = [account[o.user] EXCEPT !.mail = m, !.active = a]]
      <4>1. CASE Patch(p)
        <5>1. PICK m, a : m = (IF o.mail = None THEN account[o.user].mail ELSE o.mail)
                          /\ a = (IF o.active = None THEN account[o.user].active ELSE o.active)
          OBVIOUS
        <5>2. account' = [account EXCEPT ![o.user] = [account[o.user] EXCEPT !.mail = m, !.active = a]]
          BY <1>1, <4>1, <5>1 DEF Patch
        <5> QED BY <5>2
      <4>2. CASE Activate(p) \/ Deactivate(p)
        <5>1. PICK a : account' = [account EXCEPT ![o.user].active = a]
          BY <1>1, <4>2 DEF Activate, Deactivate
        <5>2. account[o.user] = [account[o.user] EXCEPT !.mail = account[o.user].mail]
          BY <1>2, <2>3 DEF NoAccount, AccountType
        <5>3. account' = [account EXCEPT ![o.user] =
                            [account[o.user] EXCEPT !.mail = account[o.user].mail, !.active = a]]
          BY <5>1, <5>2
        <5> QED BY <5>3
      <4> QED BY <1>5, <4>1, <4>2
    <3> QED BY <1>2, <2>3, <3>1 DEF NoAccount, AccountType
  <2>5. UNCHANGED roleCache
    BY <1>5 DEF Patch, Activate, Deactivate, cacheVars
  <2> QED BY <2>1, <2>2, <2>4, <2>5, SoundProceeds DEF SameRoles
<1> QED BY <1>3, <1>4, <1>5

LEMMA FindRoleSound ==
  ASSUME TInv, NEW p \in Procs, Sound(req[p]), FindRole(p)
  PROVE  Sound(req[p])'
<1>1. Doing(p, "findRole") /\ UNCHANGED account /\ UNCHANGED roleCache
  BY DEF FindRole, identityVars, cacheVars
<1>2. PICK o : o = req[p] /\ o \in ReqType
  BY DEF TInv, RequestsOK
<1>3. SameRoles /\ "findRole" \notin Knowing
  BY <1>1, SameIf DEF Knowing, Founders
<1>4. CASE Proceed(p)
  BY <1>1, <1>3, <1>4, SoundProceeds
<1>5. CASE ~Proceed(p)
  <2>1. PICK U : U = {u \in Users : o.role \in account[u].roles}
    OBVIOUS
  <2>2. PICK s : s = [o EXCEPT !.users = U, !.todo = <<"setList">>]
    OBVIOUS
  <2>3. Set(p, s) /\ s.todo = <<"setList">>
    BY <1>2, <1>5, <2>1, <2>2 DEF FindRole, ReqType
  <2> QED BY <1>1, <1>3, <2>3, FitsShort, SoundAnew
<1> QED BY <1>4, <1>5

\* A ban goes on with the calls of a ban.
LEMMA BanSound ==
  ASSUME TInv, NEW p \in Procs, Sound(req[p]),
         ListSessions(p) \/ ListTokens(p) \/ EndSession(p) \/ Revoke(p)
  PROVE  Sound(req[p])'
<1>1. PICK c \in BanOnly : Doing(p, c)
  BY DEF ListSessions, ListTokens, EndSession, Revoke, BanOnly
<1>2. UNCHANGED account /\ UNCHANGED roleCache
  BY DEF ListSessions, ListTokens, EndSession, Revoke, identityVars, cacheVars
<1>3. SameRoles /\ c \notin Knowing /\ c \notin {"drop", "clearLists", "clearRoles"}
  BY <1>2, SameIf DEF Knowing, Founders, BanOnly
<1>4. PICK o : o = req[p] /\ Underway(o) /\ Head(o.todo) = c
  BY <1>1, UnderwayIf
<1>5. PICK t : t = Tail(o.todo) /\ t \in Seq(BanCalls) /\ t = Rest(p)
  <2>1. o.todo \in Seq(Calls) /\ o.todo # <<>> /\ Shaped(o.todo)
    BY <1>4 DEF Underway, Sound
  <2> QED BY <1>4, <2>1, ShapedRest DEF Rest
<1>6. ASSUME NEW s, Set(p, s), s.todo \in Seq(BanCalls) PROVE Sound(req[p])'
  <2>1. Fits(s.todo)
    BY <1>6 DEF Fits
  <2> QED BY <1>1, <1>3, <1>6, <2>1, SoundAnew
<1>7. ASSUME NEW d \in {"endSession", "revoke"}, NEW I, IsFiniteSet(I),
             Set(p, [o EXCEPT !.ids = I, !.todo = Each(d, I) \o Rest(p)])
      PROVE  Sound(req[p])'
  <2>1. PICK s : s = [o EXCEPT !.ids = I, !.todo = Each(d, I) \o Rest(p)]
    OBVIOUS
  <2>2. d \in BanCalls
    BY DEF BanCalls
  <2>3. Each(d, I) \in Seq(BanCalls)
    BY <1>7, <2>2, EachIs
  <2>4. Each(d, I) \o t \in Seq(BanCalls)
    BY <1>5, <2>3, Joined
  <2>5. s.todo = Each(d, I) \o t
    BY <1>4, <1>5, <2>1 DEF Underway, ReqType
  <2> QED BY <1>6, <1>7, <2>1, <2>4, <2>5
<1>8. ASSUME NEW i, Set(p, [o EXCEPT !.ids = @ \ {i}, !.todo = Rest(p)])
      PROVE  Sound(req[p])'
  <2>1. PICK s : s = [o EXCEPT !.ids = @ \ {i}, !.todo = Rest(p)]
    OBVIOUS
  <2>2. s.todo = t
    BY <1>4, <1>5, <2>1 DEF Underway, ReqType
  <2> QED BY <1>5, <1>6, <1>8, <2>1, <2>2
<1>9. CASE Stop(p)
  BY <1>1, <1>3, <1>9, SoundStops
<1>10. CASE ListSessions(p) \/ ListTokens(p)
  <2>1. o.user \in Users
    <3>1. c \in AccountCalls
      BY DEF BanOnly, AccountCalls
    <3> QED BY <1>1, <1>4, <3>1, HeadIs DEF TInv, Held
  <2>2. \A I \in SUBSET Sessions : IsFiniteSet(I)
    BY AccountsAssumption, FS_Subset
  <2>3. PICK S, T : S = sessions[o.user] /\ T = tokens[o.user]
    OBVIOUS
  <2>4. IsFiniteSet(S) /\ IsFiniteSet(T)
    BY <2>1, <2>2, <2>3 DEF TInv, Stored, TablesOK
  <2>5. \/ Set(p, [o EXCEPT !.ids = S, !.todo = Each("endSession", S) \o Rest(p)])
        \/ Set(p, [o EXCEPT !.ids = T, !.todo = Each("revoke", T) \o Rest(p)])
    BY <1>4, <1>10, <2>3 DEF ListSessions, ListTokens
  <2> QED BY <1>7, <2>4, <2>5
<1>11. CASE EndSession(p) \/ Revoke(p)
  <2>1. Stop(p) \/ \E i \in o.ids : Set(p, [o EXCEPT !.ids = @ \ {i}, !.todo = Rest(p)])
    BY <1>4, <1>11 DEF EndSession, Revoke
  <2> QED BY <1>8, <1>9, <2>1
<1> QED BY <1>10, <1>11

LEMMA SyncSound ==
  ASSUME TInv, NEW p \in Procs, Sound(req[p]), Sync(p)
  PROVE  Sound(req[p])'
<1>1. PICK c \in {"countUsers", "countRows", "findUsers", "rowOfUser", "findRows", "nextRow"} : Doing(p, c)
  BY DEF Sync, CountUsers, CountRows, FindUsers, RowOfUser, FindRows, NextRow
<1>2. UNCHANGED account /\ UNCHANGED roleCache
  BY DEF Sync, CountUsers, CountRows, FindUsers, RowOfUser, FindRows, NextRow, identityVars, cacheVars
<1>3. SameRoles /\ c \notin Knowing /\ c \notin {"drop", "clearLists", "clearRoles"}
  BY <1>2, SameIf DEF Knowing, Founders
<1>4. PICK o : o = req[p] /\ o \in ReqType
  BY DEF TInv, RequestsOK
<1>5. ASSUME NEW s, Set(p, s), Fits(s.todo) PROVE Sound(req[p])'
  BY <1>1, <1>3, <1>5, SoundAnew
<1>6. ASSUME NEW U, NEW t, Fits(t), Set(p, [o EXCEPT !.users = U, !.todo = t])
      PROVE  Sound(req[p])'
  <2>1. PICK s : s = [o EXCEPT !.users = U, !.todo = t]
    OBVIOUS
  <2>2. s.todo = t
    BY <1>4, <2>1 DEF ReqType
  <2> QED BY <1>5, <1>6, <2>1, <2>2
<1>7. CASE CountUsers(p) \/ FindRows(p)
  <2>1. \E U : \/ Set(p, [o EXCEPT !.users = U, !.todo = <<"countRows">>])
               \/ Set(p, [o EXCEPT !.users = U, !.todo = <<"nextRow">>])
    BY <1>4, <1>7 DEF CountUsers, FindRows
  <2> QED BY <1>6, <2>1, FitsShort
<1>8. CASE CountRows(p)
  <2>1. Then(p, <<"findUsers">>) \/ Then(p, <<"findRows">>)
    BY <1>8 DEF CountRows
  <2> QED BY <1>1, <1>3, <2>1, FitsShort, SoundThen
<1>9. CASE FindUsers(p)
  <2>1. PICK U : U = IF listCache["all"] # None THEN listCache["all"] ELSE Accounts
    OBVIOUS
  <2>2. Set(p, [o EXCEPT !.users = U, !.todo = Each("rowOfUser", U)])
    BY <1>4, <1>9, <2>1 DEF FindUsers
  <2>3. IsFiniteSet(U)
    <3>1. U \subseteq Users
      BY <2>1 DEF TInv, Stored, AllOK, Accounts
    <3> QED BY <3>1, AccountsAssumption, FS_Subset
  <2>4. "rowOfUser" \in Silent
    BY DEF Silent, Calls, Changing, BanOnly
  <2>5. Each("rowOfUser", U) \in Seq(Silent)
    BY <2>3, <2>4, EachIs
  <2>6. Fits(Each("rowOfUser", U))
    BY <2>5, QuietSilent, QuietGives DEF Fits
  <2> QED BY <1>6, <2>2, <2>6
<1>10. CASE RowOfUser(p)
  <2>1. Doing(p, "rowOfUser") /\ "rowOfUser" \notin Knowing
    BY <1>10 DEF RowOfUser, Knowing, Founders
  <2>2. PICK u \in o.users : Set(p, [o EXCEPT !.users = @ \ {u}, !.todo = Rest(p)])
    BY <1>4, <1>10 DEF RowOfUser
  <2>3. PICK s : s = [o EXCEPT !.users = @ \ {u}, !.todo = Rest(p)]
    OBVIOUS
  <2>4. s.todo = Rest(p) /\ s.user = o.user
    BY <1>4, <2>3 DEF ReqType
  <2> QED BY <1>3, <1>4, <2>1, <2>2, <2>3, <2>4, SoundGoesOn
<1>11. CASE NextRow(p)
  <2>1. Doing(p, "nextRow")
    BY <1>11 DEF NextRow
  <2>2. CASE Then(p, <<>>)
    BY <1>1, <1>3, <2>2, FitsShort, SoundThen
  <2>3. ASSUME NEW u, Set(p, [o EXCEPT !.users = @ \ {u}]) PROVE Sound(req[p])'
    <3>1. PICK s : s = [o EXCEPT !.users = @ \ {u}]
      OBVIOUS
    <3>2. s.todo = o.todo /\ s.user = o.user /\ s.roles = o.roles
      BY <1>4, <3>1 DEF ReqType
    <3>3. Sound(s)'
      <4>1. Underway(o) /\ Head(o.todo) = "nextRow"
        BY <1>4, <2>1, UnderwayIf
      <4>2. Known(s)'
        BY <3>2, <4>1 DEF Known
      <4>3. Ready(s)'
        BY <1>3, <3>2, <4>1, SameKnown DEF Underway, Sound, Ready
      <4> QED BY <1>3, <3>2, <4>1, <4>2, <4>3, SameKnown DEF Underway, Sound
    <3> QED BY <2>3, <3>1, <3>3, SoundSet DEF TInv
  <2>4. ASSUME NEW u, NEW m, Set(p, [o EXCEPT !.users = @ \ {u}, !.name = m, !.mail = m,
                               !.role = "customer", !.todo = Upsert \o <<"nextRow">>])
        PROVE  Sound(req[p])'
    <3>1. PICK s : s = [o EXCEPT !.users = @ \ {u}, !.name = m, !.mail = m,
                                 !.role = "customer", !.todo = Upsert \o <<"nextRow">>]
      OBVIOUS
    <3>2. s.todo = Upsert \o <<"nextRow">>
      BY <1>4, <3>1 DEF ReqType
    <3> QED BY <1>5, <2>4, <3>1, <3>2, FitsShort
  <2> QED BY <1>4, <1>11, <2>2, <2>3, <2>4 DEF NextRow
<1> QED BY <1>7, <1>8, <1>9, <1>10, <1>11 DEF Sync

-----------------------------------------------------------------------------
(* The invariant *)

LEMMA WorkSound ==
  ASSUME TInv, NEW p \in Procs, Sound(req[p]), Work(p)
  PROVE  Sound(req[p])'
<1>1. CASE Read(p)
  BY <1>1, FindFirstSound, GetRolesSound, SetRolesSound, RepairSound, FindRoleSound, PlainSound DEF Read
<1>2. CASE ClearCache(p)
  BY <1>2, ClearRolesSound, PlainSound DEF ClearCache
<1>3. CASE Change(p)
  BY <1>3, InsertSound, AddSound, LoadRolesSound, DropSound, RemoveRoleSound, PlainSound DEF Change
<1>4. CASE BanStep(p)
  BY <1>4, PlainSound, BanSound DEF BanStep
<1> QED BY <1>1, <1>2, <1>3, <1>4, SyncSound DEF Work

\* While a request does nothing the roles it knows of stay.
LEMMA SoundKept ==
  ASSUME TInv, SameRoles \/ (UNCHANGED account /\ CacheTrue'), NEW p \in Procs, Sound(req[p]),
         UNCHANGED req
  PROVE  Sound(req[p])'
<1>1. PICK o : o = req[p] /\ o \in ReqType /\ o.todo \in Seq(Calls) /\ req'[p] = o
  BY DEF TInv, RequestsOK, ReqType
<1>2. Known(o)'
  <2> SUFFICES ASSUME o.todo # <<>>, Head(o.todo) \in {"drop", "setRoles", "repair"}
               PROVE  o.roles = account'[o.user].roles
    BY DEF Known
  <2>1. o.roles = account[o.user].roles
    BY <1>1 DEF Sound, Known
  <2>2. Doing(p, Head(o.todo)) /\ Head(o.todo) \in AccountCalls
    BY <1>1 DEF Doing, AccountCalls
  <2>3. o.user \in Users
    BY <1>1, <2>2, HeadIs DEF TInv, Held
  <2> QED BY <2>1, <2>3 DEF SameRoles
<1>3. AtMostOne' /\ (CacheTrue => CacheTrue') /\ \A u : Bare(u) => Bare(u)'
  <2>1. CASE SameRoles
    BY <1>1, <2>1, SameKnown DEF Sound
  <2>2. CASE UNCHANGED account /\ CacheTrue'
    BY <1>1, <2>2 DEF Sound, AtMostOne, Bare
  <2> QED BY <2>1, <2>2
<1>4. Ready(o)'
  BY <1>1, <1>3 DEF Sound, Ready
<1>5. Sound(o)'
  BY <1>1, <1>2, <1>3, <1>4 DEF Sound
<1> QED BY <1>1, <1>5

LEMMA UserSame ==
  ASSUME TInv, NEW u \in Users,
         \/ Register(u) \/ SignIn(u) \/ SignOut(u) \/ Authorize(u) \/ Refresh(u)
         \/ AccessExpires(u) \/ Visit(u) \/ ExpireUser(u)
  PROVE  SameRoles /\ UNCHANGED req
<1>1. UNCHANGED req /\ UNCHANGED roleCache
  BY DEF Register, SignIn, SignOut, Authorize, Refresh, AccessExpires, Visit, ExpireUser, cacheVars
<1>2. CASE Register(u)
  <2>1. account \in [Users -> {NoAccount} \cup AccountType] /\ account[u] = NoAccount
    BY <1>2 DEF TInv, Stored, TablesOK, Register, HasAccount
  <2>2. PICK n, m : account' = [account EXCEPT ![u] =
                      [name |-> n, mail |-> m, active |-> TRUE, roles |-> {}]]
    BY <1>2 DEF Register
  <2>3. \A v \in Users : account'[v].roles = account[v].roles
    BY <2>1, <2>2 DEF NoAccount
  <2> QED BY <1>1, <2>3 DEF SameRoles
<1>3. CASE ~Register(u)
  <2>1. UNCHANGED account
    BY <1>3 DEF SignIn, SignOut, Authorize, Refresh, AccessExpires, Visit, ExpireUser, identityVars
  <2> QED BY <1>1, <2>1, SameIf
<1> QED BY <1>2, <1>3

LEMMA ExpireRolesSound ==
  ASSUME TInv, NEW p \in Procs, Sound(req[p]), NEW u \in Users, ExpireRoles(u)
  PROVE  Sound(req[p])'
<1>1. UNCHANGED account /\ UNCHANGED req
  BY DEF ExpireRoles, identityVars
<1>2. CacheTrue => CacheTrue'
  <2>1. \A v \in Users : roleCache'[v] = IF v = u THEN None ELSE roleCache[v]
    BY DEF ExpireRoles, TInv, Stored, CachesOK
  <2> QED BY <1>1, <2>1 DEF CacheTrue
<1>3. CASE CacheTrue
  BY <1>1, <1>2, <1>3, SoundKept
<1>4. CASE ~CacheTrue
  <2>1. PICK o : o = req[p] /\ req'[p] = o
    BY <1>1
  <2>2. Clears(o.todo, 1)
    BY <1>4, <2>1 DEF Sound
  <2>3. AtMostOne' /\ Ready(o)' /\ Known(o)'
    BY <1>1, <2>1 DEF Sound, AtMostOne, Ready, Bare, Known
  <2>4. Sound(o)'
    BY <2>1, <2>2, <2>3 DEF Sound
  <2> QED BY <2>1, <2>4
<1> QED BY <1>3, <1>4

\* What a request begins with is sound when the request before it was done.
LEMMA RequestSound ==
  ASSUME TInv, NEW p \in Procs, Sound(req[p]), Request(p)
  PROVE  Sound(req[p])'
<1>1. PICK kind, todo : \E r \in ReqType : Begin(p, kind, todo, r) /\ Fits(todo)
  BY RequestFits DEF Fitting
<1>2. PICK r \in ReqType : Begin(p, kind, todo, r) /\ Fits(todo)
  BY <1>1
<1>3. PICK s : s = [r EXCEPT !.kind = kind, !.todo = todo]
  OBVIOUS
<1>4. s.todo = todo /\ req'[p] = s /\ req[p] = Idle
  BY <1>2, <1>3 DEF Begin, ReqType, TInv, RequestsOK
<1>5. ~Clears(<<>>, 1) /\ Idle.todo = <<>>
  BY DEF Clears, Idle
<1>6. AtMostOne /\ CacheTrue
  BY <1>4, <1>5 DEF Sound
<1>7. SameRoles
  BY SameIf DEF Request, identityVars, cacheVars
<1>8. AtMostOne' /\ CacheTrue'
  BY <1>6, <1>7, SameKnown
<1>9. Sound(s)'
  BY <1>2, <1>4, <1>8, FitsSound
<1> QED BY <1>4, <1>9

\* Whoever works has something to do.
LEMMA WorkIs ==
  ASSUME NEW p \in Procs, Work(p) \/ Fail(p)
  PROVE  req[p] # Idle
<1>1. ASSUME NEW c, Doing(p, c) PROVE req[p].todo # <<>>
  BY <1>1 DEF Doing
<1>2. Read(p) => \E c : Doing(p, c)
  BY DEF Read, FindFirst, SetFirst, GetRoles, SetRoles, Repair, FindRole, SetList
<1>3. ClearCache(p) => \E c : Doing(p, c)
  BY DEF ClearCache, ClearLists, ClearRoles, ClearUsers
<1>4. Change(p) => \E c : Doing(p, c)
  BY DEF Change, CheckMail, FindName, Insert, Add, LoadRoles, Drop, RemoveRole, Patch, UpdateRow,
     InsertRow
<1>5. BanStep(p) => \E c : Doing(p, c)
  BY DEF BanStep, Activate, Deactivate, ListSessions, ListTokens, EndSession, Revoke
<1>6. Sync(p) => \E c : Doing(p, c)
  BY DEF Sync, CountUsers, CountRows, FindUsers, RowOfUser, FindRows, NextRow
<1>7. req[p].todo # <<>>
  BY <1>1, <1>2, <1>3, <1>4, <1>5, <1>6 DEF Work, Fail
<1> QED BY <1>7 DEF Idle

\* Requests are made by those that the setting lets make them.
LEMMA AloneNext ==
  ASSUME TInv, Alone, [Next]_vars
  PROVE  Alone' /\ UNCHANGED setting
<1>1. UNCHANGED setting
  <2>1. ASSUME NEW p \in Procs, Request(p) \/ Work(p) \/ Fail(p) PROVE UNCHANGED setting
    <3>1. Request(p) \/ Fail(p) => UNCHANGED setting
      BY DEF Request, Fail
    <3>2. Read(p) \/ ClearCache(p) => UNCHANGED setting
      BY DEF Read, FindFirst, SetFirst, GetRoles, SetRoles, Repair, FindRole, SetList,
         ClearCache, ClearLists, ClearRoles, ClearUsers
    <3>3. Change(p) => UNCHANGED setting
      BY DEF Change, CheckMail, FindName, Insert, Add, LoadRoles, Drop, RemoveRole, Patch, UpdateRow,
         InsertRow
    <3>4. BanStep(p) => UNCHANGED setting
      BY DEF BanStep, Activate, Deactivate, ListSessions, ListTokens, EndSession, Revoke
    <3>5. Sync(p) => UNCHANGED setting
      BY DEF Sync, CountUsers, CountRows, FindUsers, RowOfUser, FindRows, NextRow
    <3> QED BY <2>1, <3>1, <3>2, <3>3, <3>4, <3>5 DEF Work
  <2>2. ASSUME NEW u \in Users,
               \/ Register(u) \/ SignIn(u) \/ SignOut(u) \/ Authorize(u) \/ Refresh(u)
               \/ AccessExpires(u) \/ Visit(u) \/ ExpireUser(u) \/ ExpireRoles(u)
        PROVE  UNCHANGED setting
    BY <2>2 DEF Register, SignIn, SignOut, Authorize, Refresh, AccessExpires, Visit, ExpireUser,
       ExpireRoles
  <2>3. (\E r \in Lists : ExpireList(r)) \/ UNCHANGED vars => UNCHANGED setting
    BY DEF ExpireList, vars
  <2> QED BY <2>1, <2>2, <2>3 DEF Next
<1>2. ASSUME NEW p \in Procs, p \in setting.procs, \A q \in Procs \ {p} : req'[q] = req[q]
      PROVE  Alone'
  BY <1>1, <1>2 DEF Alone
<1>3. ASSUME NEW p \in Procs, Request(p) PROVE Alone'
  <2>1. PICK kind, todo : \E r \in ReqType : Begin(p, kind, todo, r) /\ Fits(todo)
    BY <1>3, RequestFits DEF Fitting
  <2>2. p \in setting.procs /\ \A q \in Procs \ {p} : req'[q] = req[q]
    BY <2>1 DEF Begin, TInv, RequestsOK
  <2> QED BY <1>2, <2>2
<1>4. ASSUME NEW p \in Procs, Work(p) \/ Fail(p) PROVE Alone'
  <2>1. req[p] # Idle
    BY <1>4, WorkIs
  <2>2. p \in setting.procs
    BY <2>1 DEF Alone
  <2>3. Sets(p)
    BY <1>4, KindWork DEF TInv
  <2> QED BY <1>2, <2>2, <2>3 DEF Sets
<1>5. CASE UNCHANGED req
  BY <1>1, <1>5 DEF Alone
<1>6. ASSUME NEW u \in Users,
             \/ Register(u) \/ SignIn(u) \/ SignOut(u) \/ Authorize(u) \/ Refresh(u)
             \/ AccessExpires(u) \/ Visit(u) \/ ExpireUser(u) \/ ExpireRoles(u)
      PROVE  UNCHANGED req
  BY <1>6 DEF Register, SignIn, SignOut, Authorize, Refresh, AccessExpires, Visit, ExpireUser, ExpireRoles
<1>7. ASSUME NEW r \in Lists, ExpireList(r) PROVE UNCHANGED req
  BY <1>7 DEF ExpireList
<1>8. UNCHANGED vars => UNCHANGED req
  BY DEF vars
<1> QED BY <1>1, <1>3, <1>4, <1>5, <1>6, <1>7, <1>8 DEF Next

LEMMA OneProc ==
  ASSUME TInv, Serial
  PROVE  \E p \in Procs : setting.procs = {p} /\ setting.failures = 0
<1>1. setting.procs \subseteq Procs /\ IsFiniteSet(setting.procs)
  BY AccountsAssumption, FS_Subset DEF TInv, Stored, TablesOK
<1>2. PICK p : setting.procs = {p}
  BY <1>1, FS_Singleton DEF Serial
<1> QED BY <1>1, <1>2 DEF Serial

LEMMA RolesNext ==
  ASSUME TInv, RolesOK, [Next]_vars
  PROVE  RolesOK'
<1>1. Alone' /\ UNCHANGED setting
  BY AloneNext DEF RolesOK
<1> SUFFICES ASSUME Serial PROVE \A q \in setting.procs : Sound(req[q])'
  BY <1>1 DEF RolesOK, Serial
<1>2. PICK p \in Procs : setting.procs = {p} /\ setting.failures = 0
  BY OneProc
<1>3. Sound(req[p])
  BY <1>2 DEF RolesOK
<1> SUFFICES Sound(req[p])'
  BY <1>2
<1>4. ASSUME NEW q \in Procs, Request(q) \/ Work(q) \/ Fail(q) PROVE Sound(req[p])'
  <2>1. CASE Request(q)
    <3>1. q \in setting.procs
      BY <2>1, RequestFits DEF Fitting, Begin
    <3> QED BY <1>2, <1>3, <2>1, <3>1, RequestSound
  <2>2. CASE Work(q)
    <3>1. req[q] # Idle
      BY <2>2, WorkIs
    <3>2. q = p
      BY <1>2, <3>1 DEF RolesOK, Alone
    <3> QED BY <1>3, <2>2, <3>2, WorkSound
  <2>3. ~Fail(q)
    BY <1>2 DEF Fail, TInv
  <2> QED BY <1>4, <2>1, <2>2, <2>3
<1>5. ASSUME NEW u \in Users,
             \/ Register(u) \/ SignIn(u) \/ SignOut(u) \/ Authorize(u) \/ Refresh(u)
             \/ AccessExpires(u) \/ Visit(u) \/ ExpireUser(u) \/ ExpireRoles(u)
      PROVE  Sound(req[p])'
  <2>1. CASE ExpireRoles(u)
    BY <1>3, <2>1, ExpireRolesSound
  <2>2. CASE ~ExpireRoles(u)
    <3>1. SameRoles /\ UNCHANGED req
      BY <1>5, <2>2, UserSame
    <3> QED BY <1>3, <3>1, SoundKept
  <2> QED BY <2>1, <2>2
<1>6. CASE UNCHANGED vars \/ \E r \in Lists : ExpireList(r)
  <2>1. UNCHANGED req /\ UNCHANGED account /\ UNCHANGED roleCache
    BY <1>6 DEF vars, ExpireList, identityVars, cacheVars
  <2> QED BY <1>3, <2>1, SameIf, SoundKept
<1> QED BY <1>4, <1>5, <1>6 DEF Next

LEMMA RolesInit == Init => RolesOK
<1> SUFFICES ASSUME Init PROVE RolesOK
  OBVIOUS
<1>1. TInv
  BY StoredInit
<1>2. Alone
  BY DEF Init, Alone
<1>3. ASSUME NEW p \in setting.procs PROVE Sound(req[p])
  <2>1. p \in Procs /\ req[p] = Idle
    BY AccountsAssumption DEF Init
  <2>2. Idle.todo = <<>>
    BY DEF Idle
  <2>3. Shaped(<<>>)
    BY DEF Shaped
  <2>4. AtMostOne /\ CacheTrue
    BY DEF Init, AtMostOne, CacheTrue, NoAccount
  <2> QED BY <2>1, <2>2, <2>3, <2>4 DEF Sound, Ready, Known
<1> QED BY <1>2, <1>3 DEF RolesOK

\* With one request at a time, and no failures, every account has at most one role, whichever
\* requests there are and in whatever order: createUser, the repair of an account without a
\* role, updateRole and the upgrade of a user leave none of the roles that they found.
THEOREM OneRoleEach == Spec => []OneRole
<1>1. TInv /\ RolesOK /\ [Next]_vars => RolesOK'
  BY RolesNext
<1>2. TInv /\ RolesOK => OneRole
  <2> SUFFICES ASSUME TInv, RolesOK, Serial, NEW u \in Users
               PROVE  Cardinality(account[u].roles) <= 1
    BY DEF OneRole
  <2>1. PICK p \in Procs : setting.procs = {p}
    BY OneProc
  <2>2. AtMostOne
    BY <2>1 DEF RolesOK, Sound
  <2>3. CASE account[u].roles = {}
    BY <2>3, FS_EmptySet
  <2>4. ASSUME NEW x \in account[u].roles PROVE Cardinality(account[u].roles) <= 1
    <3>1. account[u].roles = {x}
      BY <2>2 DEF AtMostOne
    <3>2. Cardinality({x}) = 1
      BY FS_Singleton
    <3> QED BY <3>1, <3>2
  <2> QED BY <2>3, <2>4
<1> QED BY <1>1, <1>2, RolesInit, AccountsStored, PTL DEF Spec
=============================================================================
