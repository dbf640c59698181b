--------------------------- MODULE Records_proofs ---------------------------
(***************************************************************************)
(* What is kept about people and about printers (the modules Workspace,    *)
(* SlicerSession and PrinterStatus), for any number of them, and what is   *)
(* shown of an assembly (the module SceneView), for any number of parts.   *)
(*                                                                         *)
(* The first part is about accounts: what the invariant adds to the        *)
(* property is that the index of addresses has no entry of its own. Then   *)
(* comes the permission of a user, which is a fold over teams in the order *)
(* of a hash map; then the printers: their list, the keychain and the      *)
(* calls that are under way; then what is shown of a printer; and last the *)
(* scene on the screen: a plane of the frustum is a linear form, and such  *)
(* a form is as much at some corner of a box as at any point of it.        *)
(***************************************************************************)
EXTENDS SlicerSession, Workspace, PrinterStatus, SceneView, Induction, SequenceTheorems, FiniteSetTheorems, TLAPS

--------------------------------------------------------------------------
(* Accounts.                                                               *)

\* No salt has the character that ends it in the stored text.
PlainSalts == \A salt \in Salt : \A i \in 1..Len(salt) : salt[i] # Dollar

\* The salt of a stored text is the one that was stored.
LEMMA SaltIsKept ==
  ASSUME PlainSalts, NEW salt \in Salt, NEW text, text = Append(salt, Dollar)
  PROVE  FirstDollar(text) = Len(text) /\ SaltOf(text) = salt
<1> DEFINE Char == STRING \cup {Dollar}
<1>1. salt \in Seq(Char) /\ Dollar \in Char
  BY WorkspaceAssumption
<1> HIDE DEF Char
<1>2. PICK n \in Nat : n = Len(salt)
  BY <1>1
<1>3. /\ text \in Seq(Char) /\ Len(text) = n + 1 /\ text[n + 1] = Dollar
      /\ \A i \in 1..n : text[i] = salt[i]
  <2> HIDE DEF Dollar
  <2>1. /\ Append(salt, Dollar) \in Seq(Char) /\ Len(Append(salt, Dollar)) = Len(salt) + 1
        /\ Append(salt, Dollar)[Len(salt) + 1] = Dollar
        /\ \A i \in 1..Len(salt) : Append(salt, Dollar)[i] = salt[i]
    BY <1>1, AppendProperties
  <2> QED BY <1>2, <2>1
<1>4. \A i \in 1..n : text[i] # Dollar
  BY <1>2, <1>3 DEF PlainSalts
<1>5. {i \in 1..(n + 1) : text[i] = Dollar} = {n + 1}
  BY <1>3, <1>4
<1>6. Min({n + 1}) = n + 1
  BY DEF Min
<1>7. FirstDollar(text) = n + 1
  BY <1>3, <1>5, <1>6 DEF FirstDollar, SelectInSeq
<1>8. SaltOf(text) = SubSeq(text, 1, n)
  <2>1. (n + 1) - 1 = n
    OBVIOUS
  <2> QED BY <1>7, <2>1, Zenon DEF SaltOf
<1>9. SubSeq(text, 1, n) = salt
  BY <1>1, <1>2, <1>3
<1> QED BY <1>3, <1>7, <1>8, <1>9

\* A password is verified against a hash exactly if it is the hashed one.
LEMMA HashesVerify ==
  ASSUME PlainSalts, NEW salt \in Salt, NEW chosen, NEW password
  PROVE  VerifyPassword(password, HashPassword(chosen, salt)) <=> password = chosen
<1> DEFINE stored == HashPassword(chosen, salt)
<1>1. stored.text = Append(salt, Dollar) /\ stored.digest = <<chosen, DeriveSalt(salt)>>
  BY DEF HashPassword, Digest
<1>2. FirstDollar(stored.text) = Len(stored.text) /\ SaltOf(stored.text) = salt
  BY <1>1, SaltIsKept
<1> HIDE DEF stored
<1>3. VerifyPassword(password, stored) <=> stored.digest = Digest(password, salt)
  BY <1>2 DEF VerifyPassword
<1>4. VerifyPassword(password, stored) <=> <<chosen, DeriveSalt(salt)>> = <<password, DeriveSalt(salt)>>
  BY <1>1, <1>3 DEF Digest
<1> QED BY <1>4 DEF stored

\* The inductive invariant: an address in the index is that of its account.
AccountsInv ==
    /\ DOMAIN secret = DOMAIN users
    /\ \A u \in DOMAIN users : /\ users[u].email.lower \in DOMAIN index /\ index[users[u].email.lower] = u
                               /\ \E salt \in Salt : users[u].hash = HashPassword(secret[u], salt)
    /\ \A a \in DOMAIN index : index[a] \in DOMAIN users /\ users[index[a]].email.lower = a
    /\ \A s \in DOMAIN sessions : sessions[s] \in DOMAIN users

LEMMA AccountsInit == WorkspaceInit => AccountsInv
BY DEF WorkspaceInit, AccountsInv

LEMMA AccountsStep ==
  ASSUME AccountsInv, [WorkspaceNext]_workspaceVars
  PROVE  AccountsInv'
<1>1. ASSUME NEW id \in User, NEW e \in Spelling, NEW password \in Password, NEW salt \in Salt,
             SignUp(id, e, password, salt)
      PROVE  AccountsInv'
  <2>1. id \notin DOMAIN users /\ UserByEmail(e) = {} /\ sessions' = sessions
    BY <1>1 DEF SignUp
  <2>2. PICK new : new = [email |-> e, hash |-> HashPassword(password, salt)]
    OBVIOUS
  <2>3. users' = Put(users, id, new) /\ index' = Put(index, e.lower, id) /\ secret' = Put(secret, id, password)
    BY <1>1, <2>2 DEF SignUp, Lower
  <2>4. /\ DOMAIN users' = DOMAIN users \cup {id} /\ users'[id] = new
        /\ \A u \in DOMAIN users : users'[u] = users[u]
    BY <2>1, <2>3 DEF Put
  <2>5. /\ DOMAIN secret' = DOMAIN secret \cup {id} /\ secret'[id] = password
        /\ \A u \in DOMAIN users : secret'[u] = secret[u]
    BY <2>1, <2>3 DEF Put, AccountsInv
  <2>6. e.lower \notin DOMAIN index
    BY <2>1 DEF UserByEmail, Lower, AccountsInv
  <2>7. /\ DOMAIN index' = DOMAIN index \cup {e.lower} /\ index'[e.lower] = id
        /\ \A a \in DOMAIN index : index'[a] = index[a]
    BY <2>3, <2>6 DEF Put
  <2>8. new.email.lower = e.lower /\ new.hash = HashPassword(password, salt)
    BY <2>2
  <2>9. \A u \in DOMAIN users' :
            /\ users'[u].email.lower \in DOMAIN index' /\ index'[users'[u].email.lower] = u
            /\ \E s \in Salt : users'[u].hash = HashPassword(secret'[u], s)
    <3>1. ASSUME NEW u \in DOMAIN users'
          PROVE  /\ users'[u].email.lower \in DOMAIN index' /\ index'[users'[u].email.lower] = u
                 /\ \E s \in Salt : users'[u].hash = HashPassword(secret'[u], s)
      <4>1. CASE u = id
        BY <4>1, <2>4, <2>5, <2>7, <2>8
      <4>2. CASE u # id
        <5>1. u \in DOMAIN users
          BY <4>2, <2>4
        <5> QED BY <5>1, <2>4, <2>5, <2>7 DEF AccountsInv
      <4> QED BY <4>1, <4>2
    <3> QED BY <3>1
  <2>10. \A a \in DOMAIN index' : index'[a] \in DOMAIN users' /\ users'[index'[a]].email.lower = a
    <3>1. ASSUME NEW a \in DOMAIN index' PROVE index'[a] \in DOMAIN users' /\ users'[index'[a]].email.lower = a
      <4>1. CASE a = e.lower
        BY <4>1, <2>4, <2>7, <2>8
      <4>2. CASE a # e.lower
        <5>1. a \in DOMAIN index /\ index'[a] = index[a]
          BY <4>2, <2>7
        <5> QED BY <5>1, <2>4 DEF AccountsInv
      <4> QED BY <4>1, <4>2
    <3> QED BY <3>1
  <2> QED BY <2>1, <2>4, <2>5, <2>9, <2>10 DEF AccountsInv
<1>2. ASSUME NEW s \in Session, NEW e \in Spelling, NEW password \in Password, LogIn(s, e, password)
      PROVE  AccountsInv'
  <2>1. users' = users /\ index' = index /\ secret' = secret
    BY <1>2 DEF LogIn
  <2>2. PICK u \in UserByEmail(e) : sessions' = Put(sessions, s, u)
    BY <1>2 DEF LogIn
  <2>3. u \in DOMAIN users
    BY <2>2 DEF UserByEmail
  <2>4. \A t \in DOMAIN sessions' : sessions'[t] \in DOMAIN users
    BY <2>2, <2>3 DEF Put, AccountsInv
  <2> QED BY <2>1, <2>4 DEF AccountsInv
<1>3. ASSUME NEW s \in Session, LogOut(s) PROVE AccountsInv'
  BY <1>3 DEF LogOut, Drop, AccountsInv
<1>4. ASSUME SharingStep \/ UNCHANGED workspaceVars PROVE AccountsInv'
  <2>1. UNCHANGED accounts
    BY <1>4 DEF SharingStep, workspaceVars, CreateOrg, CreateProject, SetMember, RemoveMember, CreateTeam,
                AddToTeam, RemoveFromTeam, ShareWithUser, ShareWithTeam, UnshareUser, UnshareTeam, SetDefault, Change
  <2> QED BY <2>1 DEF accounts, AccountsInv
<1> QED BY <1>1, <1>2, <1>3, <1>4 DEF WorkspaceNext, AccountStep

LEMMA AccountsHold ==
  ASSUME PlainSalts, AccountsInv
  PROVE  AccountsWork
<1>1. AccountsConsistent
  BY DEF AccountsInv, AccountsConsistent, Lower
<1>2. CredentialsWork
  BY HashesVerify DEF AccountsInv, CredentialsWork
<1> QED BY <1>1, <1>2 DEF AccountsWork

\* An address has one account, however it is written, a session is of an
\* account, and whoever signed up logs in with the password chosen then and
\* with no other one: for any users, passwords, sessions and any salts without
\* the separator (sign_up, log_in, hash_password and verify_password).
THEOREM AccountsAlwaysWork ==
  ASSUME PlainSalts
  PROVE  WorkspaceSpec => []AccountsWork
<1>1. WorkspaceInit => AccountsInv
  BY AccountsInit
<1>2. AccountsInv /\ [WorkspaceNext]_workspaceVars => AccountsInv'
  BY AccountsStep
<1>3. AccountsInv => AccountsWork
  BY AccountsHold
<1> QED BY <1>1, <1>2, <1>3, PTL DEF WorkspaceSpec

--------------------------------------------------------------------------
(* The permission of a user.                                               *)

\* What the fold makes of a set s of positions, from what it makes of less.
First(s) == CHOOSE x \in s : TRUE
Combine(levels, base, g, s) ==
    IF s = {} THEN base ELSE Higher(levels[First(s)], g[s \ {First(s)}])

\* There is such a fold of the positions: up to each number of them, there is one.
LEMMA FoldExists ==
  ASSUME NEW S, IsFiniteSet(S), NEW levels, NEW base
  PROVE  \E g : g = [s \in SUBSET S |-> Combine(levels, base, g, s)]
<1> DEFINE Of(n) == {s \in SUBSET S : Cardinality(s) <= n}
           Good == {n \in Nat : \E g : g = [s \in Of(n) |-> Combine(levels, base, g, s)]}
<1>1. \A s \in SUBSET S : IsFiniteSet(s) /\ Cardinality(s) \in Nat
  BY FS_Subset, FS_CardinalityType
<1>2. 0 \in Good
  <2>1. Of(0) = {{}}
    <3>1. \A s \in SUBSET S : Cardinality(s) <= 0 <=> s = {}
      BY <1>1, FS_EmptySet
    <3> QED BY <3>1
  <2> DEFINE g == [s \in Of(0) |-> base]
  <2>2. g = [s \in Of(0) |-> Combine(levels, base, g, s)]
    BY <2>1 DEF Combine
  <2> QED BY <2>2
<1>3. ASSUME NEW n \in Nat, n \in Good PROVE n + 1 \in Good
  <2>1. PICK f : f = [s \in Of(n) |-> Combine(levels, base, f, s)]
    BY <1>3
  <2> DEFINE g == [s \in Of(n + 1) |-> Combine(levels, base, f, s)]
  <2>2. Of(n) \subseteq Of(n + 1)
    BY <1>1
  <2>3. \A s \in Of(n) : g[s] = f[s]
    BY <2>1, <2>2
  <2>4. \A s \in Of(n + 1) : s # {} => s \ {First(s)} \in Of(n)
    <3>1. ASSUME NEW s \in Of(n + 1), s # {} PROVE s \ {First(s)} \in Of(n)
      <4>1. First(s) \in s
        BY <3>1 DEF First
      <4>2. Cardinality(s \ {First(s)}) = Cardinality(s) - 1
        BY <1>1, <4>1, FS_RemoveElement
      <4> QED BY <1>1, <4>2
    <3> QED BY <3>1
  <2>5. \A s \in Of(n + 1) : Combine(levels, base, g, s) = Combine(levels, base, f, s)
    <3> HIDE DEF Of, g
    <3> QED BY <2>3, <2>4 DEF Combine
  <2>6. g = [s \in Of(n + 1) |-> Combine(levels, base, g, s)]
    BY <2>5
  <2>7. n + 1 \in Nat /\ \E h : h = [s \in Of(n + 1) |-> Combine(levels, base, h, s)]
    <3> HIDE DEF Of, g
    <3> QED BY <2>6
  <2> HIDE DEF Of
  <2> QED BY <2>7
<1>4. \A n \in Nat : n \in Good
  <2> HIDE DEF Good
  <2>1. \A n \in Nat : n \in Good => n + 1 \in Good
    BY <1>3
  <2> QED BY <1>2, <2>1, InductionOverSet
<1>5. Of(Cardinality(S)) = SUBSET S
  BY FS_Subset
<1>6. Cardinality(S) \in Good
  <2> HIDE DEF Good
  <2> QED BY <1>4, FS_CardinalityType
<1> QED BY <1>5, <1>6

\* What the fold gives is at least the base and each of the levels, and is one of them.
Highest(levels, base, s, best) ==
    /\ best \in Nat /\ base <= best /\ (\A x \in s : levels[x] <= best)
    /\ best = base \/ \E x \in s : best = levels[x]

LEMMA FoldIsHighest ==
  ASSUME NEW S, IsFiniteSet(S), NEW levels \in [S -> Nat], NEW base \in Nat,
         NEW g, g = [s \in SUBSET S |-> Combine(levels, base, g, s)]
  PROVE  Highest(levels, base, S, g[S])
<1> DEFINE Good == {n \in Nat : \A s \in SUBSET S : Cardinality(s) = n => Highest(levels, base, s, g[s])}
<1>1. \A s \in SUBSET S : IsFiniteSet(s) /\ Cardinality(s) \in Nat
  BY FS_Subset, FS_CardinalityType
<1>2. 0 \in Good
  <2>1. ASSUME NEW s \in SUBSET S, Cardinality(s) = 0 PROVE Highest(levels, base, s, g[s])
    <3>1. s = {}
      BY <1>1, <2>1, FS_EmptySet
    <3>2. g[s] = base
      BY <3>1 DEF Combine
    <3> QED BY <3>1, <3>2 DEF Highest
  <2> QED BY <2>1
<1>3. ASSUME NEW n \in Nat, n \in Good PROVE n + 1 \in Good
  <2>1. ASSUME NEW s \in SUBSET S, Cardinality(s) = n + 1 PROVE Highest(levels, base, s, g[s])
    <3>1. s # {}
      <4>1. Cardinality({}) = 0 /\ n + 1 # 0
        BY FS_EmptySet
      <4> QED BY <2>1, <4>1
    <3>2. PICK x \in s : x = First(s)
      BY <3>1 DEF First
    <3>3. PICK r \in SUBSET S : r = s \ {x}
      OBVIOUS
    <3>4. Cardinality(r) = n
      <4>1. Cardinality(s \ {x}) = Cardinality(s) - 1
        BY <1>1, FS_RemoveElement
      <4> QED BY <2>1, <3>3, <4>1
    <3>5. Highest(levels, base, r, g[r])
      BY <1>3, <3>4
    <3>6. g[s] = Higher(levels[x], g[r])
      BY <3>1, <3>2, <3>3 DEF Combine
    <3>7. PICK level \in Nat : level = levels[x]
      OBVIOUS
    <3>8. PICK best \in Nat : best = g[r]
      BY <3>5 DEF Highest
    <3>9. PICK now \in Nat : now = g[s]
      BY <3>6, <3>7, <3>8 DEF Higher, MaxLevel
    <3>10. now \in {best, level} /\ best <= now /\ level <= now
      BY <3>6, <3>7, <3>8, <3>9 DEF Higher, MaxLevel, None
    <3>11. base <= now /\ (now = base \/ \E y \in s : now = levels[y])
      <4>1. base <= best /\ (best = base \/ \E y \in r : best = levels[y])
        BY <3>5, <3>8 DEF Highest
      <4>2. CASE now = level
        BY <4>1, <4>2, <3>7, <3>10
      <4>3. CASE now = best
        BY <4>1, <4>3, <3>3
      <4> QED BY <4>2, <4>3, <3>10
    <3>12. \A y \in s : levels[y] <= now
      <4>1. ASSUME NEW y \in s PROVE levels[y] <= now
        <5>1. CASE y = x
          BY <5>1, <3>7, <3>10
        <5>2. CASE y # x
          <6>1. y \in r /\ levels[y] \in Nat
            BY <5>2, <3>3
          <6>2. levels[y] <= best
            BY <6>1, <3>5, <3>8 DEF Highest
          <6> QED BY <6>1, <6>2, <3>10
        <5> QED BY <5>1, <5>2
      <4> QED BY <4>1
    <3> QED BY <3>9, <3>11, <3>12 DEF Highest
  <2>2. n + 1 \in Nat
    OBVIOUS
  <2> QED BY <2>1, <2>2
<1>4. \A n \in Nat : n \in Good
  <2> HIDE DEF Good
  <2>1. \A n \in Nat : n \in Good => n + 1 \in Good
    BY <1>3
  <2> QED BY <1>2, <2>1, InductionOverSet
<1>5. Cardinality(S) \in Nat
  BY <1>1
<1> QED BY <1>4, <1>5

LEMMA HighestOfIsHighest ==
  ASSUME NEW n \in Nat, NEW levels \in [1..n -> Nat], NEW base \in Nat
  PROVE  Highest(levels, base, 1..n, HighestOf(base, levels))
<1>1. IsFiniteSet(1..n) /\ DOMAIN levels = 1..n
  BY FS_Interval
<1> DEFINE fold == CHOOSE g : g = [s \in SUBSET (1..n) |-> Combine(levels, base, g, s)]
<1>2. fold = [s \in SUBSET (1..n) |-> Combine(levels, base, fold, s)]
  BY <1>1, FoldExists
<1>3. HighestOf(base, levels) = fold[1..n]
  BY <1>1, Zenon DEF HighestOf, FoldSeq, FoldFunction, FoldFunctionOnSet, MapThenFoldSet, Combine, First
<1> HIDE DEF fold
<1>4. Highest(levels, base, 1..n, fold[1..n])
  BY <1>1, <1>2, FoldIsHighest
<1> QED BY <1>3, <1>4

\* The sequence that a set is turned into has its elements and no other ones.
LEMMA SetToSeqFacts ==
  ASSUME NEW T, IsFiniteSet(T)
  PROVE  \E n \in Nat : SetToSeq(T) \in [1..n -> T] /\ Range(SetToSeq(T)) = T
<1>1. PICK n \in Nat : n = Cardinality(T) /\ ExistsBijection(1..n, T)
  BY FS_CardinalityType
<1>2. \E f \in [1..n -> T] : IsInjective(f)
  BY <1>1 DEF ExistsBijection, Bijection, Injection
<1>3. PICK f \in [1..n -> T] : f = SetToSeq(T) /\ IsInjective(f)
  BY <1>1, <1>2 DEF SetToSeq
<1>4. IsFiniteSet(1..n) /\ Cardinality(1..n) = n
  BY FS_Interval
<1>5. f \in Injection(1..n, T)
  BY <1>3 DEF Injection
<1>6. f \in Surjection(1..n, T)
  BY <1>1, <1>4, <1>5, FS_Injection
<1>7. Range(f) = T
  BY <1>6 DEF Surjection, Range
<1> QED BY <1>3, <1>7

\* The inductive invariant: there are finitely many teams, and all levels that
\* are granted have their place in the order.
Grants == UNION {[D -> Nat] : D \in SUBSET (User \cup Team)}
SharingInv ==
    /\ IsFiniteSet(DOMAIN teams)
    /\ project # <<>> => project[1] \in [org: Org, default: Nat, user_grants: Grants, team_grants: Grants]

LEMMA SharingInit == WorkspaceInit => SharingInv
BY FS_EmptySet DEF WorkspaceInit, SharingInv

LEMMA GrantsFacts ==
  ASSUME NEW f \in Grants, NEW key \in User \cup Team, NEW level \in Nat
  PROVE  Put(f, key, level) \in Grants /\ Drop(f, key) \in Grants /\ Grant(f, key) \in Nat
<1>1. PICK D \in SUBSET (User \cup Team) : f \in [D -> Nat]
  BY DEF Grants
<1>2. Put(f, key, level) \in [D \cup {key} -> Nat] /\ D \cup {key} \in SUBSET (User \cup Team)
  BY <1>1 DEF Put
<1>3. Drop(f, key) \in [D \ {key} -> Nat] /\ D \ {key} \in SUBSET (User \cup Team)
  BY <1>1 DEF Drop
<1>4. Grant(f, key) \in Nat
  BY <1>1 DEF Grant, None
<1> QED BY <1>2, <1>3, <1>4 DEF Grants

LEMMA SharingKeeps ==
  ASSUME SharingInv, [WorkspaceNext]_workspaceVars
  PROVE  SharingInv'
<1> DEFINE Record == [org: Org, default: Nat, user_grants: Grants, team_grants: Grants]
<1>1. ASSUME UNCHANGED <<teams, project>> PROVE SharingInv'
  BY <1>1 DEF SharingInv
<1>2. ASSUME NEW t \in Team, NEW o \in Org, CreateTeam(t, o) PROVE SharingInv'
  <2>1. DOMAIN teams' = DOMAIN teams \cup {t} /\ project' = project
    BY <1>2 DEF CreateTeam, Put
  <2>2. IsFiniteSet(DOMAIN teams \cup {t})
    BY FS_AddElement DEF SharingInv
  <2> QED BY <2>1, <2>2 DEF SharingInv
<1>3. ASSUME NEW t \in Team, NEW u \in User, AddToTeam(t, u) \/ RemoveFromTeam(t, u) PROVE SharingInv'
  <2>1. DOMAIN teams' = DOMAIN teams /\ project' = project
    BY <1>3 DEF AddToTeam, RemoveFromTeam
  <2> QED BY <2>1 DEF SharingInv
<1>4. ASSUME teams' = teams, NEW p \in Record, project' = <<p>> PROVE SharingInv'
  <2>1. project'[1] = p
    BY <1>4
  <2> QED BY <1>4, <2>1 DEF SharingInv
<1>5. ASSUME NEW o \in Org, NEW u \in User, CreateProject(o, u) PROVE SharingInv'
  <2>1. [x \in {u} |-> Owner] \in Grants
    <3>1. [x \in {u} |-> Owner] \in [{u} -> Nat]
      BY DEF Owner
    <3> QED BY <3>1 DEF Grants
  <2>2. <<>> \in Grants
    <3>1. <<>> \in [{} -> Nat]
      OBVIOUS
    <3> QED BY <3>1 DEF Grants
  <2> QED BY <1>4, <1>5, <2>1, <2>2 DEF CreateProject, None
<1>6. ASSUME project # <<>>, teams' = teams, NEW key \in User \cup Team, NEW level \in Nat,
             \/ project' = <<[project[1] EXCEPT !.user_grants = Put(@, key, level)]>>
             \/ project' = <<[project[1] EXCEPT !.team_grants = Put(@, key, level)]>>
             \/ project' = <<[project[1] EXCEPT !.user_grants = Drop(@, key)]>>
             \/ project' = <<[project[1] EXCEPT !.team_grants = Drop(@, key)]>>
             \/ project' = <<[project[1] EXCEPT !.default = level]>>
      PROVE  SharingInv'
  <2>1. PICK p \in Record : p = project[1]
    BY <1>6 DEF SharingInv
  <2>2. /\ Put(p.user_grants, key, level) \in Grants /\ Drop(p.user_grants, key) \in Grants
        /\ Put(p.team_grants, key, level) \in Grants /\ Drop(p.team_grants, key) \in Grants
    BY <1>6, <2>1, GrantsFacts
  <2>3. \E q \in Record : project' = <<q>>
    BY <1>6, <2>1, <2>2
  <2> QED BY <1>4, <1>6, <2>3
<1>7. Granted \subseteq Nat /\ None \in Nat
  BY WorkspaceAssumption DEF Level, Viewer, Owner, None
<1>8. CASE UNCHANGED workspaceVars
  BY <1>1, <1>8 DEF workspaceVars, sharing
<1>9. CASE AccountStep
  BY <1>1, <1>9 DEF AccountStep, SignUp, LogIn, LogOut, sharing
<1>10. CASE SharingStep
  <2>1. ASSUME NEW o \in Org, NEW u \in User, CreateOrg(o, u) \/ SetMember(o, u) \/ RemoveMember(o, u) PROVE SharingInv'
    BY <1>1, <2>1 DEF CreateOrg, SetMember, RemoveMember
  <2>2. ASSUME NEW u \in User, NEW level \in Granted, ShareWithUser(u, level) PROVE SharingInv'
    BY <1>6, <1>7, <2>2 DEF ShareWithUser, Change
  <2>3. ASSUME NEW t \in Team, NEW level \in Granted, ShareWithTeam(t, level) PROVE SharingInv'
    BY <1>6, <1>7, <2>3 DEF ShareWithTeam, Change
  <2>4. ASSUME NEW u \in User, UnshareUser(u) PROVE SharingInv'
    BY <1>6, <1>7, <2>4 DEF UnshareUser, Change
  <2>5. ASSUME NEW t \in Team, UnshareTeam(t) PROVE SharingInv'
    BY <1>6, <1>7, <2>5 DEF UnshareTeam, Change
  <2>6. ASSUME NEW level \in Granted \cup {None}, SetDefault(level) PROVE SharingInv'
    <3>1. PICK p \in Record : p = project[1]
      BY <2>6 DEF SharingInv, SetDefault, Change
    <3>2. [p EXCEPT !.default = level] \in Record /\ project' = <<[p EXCEPT !.default = level]>> /\ teams' = teams
      BY <1>7, <2>6, <3>1 DEF SetDefault, Change
    <3> QED BY <1>4, <3>2
  <2> QED BY <1>2, <1>3, <1>5, <1>10, <2>1, <2>2, <2>3, <2>4, <2>5, <2>6 DEF SharingStep
<1> QED BY <1>8, <1>9, <1>10 DEF WorkspaceNext

LEMMA PermissionHolds ==
  ASSUME SharingInv
  PROVE  PermissionIsHighest
<1> SUFFICES ASSUME project # <<>>, project[1].org \in DOMAIN orgs, NEW u \in User
             PROVE  LET p == project[1]
                        applies == {Grant(p.user_grants, u)}
                                   \cup {Grant(p.team_grants, t) : t \in {t \in DOMAIN teams : teams[t].org = p.org /\ u \in teams[t].members}}
                                   \cup (IF u \in orgs[p.org] THEN {p.default} ELSE {})
                    IN  PermissionFor(u) \in applies \cup {None} /\ \A level \in applies : level <= PermissionFor(u)
  BY DEF PermissionIsHighest
<1>1. PICK p : p = project[1]
  OBVIOUS
<1>2. p \in [org: Org, default: Nat, user_grants: Grants, team_grants: Grants]
  BY <1>1 DEF SharingInv
<1>3. PICK T \in SUBSET DOMAIN teams : T = TeamsOfOrg(p.org)
  BY DEF TeamsOfOrg
<1>4. IsFiniteSet(T)
  BY FS_Subset DEF SharingInv
<1>5. PICK ts : ts = SetToSeq(T)
  OBVIOUS
<1>6. PICK n \in Nat : ts \in [1..n -> T] /\ Range(ts) = T
  BY <1>4, <1>5, SetToSeqFacts
<1>7. Len(ts) = n
  BY <1>6
<1> DEFINE byTeam == [i \in 1..Len(ts) |-> IF u \in teams[ts[i]].members THEN Grant(p.team_grants, ts[i]) ELSE None]
           byOrg == IF u \in orgs[p.org] THEN p.default ELSE None
           levels == Append(byTeam, byOrg)
<1>8. \A f \in Grants : \A key : Grant(f, key) \in Nat
  BY DEF Grants, Grant, None
<1>9. byOrg \in Nat
  BY <1>2 DEF None
<1>10. byTeam \in [1..n -> Nat] /\ \A i \in 1..n : byTeam[i] = IF u \in teams[ts[i]].members THEN Grant(p.team_grants, ts[i]) ELSE None
  BY <1>2, <1>7, <1>8 DEF None
<1> HIDE DEF byTeam, byOrg
<1>11. levels \in [1..(n + 1) -> Nat] /\ levels[n + 1] = byOrg /\ \A i \in 1..n : levels[i] = byTeam[i]
  <2>1. byTeam \in Seq(Nat) /\ Len(byTeam) = n
    BY <1>10
  <2>2. levels \in Seq(Nat) /\ Len(levels) = n + 1 /\ levels[n + 1] = byOrg /\ \A i \in 1..n : levels[i] = byTeam[i]
    BY <1>9, <2>1, AppendProperties
  <2> HIDE DEF levels
  <2> QED BY <2>2
<1> HIDE DEF levels
<1>12. PICK base \in Nat : base = Grant(p.user_grants, u)
  BY <1>2, <1>8
<1>13. PICK best : best = HighestOf(base, levels)
  OBVIOUS
<1>14. Highest(levels, base, 1..(n + 1), best)
  BY <1>11, <1>12, <1>13, HighestOfIsHighest
<1>15. PermissionFor(u) = best
  <2>1. PermissionFor(u) = EffectivePermission(u, p, ts)
    BY <1>1, <1>3, <1>5 DEF PermissionFor
  <2>2. EffectivePermission(u, p, ts) = HighestOf(Grant(p.user_grants, u), levels)
    BY DEF EffectivePermission, byTeam, byOrg, levels
  <2> QED BY <1>12, <1>13, <2>1, <2>2
<1> DEFINE Applying == {t \in DOMAIN teams : teams[t].org = p.org /\ u \in teams[t].members}
           applies == {Grant(p.user_grants, u)} \cup {Grant(p.team_grants, t) : t \in Applying}
                      \cup (IF u \in orgs[p.org] THEN {p.default} ELSE {})
<1>16. Applying = {t \in T : u \in teams[t].members}
  BY <1>3 DEF TeamsOfOrg
<1> HIDE DEF Applying
<1>17. best \in applies \cup {None}
  <2>1. CASE best = base
    BY <1>12, <2>1
  <2>2. ASSUME NEW i \in 1..n, best = levels[i] PROVE best \in applies \cup {None}
    <3>1. ts[i] \in T /\ best = IF u \in teams[ts[i]].members THEN Grant(p.team_grants, ts[i]) ELSE None
      BY <1>6, <1>10, <1>11, <2>2
    <3> QED BY <1>16, <3>1
  <2>3. CASE best = levels[n + 1]
    BY <1>11, <2>3 DEF byOrg
  <2>4. best = base \/ \E i \in 1..(n + 1) : best = levels[i]
    BY <1>14 DEF Highest
  <2>5. \A i \in 1..(n + 1) : i \in 1..n \/ i = n + 1
    OBVIOUS
  <2> HIDE DEF applies
  <2> QED BY <2>1, <2>2, <2>3, <2>4, <2>5
<1>18. ASSUME NEW level \in applies PROVE level <= best
  <2>1. base <= best /\ \A i \in 1..(n + 1) : levels[i] <= best
    BY <1>14 DEF Highest
  <2>2. CASE level = Grant(p.user_grants, u)
    BY <1>12, <2>1, <2>2
  <2>3. ASSUME NEW t \in Applying, level = Grant(p.team_grants, t) PROVE level <= best
    <3>1. t \in T /\ u \in teams[t].members
      BY <1>16
    <3>2. PICK i \in 1..n : ts[i] = t
      BY <1>6, <3>1 DEF Range
    <3>3. levels[i] = level
      BY <1>10, <1>11, <2>3, <3>1, <3>2
    <3>4. i \in 1..(n + 1)
      OBVIOUS
    <3> QED BY <2>1, <3>3, <3>4
  <2>4. CASE u \in orgs[p.org] /\ level = p.default
    <3>1. levels[n + 1] = level /\ n + 1 \in 1..(n + 1)
      BY <1>11, <2>4 DEF byOrg
    <3> QED BY <2>1, <3>1
  <2> QED BY <2>2, <2>3, <2>4
<1> QED BY <1>1, <1>15, <1>17, <1>18 DEF Applying

\* Whatever is shared with whom, the permission of a user is the highest of the
\* grants that apply, in whatever order the teams are visited: for any number of
\* users and teams (effective_permission and permission_for).
THEOREM PermissionIsAlwaysHighest == WorkspaceSpec => []PermissionIsHighest
<1>1. WorkspaceInit => SharingInv
  BY SharingInit
<1>2. SharingInv /\ [WorkspaceNext]_workspaceVars => SharingInv'
  BY SharingKeeps
<1>3. SharingInv => PermissionIsHighest
  BY PermissionHolds
<1> QED BY <1>1, <1>2, <1>3, PTL DEF WorkspaceSpec

--------------------------------------------------------------------------
(* Printers.                                                               *)

\* What the page can wait for.
KeyedTarget == {t \in Target : t.key # NoKey}
Call ==
    [do: {"list"}] \cup [do: {"getkey"}, target: Target]
    \cup [do: {"setkey"}, target: KeyedTarget, by: Nat] \cup [do: {"save", "test"}, target: Target, by: Nat]
    \cup [do: {"delkey", "delete"}, id: Id] \cup [do: {"scan", "targets"}, by: Nat]
    \cup [do: {"slice"}, rev: Nat, by: Nat] \cup [do: {"send"}, host: Host, rev: Nat]
    \cup [do: {"layer"}, host: Host, job: Nat, layer: 1..Layers, by: Nat]

Desk == [mem: Printers, file: Printers, keys: [Id -> OrNoKey]]
Wizard ==
    [n: Nat, step: {"closed"}]
    \cup [n: Nat, step: {"discover", "details", "test"}, found: BOOLEAN, picked: BOOLEAN, target: Target,
          testing: BOOLEAN, scanning: BOOLEAN, saving: BOOLEAN, probed: SUBSET Target]
Slicer == [n: Nat, open: BOOLEAN, rev: Nat, jobs: 0..MaxJobs, result: Nat, targets: Printers,
           streaming: BOOLEAN, job: Nat, done: 0..Layers]
Device == [stored: Nat, selected: Nat, run: {"idle", "printing"}, fed: [1..MaxJobs -> Seq([job: Nat, layer: Nat, part: Nat])]]

Keyless(list) == \A id \in DOMAIN list : list[id].key = NoKey

TypeInv ==
    /\ desk \in Desk /\ keyring \in BOOLEAN /\ faulty \in BOOLEAN /\ acts \in 0..MaxActs
    /\ calls \in Seq(Call)
    /\ printers \in Printers /\ Keyless(printers)
    /\ editing = {} \/ \E t \in Target : editing = {t}
    /\ wizard \in Wizard
    /\ slicer \in Slicer /\ (slicer.streaming => slicer.job # 0)
    /\ device \in [Host -> Device]

\* Before the first list is answered, an old version's keys may be in the list.
Starting(d, q, list) ==
    /\ q # <<>> /\ q[1].do = "list" /\ list = <<>>
    /\ \A id \in Id : d.keys[id] = NoKey
    /\ \A i \in DOMAIN q : q[i].do \notin {"delkey", "delete"}

\* A save of this printer is under way.
SavedBy(q, i, id) == q[i].do = "save" /\ q[i].target.id = id

\* Of the desktop process d with keychain `ring`, the calls q and the list shown:
\* unless something failed (`bad`), a printer that is to be deleted has no key,
\* a key belongs to a printer, and the list is that of the process or asked for.
KeysOk(d, ring, q, list, bad) ==
    /\ ring \/ \A id \in Id : d.keys[id] = NoKey
    /\ bad \/ Keyless(d.mem) \/ Starting(d, q, list)
    /\ bad \/ \A i \in DOMAIN q : q[i].do = "delete" /\ d.keys[q[i].id] # NoKey =>
                 \E j \in DOMAIN q : i < j /\ SavedBy(q, j, q[i].id)
    /\ bad \/ \A id \in Id : d.keys[id] # NoKey => id \in DOMAIN d.mem \/ \E i \in DOMAIN q : SavedBy(q, i, id)
    /\ bad \/ list = d.mem \/ \E i \in DOMAIN q : q[i].do = "list"

KeysInv == KeysOk(desk, keyring, calls, printers, faulty)

\* What printers were given, in order.
InOrder(dev) ==
    \A h \in Host, job \in 1..MaxJobs : \A i \in DOMAIN dev[h].fed[job] :
        dev[h].fed[job][i] = [job |-> job, layer |-> 1 + (i - 1) \div Parts, part |-> 1 + ((i - 1) % Parts)]

\* Of the calls q, the printers dev and the dialog s: a stream has one call at
\* most, its printer was given the layers before that one, and the dialog that
\* made it waits for it; printers were given the layers shown as sent.
StreamOk(q, dev, s) ==
    /\ \A h \in Host, job \in 1..MaxJobs : s.jobs < job => dev[h].fed[job] = <<>>
    /\ \A i \in DOMAIN q : q[i].do = "layer" =>
          /\ q[i].job \in 1..s.jobs /\ q[i].by <= s.n
          /\ Len(dev[q[i].host].fed[q[i].job]) = (q[i].layer - 1) * Parts
          /\ q[i].by = s.n => q[i].job = s.job /\ s.streaming
    /\ \A i, j \in DOMAIN q : q[i].do = "layer" /\ q[j].do = "layer" /\ q[i].job = q[j].job => i = j
    /\ s.done > 0 => /\ s.job \in 1..s.jobs
                     /\ \E h \in Host : Len(dev[h].fed[s.job]) >= s.done * Parts
    /\ InOrder(dev)

StreamInv == StreamOk(calls, device, slicer)

--------------------------------------------------------------------------
\* What the operators on lists of printers keep.
LEMMA ListFacts ==
  ASSUME NEW list \in Printers
  PROVE  /\ DOMAIN list \subseteq Id
         /\ \A id \in DOMAIN list : list[id] \in [host: Host \cup {Blank}, key: OrNoKey]
         /\ Strip(list) \in Printers /\ Keyless(Strip(list)) /\ DOMAIN Strip(list) = DOMAIN list
         /\ Keyless(list) => Strip(list) = list
<1>1. PICK D \in SUBSET Id : list \in [D -> [host: Host \cup {Blank}, key: OrNoKey]]
  BY DEF Printers
<1>2. DOMAIN list = D /\ \A id \in D : list[id] \in [host: Host \cup {Blank}, key: OrNoKey]
  BY <1>1
<1>3. \A id \in D : /\ [list[id] EXCEPT !.key = NoKey] \in [host: Host \cup {Blank}, key: OrNoKey]
                    /\ [list[id] EXCEPT !.key = NoKey].key = NoKey
                    /\ list[id].key = NoKey => [list[id] EXCEPT !.key = NoKey] = list[id]
  BY <1>2 DEF OrNoKey
<1>4. Strip(list) \in [D -> [host: Host \cup {Blank}, key: OrNoKey]] /\ Keyless(Strip(list))
  <2>1. Strip(list) = [id \in D |-> [list[id] EXCEPT !.key = NoKey]]
    BY <1>2 DEF Strip
  <2>2. \A id \in D : Strip(list)[id] = [list[id] EXCEPT !.key = NoKey]
    BY <2>1
  <2>3. Strip(list) \in [D -> [host: Host \cup {Blank}, key: OrNoKey]]
    BY <1>3, <2>1
  <2> QED BY <1>3, <2>2, <2>3 DEF Keyless
<1>5. Keyless(list) => Strip(list) = list
  BY <1>1, <1>2, <1>3 DEF Strip, Keyless
<1> QED BY <1>1, <1>2, <1>4, <1>5 DEF Printers

LEMMA UpsertFacts ==
  ASSUME NEW list \in Printers, NEW t \in Target
  PROVE  /\ Upsert(list, t) \in Printers /\ DOMAIN Upsert(list, t) = DOMAIN list \cup {t.id}
         /\ Upsert(list, t)[t.id].key = t.key
         /\ \A id \in DOMAIN list : id # t.id => Upsert(list, t)[id] = list[id]
         /\ Keyless(list) /\ t.key = NoKey => Keyless(Upsert(list, t))
<1>1. PICK D \in SUBSET Id : list \in [D -> [host: Host \cup {Blank}, key: OrNoKey]]
  BY DEF Printers
<1>2. t.id \in Id /\ [host |-> t.host, key |-> t.key] \in [host: Host \cup {Blank}, key: OrNoKey]
  BY DEF Target
<1>3. Upsert(list, t) \in [D \cup {t.id} -> [host: Host \cup {Blank}, key: OrNoKey]]
  BY <1>1, <1>2 DEF Upsert
<1>4. D \cup {t.id} \in SUBSET Id
  BY <1>2
<1> QED BY <1>1, <1>3, <1>4 DEF Printers, Upsert, Keyless

LEMMA RestrictFacts ==
  ASSUME NEW list \in Printers, NEW id
  PROVE  LET less == Restrict(list, DOMAIN list \ {id})
         IN  /\ less \in Printers /\ DOMAIN less = DOMAIN list \ {id} /\ \A x \in DOMAIN less : less[x] = list[x]
             /\ Keyless(list) => Keyless(less)
<1>1. PICK D \in SUBSET Id : list \in [D -> [host: Host \cup {Blank}, key: OrNoKey]]
  BY DEF Printers
<1>2. Restrict(list, DOMAIN list \ {id}) \in [D \ {id} -> [host: Host \cup {Blank}, key: OrNoKey]]
  BY <1>1 DEF Restrict
<1>3. D \ {id} \in SUBSET Id
  OBVIOUS
<1> QED BY <1>1, <1>2, <1>3 DEF Printers, Restrict, Keyless

\* The store of the desktop process with other keys, or another list.
LEMMA DeskFacts ==
  ASSUME NEW d \in Desk, NEW list, NEW keys
  PROVE  /\ [d EXCEPT !.keys = keys] = [mem |-> d.mem, file |-> d.file, keys |-> keys]
         /\ [d EXCEPT !.mem = list] = [mem |-> list, file |-> d.file, keys |-> d.keys]
         /\ [d EXCEPT !.file = list] = [mem |-> d.mem, file |-> list, keys |-> d.keys]
         /\ [d EXCEPT !.mem = list, !.file = list] = [mem |-> list, file |-> list, keys |-> d.keys]
<1>1. d = [mem |-> d.mem, file |-> d.file, keys |-> d.keys]
  BY DEF Desk
<1>2. PICK m, f, k : m = d.mem /\ f = d.file /\ k = d.keys /\ d = [mem |-> m, file |-> f, keys |-> k]
  BY <1>1
<1>3. [d EXCEPT !.keys = keys] = [mem |-> m, file |-> f, keys |-> keys]
  BY <1>2
<1>4. [d EXCEPT !.mem = list] = [mem |-> list, file |-> f, keys |-> k]
  BY <1>2
<1>5. [d EXCEPT !.file = list] = [mem |-> m, file |-> list, keys |-> k]
  BY <1>2
<1>6. [d EXCEPT !.mem = list, !.file = list] = [mem |-> list, file |-> list, keys |-> k]
  <2>1. PICK e : e = [d EXCEPT !.mem = list, !.file = list]
    OBVIOUS
  <2>2. e = [mem |-> list, file |-> list, keys |-> d.keys]
    BY <2>1 DEF Desk
  <2> QED BY <1>2, <2>1, <2>2
<1> QED BY <1>2, <1>3, <1>4, <1>5, <1>6

LEMMA WriteAllFacts ==
  ASSUME NEW d \in Desk, NEW list \in Printers, NEW o \in WriteAll(d, list)
  PROVE  /\ o \in [d: Desk, ok: BOOLEAN] /\ o.d.mem = list /\ o.d.keys = d.keys
         /\ (o.d.file = list \/ o.d.file = d.file)
<1>1. \/ o = [d |-> [mem |-> list, file |-> list, keys |-> d.keys], ok |-> TRUE]
      \/ o = [d |-> [mem |-> list, file |-> d.file, keys |-> d.keys], ok |-> FALSE]
  BY DeskFacts DEF WriteAll, Done, Failed
<1>2. PICK e : e = [mem |-> list, file |-> list, keys |-> d.keys]
  OBVIOUS
<1>3. PICK f : f = [mem |-> list, file |-> d.file, keys |-> d.keys]
  OBVIOUS
<1>4. /\ e \in Desk /\ e.mem = list /\ e.file = list /\ e.keys = d.keys
      /\ f \in Desk /\ f.mem = list /\ f.file = d.file /\ f.keys = d.keys
  BY <1>2, <1>3 DEF Desk
<1>5. o = [d |-> e, ok |-> TRUE] \/ o = [d |-> f, ok |-> FALSE]
  BY <1>1, <1>2, <1>3
<1>6. CASE o = [d |-> e, ok |-> TRUE]
  <2>1. o.d = e /\ o \in [d: Desk, ok: BOOLEAN]
    BY <1>4, <1>6
  <2> QED BY <1>4, <2>1
<1>7. CASE o = [d |-> f, ok |-> FALSE]
  <2>1. o.d = f /\ o \in [d: Desk, ok: BOOLEAN]
    BY <1>4, <1>7
  <2> QED BY <1>4, <2>1
<1> QED BY <1>5, <1>6, <1>7

\* Reading all printers strips the list; what it moves to the keychain are the
\* list's keys, all of them if it succeeds.
LEMMA ReadAllFacts ==
  ASSUME NEW d \in Desk, NEW o \in ReadAll(d)
  PROVE  /\ o.d \in Desk /\ o.ok \in BOOLEAN /\ o.d.mem = Strip(d.mem)
         /\ Keyless(d.mem) => o.d = d /\ o.ok
         /\ \A id \in Id : \/ o.d.keys[id] = d.keys[id]
                           \/ keyring /\ id \in DOMAIN d.mem /\ o.d.keys[id] = d.mem[id].key /\ d.mem[id].key # NoKey
         /\ o.ok => \A id \in DOMAIN d.mem : d.mem[id].key # NoKey => o.d.keys[id] = d.mem[id].key
         /\ o.d.file = d.file \/ Keyless(o.d.file)
<1> DEFINE old == {id \in DOMAIN d.mem : d.mem[id].key # NoKey}
<1>1. d.mem \in Printers /\ d.file \in Printers /\ d.keys \in [Id -> OrNoKey]
  BY DEF Desk
<1>2. CASE old = {}
  <2>1. o = Done(d)
    BY <1>2 DEF ReadAll
  <2>2. o.d = d /\ o.ok = TRUE
    BY <2>1 DEF Done
  <2>3. Keyless(d.mem)
    BY <1>2 DEF Keyless
  <2> QED BY <1>1, <1>2, <2>2, <2>3, ListFacts
<1>3. CASE old # {}
  <2>1. ~Keyless(d.mem)
    BY <1>3 DEF Keyless
  <2>0. PICK took \in IF keyring THEN SUBSET old ELSE {{}} :
             \E w \in WriteAll([d EXCEPT !.keys = Moved(d, took)], Strip(d.mem)) : o = [w EXCEPT !.ok = w.ok /\ took = old]
    BY <1>3 DEF ReadAll
  <2>2. PICK w \in WriteAll([d EXCEPT !.keys = Moved(d, took)], Strip(d.mem)) : o = [w EXCEPT !.ok = w.ok /\ took = old]
    BY <2>0
  <2>3. took \subseteq old /\ (took # {} => keyring)
    BY <2>0
  <2>4. PICK keys : keys = Moved(d, took)
    OBVIOUS
  <2>5. /\ keys \in [Id -> OrNoKey]
        /\ \A id \in Id : keys[id] = IF id \in took THEN d.mem[id].key ELSE d.keys[id]
    BY <1>1, <2>3, <2>4, ListFacts DEF Moved
  <2>6. PICK e : e = [mem |-> d.mem, file |-> d.file, keys |-> keys]
    OBVIOUS
  <2>16. e \in Desk /\ e.mem = d.mem /\ e.file = d.file /\ e.keys = keys
    BY <1>1, <2>5, <2>6 DEF Desk
  <2>7. PICK list \in Printers : list = Strip(d.mem) /\ Keyless(list)
    BY <1>1, ListFacts
  <2>8. w \in WriteAll(e, list)
    <3>1. [d EXCEPT !.keys = keys] = e
      BY <2>6, DeskFacts
    <3> QED BY <2>2, <2>4, <2>7, <3>1
  <2>9. /\ w \in [d: Desk, ok: BOOLEAN] /\ w.d.mem = list /\ w.d.keys = keys
        /\ (w.d.file = list \/ w.d.file = d.file)
    BY <2>8, <2>16, WriteAllFacts
  <2>10. o.d = w.d /\ o.ok = (w.ok /\ took = old)
    BY <2>2, <2>9
  <2>11. o.ok \in BOOLEAN /\ (o.ok => took = old)
    BY <2>9, <2>10
  <2>12. o.d \in Desk /\ o.d.mem = list /\ o.d.keys = keys /\ (o.d.file = d.file \/ Keyless(o.d.file))
    BY <2>7, <2>9, <2>10
  <2>13. \A id \in Id : \/ o.d.keys[id] = d.keys[id]
                        \/ keyring /\ id \in DOMAIN d.mem /\ o.d.keys[id] = d.mem[id].key /\ d.mem[id].key # NoKey
    BY <2>3, <2>5, <2>12
  <2>14. DOMAIN d.mem \subseteq Id
    BY <1>1, ListFacts
  <2>15. o.ok => \A id \in DOMAIN d.mem : d.mem[id].key # NoKey => o.d.keys[id] = d.mem[id].key
    BY <2>5, <2>11, <2>12, <2>14
  <2> QED BY <2>1, <2>7, <2>11, <2>12, <2>13, <2>15
<1> QED BY <1>2, <1>3

LEMMA SavePrinterFacts ==
  ASSUME NEW d \in Desk, NEW t \in Target, t.key = NoKey, NEW o \in SavePrinter(d, t)
  PROVE  /\ o \in [d: Desk, ok: BOOLEAN]
         /\ \E r \in ReadAll(d) : o.d.mem = Upsert(r.d.mem, t) /\ o.d.keys = r.d.keys
         /\ o.d.file \in {d.file, o.d.mem} \/ Keyless(o.d.file)
<1>1. SavePrinter(d, t) = {k \in {Done(d)} : ~k.ok}
                          \cup UNION {WriteAll(r.d, Upsert(r.d.mem, [t EXCEPT !.key = NoKey])) :
                                         r \in UNION {ReadAll(k.d) : k \in {k \in {Done(d)} : k.ok}}}
  BY DEF SavePrinter
<1>2. Done(d).d = d /\ Done(d).ok = TRUE
  BY DEF Done
<1>3. [t EXCEPT !.key = NoKey] = t
  BY DEF Target
<1>4. PICK r \in ReadAll(d) : o \in WriteAll(r.d, Upsert(r.d.mem, t))
  BY <1>1, <1>2, <1>3
<1>5. r.d \in Desk /\ (r.d.file = d.file \/ Keyless(r.d.file))
  BY ReadAllFacts
<1>6. Upsert(r.d.mem, t) \in Printers
  BY <1>5, UpsertFacts DEF Desk
<1>7. /\ o \in [d: Desk, ok: BOOLEAN] /\ o.d.mem = Upsert(r.d.mem, t) /\ o.d.keys = r.d.keys
      /\ (o.d.file = Upsert(r.d.mem, t) \/ o.d.file = r.d.file)
  BY <1>4, <1>5, <1>6, WriteAllFacts
<1> QED BY <1>5, <1>7

LEMMA DeletePrinterFacts ==
  ASSUME NEW d \in Desk, NEW id \in Id, NEW o \in DeletePrinter(d, id)
  PROVE  /\ o \in [d: Desk, ok: BOOLEAN]
         /\ \E r \in ReadAll(d) : /\ o.d.mem = Restrict(r.d.mem, DOMAIN r.d.mem \ {id})
                                  /\ \A x \in Id : o.d.keys[x] \in {r.d.keys[x], NoKey}
         /\ o.d.file \in {d.file, o.d.mem} \/ Keyless(o.d.file)
<1> DEFINE written == UNION {WriteAll(r.d, Restrict(r.d.mem, DOMAIN r.d.mem \ {id})) : r \in ReadAll(d)}
<1>1. PICK w \in written : \/ o = w
                           \/ \E k \in DeleteKey(w.d, id) : o = Done(k.d)
  BY ZenonT(30) DEF DeletePrinter
<1>2. PICK r \in ReadAll(d) : w \in WriteAll(r.d, Restrict(r.d.mem, DOMAIN r.d.mem \ {id}))
  OBVIOUS
<1>3. r.d \in Desk /\ (r.d.file = d.file \/ Keyless(r.d.file))
  BY ReadAllFacts
<1>4. PICK less \in Printers : less = Restrict(r.d.mem, DOMAIN r.d.mem \ {id})
  BY <1>3, RestrictFacts DEF Desk
<1>5. /\ w \in [d: Desk, ok: BOOLEAN] /\ w.d.mem = less /\ w.d.keys = r.d.keys
      /\ (w.d.file = less \/ w.d.file = r.d.file)
  BY <1>2, <1>3, <1>4, WriteAllFacts
<1>6. CASE o = w
  BY <1>3, <1>4, <1>5, <1>6
<1>7. ASSUME NEW k \in DeleteKey(w.d, id), o = Done(k.d)
      PROVE  /\ o \in [d: Desk, ok: BOOLEAN] /\ o.d.mem = less /\ o.d.file = w.d.file
             /\ \A x \in Id : o.d.keys[x] \in {r.d.keys[x], NoKey}
  <2>1. PICK e \in Desk : e = w.d
    BY <1>5
  <2>2. PICK keys : keys = [e.keys EXCEPT ![id] = NoKey]
    OBVIOUS
  <2>3. keys \in [Id -> OrNoKey] /\ \A x \in Id : keys[x] \in {e.keys[x], NoKey}
    BY <2>1, <2>2 DEF Desk, OrNoKey
  <2>4. [e EXCEPT !.keys = keys] = [mem |-> e.mem, file |-> e.file, keys |-> keys]
    BY DeskFacts
  <2>5. k.d = e \/ k.d = [mem |-> e.mem, file |-> e.file, keys |-> keys]
    BY <1>7, <2>1, <2>2, <2>4 DEF DeleteKey, Done, Failed
  <2>6. k.d \in Desk /\ k.d.mem = e.mem /\ k.d.file = e.file /\ \A x \in Id : k.d.keys[x] \in {e.keys[x], NoKey}
    BY <2>3, <2>5 DEF Desk
  <2>7. o.d = k.d /\ o \in [d: Desk, ok: BOOLEAN]
    BY <1>7, <2>6 DEF Done
  <2> QED BY <1>5, <2>1, <2>6, <2>7
<1> QED BY <1>1, <1>3, <1>4, <1>5, <1>6, <1>7

--------------------------------------------------------------------------
\* The fields of a call.
LEMMA CallFacts ==
  ASSUME NEW c \in Call
  PROVE  /\ c.do \in {"getkey", "setkey", "save", "test"} => c.target \in Target
         /\ c.do = "setkey" => c.target.key # NoKey
         /\ c.do \in {"setkey", "save", "test", "scan", "targets", "slice", "layer"} => c.by \in Nat
         /\ c.do \in {"delkey", "delete"} => c.id \in Id
         /\ c.do \in {"send", "layer"} => c.host \in Host
         /\ c.do \in {"slice", "send"} => c.rev \in Nat
         /\ c.do = "layer" => c.job \in Nat /\ c.layer \in 1..Layers
BY DEF Call, KeyedTarget

LEMMA NewCalls ==
  /\ [do |-> "list"] \in Call
  /\ \A t \in Target : [do |-> "getkey", target |-> t] \in Call
  /\ \A t \in Target, n \in Nat : /\ t.key # NoKey => [do |-> "setkey", target |-> t, by |-> n] \in Call
                                  /\ [do |-> "save", target |-> t, by |-> n] \in Call
                                  /\ [do |-> "test", target |-> t, by |-> n] \in Call
  /\ \A id \in Id : [do |-> "delkey", id |-> id] \in Call /\ [do |-> "delete", id |-> id] \in Call
  /\ \A n \in Nat : [do |-> "scan", by |-> n] \in Call /\ [do |-> "targets", by |-> n] \in Call
  /\ \A n, rev \in Nat : [do |-> "slice", rev |-> rev, by |-> n] \in Call
  /\ \A h \in Host, rev \in Nat : [do |-> "send", host |-> h, rev |-> rev] \in Call
  /\ \A h \in Host, job, n \in Nat, layer \in 1..Layers :
        [do |-> "layer", host |-> h, job |-> job, layer |-> layer, by |-> n] \in Call
BY DEF Call, KeyedTarget

\* The calls that follow upon an answer.
LEMMA NextCalls ==
  ASSUME NEW c \in Call
  PROVE  /\ c.do = "setkey" => /\ [c EXCEPT !.do = "save"] \in Call /\ [c EXCEPT !.do = "save"].do = "save"
                               /\ [c EXCEPT !.do = "save"].target = c.target
         /\ c.do = "layer" /\ c.layer < Layers =>
               [c EXCEPT !.layer = c.layer + 1] = [do |-> "layer", host |-> c.host, job |-> c.job, layer |-> c.layer + 1, by |-> c.by]
<1>1. ASSUME c.do = "setkey"
      PROVE  [c EXCEPT !.do = "save"] = [do |-> "save", target |-> c.target, by |-> c.by]
  BY <1>1 DEF Call
<1>3. ASSUME c.do = "setkey"
      PROVE  /\ [c EXCEPT !.do = "save"] \in Call /\ [c EXCEPT !.do = "save"].do = "save"
             /\ [c EXCEPT !.do = "save"].target = c.target
  <2>1. PICK t \in Target, n \in Nat : t = c.target /\ n = c.by
    BY <1>3, CallFacts
  <2>2. PICK e : e = [do |-> "save", target |-> t, by |-> n]
    OBVIOUS
  <2>3. e \in Call
    BY <2>2, NewCalls
  <2>4. [c EXCEPT !.do = "save"] = e
    BY <1>1, <1>3, <2>1, <2>2
  <2> QED BY <2>1, <2>2, <2>3, <2>4
<1>2. ASSUME c.do = "layer"
      PROVE  [c EXCEPT !.layer = c.layer + 1] = [do |-> "layer", host |-> c.host, job |-> c.job, layer |-> c.layer + 1, by |-> c.by]
  BY <1>2 DEF Call
<1> QED BY <1>2, <1>3

\* How the queue of calls goes on: the first k are answered, and there may be one more.
Became(p, k, new, q) ==
    /\ \A i \in DOMAIN p : k < i => i - k \in DOMAIN q /\ q[i - k] = p[i]
    /\ \A i \in DOMAIN q : (i + k \in DOMAIN p /\ q[i] = p[i + k]) \/ (i + k = Len(p) + 1 /\ q[i] \in new)
    /\ \A c \in new : Len(p) + 1 - k \in DOMAIN q /\ q[Len(p) + 1 - k] = c

LEMMA QueueGrows ==
  ASSUME NEW p \in Seq(Call), NEW c \in Call
  PROVE  /\ Append(p, c) \in Seq(Call) /\ Became(p, 0, {c}, Append(p, c)) /\ Became(p, 0, {}, p)
         /\ p # <<>> => /\ Tail(p) \in Seq(Call) /\ Became(p, 1, {}, Tail(p))
                        /\ Append(Tail(p), c) \in Seq(Call) /\ Became(p, 1, {c}, Append(Tail(p), c))
<1>1. PICK n \in Nat : n = Len(p) /\ DOMAIN p = 1..n
  OBVIOUS
<1>2. Became(p, 0, {}, p)
  BY <1>1 DEF Became
<1>3. Append(p, c) \in Seq(Call) /\ Became(p, 0, {c}, Append(p, c))
  <2>0. Append(p, c) \in Seq(Call) /\ Len(Append(p, c)) = Len(p) + 1 /\ Append(p, c)[Len(p) + 1] = c
        /\ \A i \in 1..Len(p) : Append(p, c)[i] = p[i]
    BY AppendProperties
  <2>1. PICK q \in Seq(Call) : q = Append(p, c) /\ Len(q) = n + 1 /\ q[n + 1] = c /\ \A i \in 1..n : q[i] = p[i]
    BY <1>1, <2>0
  <2>2. DOMAIN q = 1..(n + 1)
    BY <2>1
  <2>3. Became(p, 0, {c}, q)
    BY <1>1, <2>1, <2>2 DEF Became
  <2> QED BY <2>1, <2>3
<1>4. ASSUME p # <<>>
      PROVE  /\ Tail(p) \in Seq(Call) /\ Became(p, 1, {}, Tail(p))
             /\ Append(Tail(p), c) \in Seq(Call) /\ Became(p, 1, {c}, Append(Tail(p), c))
  <2>1. n # 0
    BY <1>1, <1>4
  <2>0. Tail(p) \in Seq(Call) /\ Len(Tail(p)) = Len(p) - 1 /\ \A i \in 1..Len(Tail(p)) : Tail(p)[i] = p[i + 1]
    BY <1>4, HeadTailProperties
  <2>2. PICK t \in Seq(Call) : t = Tail(p) /\ Len(t) = n - 1 /\ \A i \in 1..(n - 1) : t[i] = p[i + 1]
    BY <1>1, <2>0
  <2>3. DOMAIN t = 1..(n - 1)
    BY <2>1, <2>2
  <2>4. Became(p, 1, {}, t)
    BY <1>1, <2>1, <2>2, <2>3 DEF Became
  <2>5. PICK q \in Seq(Call) : q = Append(t, c) /\ Len(q) = n /\ q[n] = c /\ \A i \in 1..(n - 1) : q[i] = t[i]
    <3>1. Append(t, c) \in Seq(Call) /\ Len(Append(t, c)) = Len(t) + 1 /\ Append(t, c)[Len(t) + 1] = c
          /\ \A i \in 1..Len(t) : Append(t, c)[i] = t[i]
      BY AppendProperties
    <3>2. Len(t) + 1 = n
      BY <2>2
    <3> QED BY <2>2, <3>1, <3>2
  <2>6. DOMAIN q = 1..n
    BY <2>5
  <2>7. Became(p, 1, {c}, q)
    BY <1>1, <2>1, <2>2, <2>5, <2>6 DEF Became
  <2> QED BY <2>2, <2>4, <2>5, <2>7
<1> QED BY <1>2, <1>3, <1>4

--------------------------------------------------------------------------
(* Keys of printers.                                                       *)

\* What a state of a session is in the lemmas on keys.
Context(d, ring, q, list, bad) ==
    d \in Desk /\ ring \in BOOLEAN /\ bad \in BOOLEAN /\ q \in Seq(Call) /\ list \in Printers

LEMMA QueueDomain ==
  ASSUME NEW q \in Seq(Call)
  PROVE  Len(q) \in Nat /\ DOMAIN q = 1..Len(q) /\ \A i \in DOMAIN q : q[i] \in Call
OBVIOUS

\* Calls that neither list, save nor delete come and go.
LEMMA KeysInvQueue ==
  ASSUME NEW d, NEW e, NEW ring, NEW q, NEW list, NEW bad, Context(d, ring, q, list, bad), KeysOk(d, ring, q, list, bad),
         NEW r \in Seq(Call), NEW k \in {0, 1}, NEW new \in SUBSET Call, Became(q, k, new, r),
         e.mem = d.mem, e.keys = d.keys,
         k = 1 => q # <<>> /\ q[1].do \notin {"list", "save"},
         \A c \in new : c.do # "delete" /\ (c.do = "delkey" => list # <<>>)
  PROVE  KeysOk(e, ring, r, list, bad)
<1>1. PICK n, m \in Nat : n = Len(q) /\ DOMAIN q = 1..n /\ DOMAIN r = 1..m
  BY QueueDomain DEF Context
<1>2. /\ \A i \in 1..n : k < i => i - k \in 1..m /\ r[i - k] = q[i]
      /\ \A i \in 1..m : (i + k \in 1..n /\ r[i] = q[i + k]) \/ (i + k = n + 1 /\ r[i] \in new)
  BY <1>1 DEF Became
<1>3. \A i \in 1..n, id \in Id : SavedBy(q, i, id) => k < i /\ i - k \in 1..m /\ SavedBy(r, i - k, id)
  BY <1>1, <1>2 DEF SavedBy
<1>4. ASSUME ~bad, Starting(d, q, list) PROVE Starting(e, r, list)
  <2>1. k = 0 /\ 1 \in 1..n /\ r[1] = q[1] /\ r # <<>>
    BY <1>1, <1>2, <1>4 DEF Starting
  <2>2. \A i \in 1..m : r[i].do \notin {"delkey", "delete"}
    BY <1>1, <1>2, <1>4, <2>1 DEF Starting
  <2> QED BY <1>1, <1>4, <2>1, <2>2 DEF Starting
<1>5. ASSUME ~bad, NEW i \in 1..m, r[i].do = "delete", e.keys[r[i].id] # NoKey
      PROVE  \E j \in 1..m : i < j /\ SavedBy(r, j, r[i].id)
  <2>1. i + k \in 1..n /\ r[i] = q[i + k] /\ r[i].id \in Id
    BY <1>1, <1>2, <1>5, CallFacts DEF Context
  <2>2. PICK j \in 1..n : i + k < j /\ SavedBy(q, j, r[i].id)
    BY <1>1, <1>5, <2>1 DEF KeysOk
  <2>3. j - k \in 1..m /\ i < j - k /\ SavedBy(r, j - k, r[i].id)
    BY <1>3, <2>1, <2>2
  <2> QED BY <2>3
<1>6. ASSUME ~bad, NEW id \in Id, e.keys[id] # NoKey
      PROVE  id \in DOMAIN e.mem \/ \E i \in 1..m : SavedBy(r, i, id)
  BY <1>1, <1>3, <1>6 DEF KeysOk
<1>7. bad \/ list = d.mem \/ \E i \in 1..m : r[i].do = "list"
  <2>1. bad \/ list = d.mem \/ \E i \in 1..n : q[i].do = "list"
    BY <1>1 DEF KeysOk
  <2>2. \A i \in 1..n : q[i].do = "list" => k < i
    BY <1>1
  <2> QED BY <1>2, <2>1, <2>2
<1> QED BY <1>1, <1>4, <1>5, <1>6, <1>7 DEF KeysOk

\* Where a call failed, only the keychain's absence matters.
LEMMA KeysInvFaulty ==
  ASSUME NEW d, NEW e, NEW ring, NEW q, NEW list, NEW bad, KeysOk(d, ring, q, list, bad),
         NEW r, NEW listed, ring \/ \A id \in Id : e.keys[id] \in {d.keys[id], NoKey}
  PROVE  KeysOk(e, ring, r, listed, TRUE)
BY DEF KeysOk

\* The calls q and then r: the first is answered, and there may be one more.
Shifted(q, r, new, n, m) ==
    /\ n = Len(q) /\ DOMAIN q = 1..n /\ DOMAIN r = 1..m /\ 1 \in 1..n
    /\ \A i \in 1..n : 1 < i => i - 1 \in 1..m /\ r[i - 1] = q[i]
    /\ \A i \in 1..m : (i + 1 \in 1..n /\ r[i] = q[i + 1]) \/ (i = n /\ r[i] \in new)
    /\ \A c \in new : n \in 1..m /\ r[n] = c
    /\ \A i \in 1..n : \A id : SavedBy(q, i, id) /\ 1 < i => i - 1 \in 1..m /\ SavedBy(r, i - 1, id)

\* An answer takes the first call of the queue.
LEMMA Dequeued ==
  ASSUME NEW q \in Seq(Call), q # <<>>, NEW r \in Seq(Call), NEW new, Became(q, 1, new, r)
  PROVE  \E n, m \in Nat : Shifted(q, r, new, n, m)
<1>1. PICK n, m \in Nat : n = Len(q) /\ DOMAIN q = 1..n /\ DOMAIN r = 1..m
  BY QueueDomain
<1>2. n # 0
  BY <1>1
<1>3. \A i \in 1..n : 1 < i => i - 1 \in 1..m /\ r[i - 1] = q[i]
  BY <1>1 DEF Became
<1>4. \A i \in 1..m : (i + 1 \in 1..n /\ r[i] = q[i + 1]) \/ (i = n /\ r[i] \in new)
  <2>1. \A i \in 1..m : (i + 1 \in 1..n /\ r[i] = q[i + 1]) \/ (i + 1 = n + 1 /\ r[i] \in new)
    BY <1>1 DEF Became
  <2> QED BY <2>1
<1>5. \A c \in new : n \in 1..m /\ r[n] = c
  <2>1. n + 1 - 1 = n
    OBVIOUS
  <2>2. \A c \in new : n + 1 - 1 \in 1..m /\ r[n + 1 - 1] = c
    BY <1>1 DEF Became
  <2> QED BY <2>1, <2>2
<1>6. \A i \in 1..n : \A id : SavedBy(q, i, id) /\ 1 < i => i - 1 \in 1..m /\ SavedBy(r, i - 1, id)
  BY <1>3 DEF SavedBy
<1>7. 1 \in 1..n
  BY <1>2
<1> QED BY <1>1, <1>3, <1>4, <1>5, <1>6, <1>7 DEF Shifted

\* The answers to calls that read or write all printers.
LEMMA KeysInvList ==
  ASSUME NEW d, NEW q, NEW list, NEW bad, Context(d, keyring, q, list, bad), KeysOk(d, keyring, q, list, bad),
         q # <<>>, q[1].do = "list", NEW r \in Seq(Call), Became(q, 1, {}, r), NEW o \in ReadAll(d)
  PROVE  KeysOk(o.d, keyring, r, Strip(o.d.mem), bad \/ ~o.ok)
<1>1. /\ o.d \in Desk /\ o.ok \in BOOLEAN /\ o.d.mem = Strip(d.mem)
      /\ Keyless(d.mem) => o.d = d
      /\ \A id \in Id : \/ o.d.keys[id] = d.keys[id]
                        \/ keyring /\ id \in DOMAIN d.mem /\ o.d.keys[id] = d.mem[id].key /\ d.mem[id].key # NoKey
  BY ReadAllFacts DEF Context
<1>2. Keyless(o.d.mem) /\ DOMAIN o.d.mem = DOMAIN d.mem /\ Strip(o.d.mem) = o.d.mem
  <2>1. d.mem \in Printers /\ o.d.mem \in Printers
    BY <1>1 DEF Context, Desk
  <2> QED BY <1>1, <2>1, ListFacts
<1>3. PICK n, m \in Nat : n = Len(q) /\ DOMAIN q = 1..n /\ DOMAIN r = 1..m
  BY QueueDomain DEF Context
<1>4. /\ \A i \in 1..n : 1 < i => i - 1 \in 1..m /\ r[i - 1] = q[i]
      /\ \A i \in 1..m : i + 1 \in 1..n /\ r[i] = q[i + 1]
  BY <1>3 DEF Became
<1>5. CASE bad \/ ~o.ok
  <2>1. keyring \/ \A id \in Id : o.d.keys[id] \in {d.keys[id], NoKey}
    BY <1>1
  <2> QED BY <1>5, <2>1, KeysInvFaulty
<1>6. CASE ~bad /\ o.ok
  <2>1. keyring \/ \A id \in Id : o.d.keys[id] = NoKey
    BY <1>1 DEF KeysOk
  <2>2. ASSUME NEW i \in 1..m, r[i].do = "delete", o.d.keys[r[i].id] # NoKey
        PROVE  \E j \in 1..m : i < j /\ SavedBy(r, j, r[i].id)
    <3>0. i + 1 \in 1..n /\ r[i] = q[i + 1]
      BY <1>4
    <3>4. ~Starting(d, q, list)
      BY <1>3, <2>2, <3>0 DEF Starting
    <3>1. i + 1 \in 1..n /\ r[i] = q[i + 1] /\ Keyless(d.mem)
      BY <1>6, <3>0, <3>4 DEF KeysOk
    <3>2. PICK j \in 1..n : i + 1 < j /\ SavedBy(q, j, r[i].id)
      BY <1>1, <1>3, <1>6, <2>2, <3>1 DEF KeysOk
    <3>3. j - 1 \in 1..m /\ i < j - 1 /\ SavedBy(r, j - 1, r[i].id)
      BY <1>4, <3>1, <3>2 DEF SavedBy
    <3> QED BY <3>3
  <2>3. ASSUME NEW id \in Id, o.d.keys[id] # NoKey
        PROVE  id \in DOMAIN o.d.mem \/ \E i \in 1..m : SavedBy(r, i, id)
    <3>1. CASE Starting(d, q, list)
      BY <1>1, <1>2, <2>3, <3>1 DEF Starting
    <3>2. CASE Keyless(d.mem)
      <4>1. id \in DOMAIN d.mem \/ \E i \in 1..n : SavedBy(q, i, id)
        BY <1>1, <1>3, <1>6, <2>3, <3>2 DEF KeysOk
      <4>2. \A i \in 1..n : SavedBy(q, i, id) => i - 1 \in 1..m /\ SavedBy(r, i - 1, id)
        BY <1>3, <1>4 DEF SavedBy
      <4> QED BY <1>2, <4>1, <4>2
    <3> QED BY <1>6, <3>1, <3>2 DEF KeysOk
  <2> QED BY <1>2, <1>3, <2>1, <2>2, <2>3 DEF KeysOk
<1> QED BY <1>1, <1>5, <1>6 DEF Context

\* A key is stored and its record is to be saved.
LEMMA KeysInvSetKey ==
  ASSUME NEW d, NEW q, NEW list, NEW bad, Context(d, keyring, q, list, bad), KeysOk(d, keyring, q, list, bad),
         q # <<>>, q[1].do = "setkey", NEW r \in Seq(Call), NEW c \in Call, Became(q, 1, {c}, r),
         c.do = "save", c.target = q[1].target,
         NEW e, e.mem = d.mem, \A id \in Id : e.keys[id] = d.keys[id] \/ (keyring /\ id = c.target.id)
  PROVE  KeysOk(e, keyring, r, list, bad)
<1>0. q \in Seq(Call)
  BY DEF Context
<1>10. PICK new : new = {c}
  OBVIOUS
<1>11. Became(q, 1, new, r)
  BY <1>10
<1>20. PICK n, m \in Nat : Shifted(q, r, new, n, m)
  BY <1>0, <1>11, Dequeued
<1>1. /\ n = Len(q) /\ DOMAIN q = 1..n /\ DOMAIN r = 1..m /\ 1 \in 1..n
      /\ \A i \in 1..n : 1 < i => i - 1 \in 1..m /\ r[i - 1] = q[i]
      /\ \A i \in 1..m : (i + 1 \in 1..n /\ r[i] = q[i + 1]) \/ (i = n /\ r[i] \in new)
      /\ \A x \in new : n \in 1..m /\ r[n] = x
      /\ \A i \in 1..n : \A id : SavedBy(q, i, id) /\ 1 < i => i - 1 \in 1..m /\ SavedBy(r, i - 1, id)
  BY <1>20 DEF Shifted
<1>2. /\ \A i \in 1..n : 1 < i => i - 1 \in 1..m /\ r[i - 1] = q[i]
      /\ \A i \in 1..m : (i + 1 \in 1..n /\ r[i] = q[i + 1]) \/ (i = n /\ r[i] = c)
      /\ n \in 1..m /\ r[n] = c
  BY <1>1, <1>10
<1>3. \A i \in 1..n, id \in Id : SavedBy(q, i, id) => i - 1 \in 1..m /\ SavedBy(r, i - 1, id)
  <2>1. \A i \in 1..n, id \in Id : SavedBy(q, i, id) => 1 < i
    BY <1>1 DEF SavedBy
  <2> QED BY <1>1, <2>1
<1>4. SavedBy(r, n, c.target.id)
  BY <1>2 DEF SavedBy
<1>5. ~bad => Keyless(d.mem)
  BY DEF KeysOk, Starting
<1>6. keyring \/ \A id \in Id : e.keys[id] = NoKey
  BY DEF KeysOk
<1>7. ASSUME ~bad, NEW i \in 1..m, r[i].do = "delete", e.keys[r[i].id] # NoKey
      PROVE  \E j \in 1..m : i < j /\ SavedBy(r, j, r[i].id)
  <2>1. i + 1 \in 1..n /\ r[i] = q[i + 1]
    BY <1>2, <1>7
  <2>2. r[i].id \in Id
    BY <1>1, <1>7, <2>1, QueueDomain, CallFacts DEF Context
  <2>3. CASE e.keys[r[i].id] = d.keys[r[i].id]
    <3>1. PICK j \in 1..n : i + 1 < j /\ SavedBy(q, j, r[i].id)
      <4>1. \A x \in 1..n : q[x].do = "delete" /\ d.keys[q[x].id] # NoKey =>
                 \E j \in 1..n : x < j /\ SavedBy(q, j, q[x].id)
        BY <1>1, <1>7 DEF KeysOk
      <4> QED BY <1>7, <2>1, <2>3, <4>1
    <3>2. j - 1 \in 1..m /\ i < j - 1 /\ SavedBy(r, j - 1, r[i].id)
      BY <1>3, <2>1, <2>2, <3>1
    <3> QED BY <3>2
  <2>4. CASE r[i].id = c.target.id
    BY <1>2, <1>4, <2>1, <2>4
  <2> QED BY <2>2, <2>3, <2>4
<1>8. ASSUME ~bad, NEW id \in Id, e.keys[id] # NoKey
      PROVE  id \in DOMAIN e.mem \/ \E i \in 1..m : SavedBy(r, i, id)
  <2>1. CASE id = c.target.id
    BY <1>2, <1>4, <2>1
  <2>2. CASE e.keys[id] = d.keys[id]
    BY <1>1, <1>3, <1>8, <2>2 DEF KeysOk
  <2> QED BY <2>1, <2>2
<1>9. bad \/ list = e.mem \/ \E i \in 1..m : r[i].do = "list"
  <2>1. bad \/ list = d.mem \/ \E i \in 1..n : q[i].do = "list"
    BY <1>1 DEF KeysOk
  <2>2. \A i \in 1..n : q[i].do = "list" => 1 < i
    BY <1>1
  <2> QED BY <1>1, <2>1, <2>2
<1> QED BY <1>1, <1>5, <1>6, <1>7, <1>8, <1>9 DEF KeysOk

\* A record is saved: the panel takes the list, or the list is asked for.
LEMMA KeysInvSave ==
  ASSUME NEW d, NEW q, NEW list, NEW bad, Context(d, keyring, q, list, bad), KeysOk(d, keyring, q, list, bad),
         q # <<>>, q[1].do = "save", NEW r \in Seq(Call), NEW new, Became(q, 1, new, r),
         NEW t \in Target, t.key = NoKey, t.id = q[1].target.id, NEW o \in SavePrinter(d, t), NEW listed \in Printers,
         o.ok => (listed = o.d.mem \/ [do |-> "list"] \in new), new \in {{}, {[do |-> "list"]}}
  PROVE  KeysOk(o.d, keyring, r, listed, bad \/ ~o.ok)
<1>0. q \in Seq(Call)
  BY DEF Context
<1>20. PICK n, m \in Nat : Shifted(q, r, new, n, m)
  BY <1>0, Dequeued
<1>1. /\ n = Len(q) /\ DOMAIN q = 1..n /\ DOMAIN r = 1..m /\ 1 \in 1..n
      /\ \A i \in 1..n : 1 < i => i - 1 \in 1..m /\ r[i - 1] = q[i]
      /\ \A i \in 1..m : (i + 1 \in 1..n /\ r[i] = q[i + 1]) \/ (i = n /\ r[i] \in new)
      /\ \A x \in new : n \in 1..m /\ r[n] = x
      /\ \A i \in 1..n : \A id : SavedBy(q, i, id) /\ 1 < i => i - 1 \in 1..m /\ SavedBy(r, i - 1, id)
  BY <1>20 DEF Shifted
<1>2. /\ \A i \in 1..n : 1 < i => i - 1 \in 1..m /\ r[i - 1] = q[i]
      /\ \A i \in 1..m : (i + 1 \in 1..n /\ r[i] = q[i + 1]) \/ (i = n /\ r[i] \in new)
      /\ \A c \in new : n \in 1..m /\ r[n] = c
  BY <1>1
<1>3. PICK u \in ReadAll(d) : o.d.mem = Upsert(u.d.mem, t) /\ o.d.keys = u.d.keys
  BY SavePrinterFacts DEF Context
<1>4. o.ok \in BOOLEAN /\ d \in Desk /\ d.mem \in Printers
  BY SavePrinterFacts DEF Context, Desk
<1>5. /\ Keyless(d.mem) => u.d = d
      /\ \A id \in Id : \/ u.d.keys[id] = d.keys[id]
                        \/ keyring
  BY <1>4, ReadAllFacts
<1>6. keyring \/ \A id \in Id : o.d.keys[id] \in {d.keys[id], NoKey}
  BY <1>3, <1>5
<1>7. CASE bad \/ ~o.ok
  BY <1>6, <1>7, KeysInvFaulty
<1>8. CASE ~bad /\ o.ok
  <2>1. Keyless(d.mem) /\ u.d = d
    BY <1>5, <1>8 DEF KeysOk, Starting
  <2>2. o.d.mem = Upsert(d.mem, t) /\ o.d.keys = d.keys /\ Keyless(o.d.mem) /\ DOMAIN o.d.mem = DOMAIN d.mem \cup {t.id}
    BY <1>3, <1>4, <2>1, UpsertFacts, ZenonT(30)
  <2>3. \A i \in 1..n, id \in Id : SavedBy(q, i, id) => id = t.id \/ (i - 1 \in 1..m /\ SavedBy(r, i - 1, id))
    <3>1. \A i \in 1..n, id \in Id : SavedBy(q, i, id) => 1 < i \/ id = t.id
      BY <1>1 DEF SavedBy
    <3> QED BY <1>1, <3>1
  <2>4. ASSUME NEW i \in 1..m, r[i].do = "delete", o.d.keys[r[i].id] # NoKey
        PROVE  \E j \in 1..m : i < j /\ SavedBy(r, j, r[i].id)
    <3>1. i + 1 \in 1..n /\ r[i] = q[i + 1]
      <4>1. \A x \in new : x.do # "delete"
        OBVIOUS
      <4> QED BY <1>2, <2>4, <4>1
    <3>2. PICK j \in 1..n : i + 1 < j /\ SavedBy(q, j, r[i].id)
      BY <1>1, <1>8, <2>2, <2>4, <3>1 DEF KeysOk
    <3>3. j - 1 \in 1..m /\ i < j - 1 /\ SavedBy(r, j - 1, r[i].id)
      BY <1>1, <3>1, <3>2
    <3> QED BY <3>3
  <2>5. ASSUME NEW id \in Id, o.d.keys[id] # NoKey
        PROVE  id \in DOMAIN o.d.mem \/ \E i \in 1..m : SavedBy(r, i, id)
    <3>1. id \in DOMAIN d.mem \/ \E i \in 1..n : SavedBy(q, i, id)
      BY <1>1, <1>8, <2>2, <2>5 DEF KeysOk
    <3> QED BY <2>2, <2>3, <3>1
  <2>6. listed = o.d.mem \/ \E i \in 1..m : r[i].do = "list"
    BY <1>2, <1>8
  <2>7. keyring \/ \A id \in Id : o.d.keys[id] = NoKey
    BY <2>2 DEF KeysOk
  <2> QED BY <1>1, <2>2, <2>4, <2>5, <2>6, <2>7 DEF KeysOk
<1> QED BY <1>4, <1>7, <1>8 DEF Context

\* The first call of a delete, of the key.
LEMMA KeysInvDeleteKey ==
  ASSUME NEW d, NEW q, NEW list, NEW bad, Context(d, keyring, q, list, bad), KeysOk(d, keyring, q, list, bad),
         q # <<>>, q[1].do = "delkey", NEW r \in Seq(Call), NEW c \in Call, Became(q, 1, {c}, r),
         c.do = "delete", c.id = q[1].id,
         NEW e, e.mem = d.mem, \A id \in Id : e.keys[id] = d.keys[id] \/ e.keys[id] = NoKey,
         NEW worse \in BOOLEAN, worse \/ e.keys[c.id] = NoKey
  PROVE  KeysOk(e, keyring, r, list, bad \/ worse)
<1>0. q \in Seq(Call)
  BY DEF Context
<1>10. PICK new : new = {c}
  OBVIOUS
<1>11. Became(q, 1, new, r)
  BY <1>10
<1>20. PICK n, m \in Nat : Shifted(q, r, new, n, m)
  BY <1>0, <1>11, Dequeued
<1>1. /\ n = Len(q) /\ DOMAIN q = 1..n /\ DOMAIN r = 1..m /\ 1 \in 1..n
      /\ \A i \in 1..n : 1 < i => i - 1 \in 1..m /\ r[i - 1] = q[i]
      /\ \A i \in 1..m : (i + 1 \in 1..n /\ r[i] = q[i + 1]) \/ (i = n /\ r[i] \in new)
      /\ \A x \in new : n \in 1..m /\ r[n] = x
      /\ \A i \in 1..n : \A id : SavedBy(q, i, id) /\ 1 < i => i - 1 \in 1..m /\ SavedBy(r, i - 1, id)
  BY <1>20 DEF Shifted
<1>2. /\ \A i \in 1..n : 1 < i => i - 1 \in 1..m /\ r[i - 1] = q[i]
      /\ \A i \in 1..m : (i + 1 \in 1..n /\ r[i] = q[i + 1]) \/ (i = n /\ r[i] = c)
  BY <1>1, <1>10
<1>3. \A i \in 1..n, id \in Id : SavedBy(q, i, id) => i - 1 \in 1..m /\ SavedBy(r, i - 1, id)
  <2>1. \A i \in 1..n, id \in Id : SavedBy(q, i, id) => 1 < i
    BY <1>1 DEF SavedBy
  <2> QED BY <1>1, <2>1
<1>4. CASE bad \/ worse
  BY <1>4, KeysInvFaulty
<1>5. CASE ~bad /\ ~worse
  <2>1. Keyless(d.mem)
    BY <1>5 DEF KeysOk, Starting
  <2>2. keyring \/ \A id \in Id : e.keys[id] = NoKey
    BY DEF KeysOk
  <2>3. ASSUME NEW i \in 1..m, r[i].do = "delete", e.keys[r[i].id] # NoKey
        PROVE  \E j \in 1..m : i < j /\ SavedBy(r, j, r[i].id)
    <3>1. i + 1 \in 1..n /\ r[i] = q[i + 1]
      BY <1>2, <1>5, <2>3
    <3>2. r[i].id \in Id
      BY <1>1, <2>3, <3>1, QueueDomain, CallFacts DEF Context
    <3>3. PICK j \in 1..n : i + 1 < j /\ SavedBy(q, j, r[i].id)
      <4>1. \A x \in 1..n : q[x].do = "delete" /\ d.keys[q[x].id] # NoKey =>
                 \E j \in 1..n : x < j /\ SavedBy(q, j, q[x].id)
        BY <1>1, <1>5 DEF KeysOk
      <4>2. d.keys[r[i].id] # NoKey
        BY <2>3, <3>2
      <4> QED BY <2>3, <3>1, <4>1, <4>2
    <3>4. j - 1 \in 1..m /\ i < j - 1 /\ SavedBy(r, j - 1, r[i].id)
      BY <1>3, <3>1, <3>2, <3>3
    <3> QED BY <3>4
  <2>4. ASSUME NEW id \in Id, e.keys[id] # NoKey
        PROVE  id \in DOMAIN e.mem \/ \E i \in 1..m : SavedBy(r, i, id)
    BY <1>1, <1>3, <1>5, <2>4 DEF KeysOk
  <2>5. list = e.mem \/ \E i \in 1..m : r[i].do = "list"
    <3>1. list = d.mem \/ \E i \in 1..n : q[i].do = "list"
      BY <1>1, <1>5 DEF KeysOk
    <3>2. \A i \in 1..n : q[i].do = "list" => 1 < i
      BY <1>1
    <3> QED BY <1>1, <3>1, <3>2
  <2> QED BY <1>1, <1>5, <2>1, <2>2, <2>3, <2>4, <2>5 DEF KeysOk
<1> QED BY <1>4, <1>5 DEF Context

\* The second: the record is gone, and a key that is left has a save to come.
LEMMA KeysInvDelete ==
  ASSUME NEW d, NEW q, NEW list, NEW bad, Context(d, keyring, q, list, bad), KeysOk(d, keyring, q, list, bad),
         q # <<>>, q[1].do = "delete", NEW r \in Seq(Call), Became(q, 1, {}, r), NEW o \in DeletePrinter(d, q[1].id),
         NEW listed \in Printers, o.ok => listed = o.d.mem
  PROVE  KeysOk(o.d, keyring, r, listed, bad \/ ~o.ok)
<1>0. q \in Seq(Call)
  BY DEF Context
<1>20. PICK n, m \in Nat : Shifted(q, r, {}, n, m)
  BY <1>0, Dequeued
<1>1. /\ n = Len(q) /\ DOMAIN q = 1..n /\ DOMAIN r = 1..m /\ 1 \in 1..n
      /\ \A i \in 1..n : 1 < i => i - 1 \in 1..m /\ r[i - 1] = q[i]
      /\ \A i \in 1..m : (i + 1 \in 1..n /\ r[i] = q[i + 1]) \/ (i = n /\ r[i] \in {})
      /\ \A x \in {} : n \in 1..m /\ r[n] = x
      /\ \A i \in 1..n : \A id : SavedBy(q, i, id) /\ 1 < i => i - 1 \in 1..m /\ SavedBy(r, i - 1, id)
  BY <1>20 DEF Shifted
<1>2. /\ \A i \in 1..n : 1 < i => i - 1 \in 1..m /\ r[i - 1] = q[i]
      /\ \A i \in 1..m : i + 1 \in 1..n /\ r[i] = q[i + 1]
  BY <1>1
<1>3. PICK gone \in Id : gone = q[1].id /\ o \in DeletePrinter(d, gone)
  BY <1>1, QueueDomain, CallFacts DEF Context
<1>10. d \in Desk
  BY DEF Context
<1>4. PICK u \in ReadAll(d) : /\ o.d.mem = Restrict(u.d.mem, DOMAIN u.d.mem \ {gone})
                              /\ \A x \in Id : o.d.keys[x] \in {u.d.keys[x], NoKey}
  <2>1. o \in DeletePrinter(d, gone)
    BY <1>3
  <2>2. /\ o \in [d: Desk, ok: BOOLEAN]
        /\ \E u \in ReadAll(d) : /\ o.d.mem = Restrict(u.d.mem, DOMAIN u.d.mem \ {gone})
                                 /\ \A x \in Id : o.d.keys[x] \in {u.d.keys[x], NoKey}
        /\ o.d.file \in {d.file, o.d.mem} \/ Keyless(o.d.file)
    BY <1>10, <2>1, DeletePrinterFacts
  <2> QED BY <2>2, Zenon
<1>5. o.ok \in BOOLEAN /\ d \in Desk /\ d.mem \in Printers
  BY <1>3, DeletePrinterFacts DEF Context, Desk
<1>6. /\ Keyless(d.mem) => u.d = d
      /\ \A id \in Id : \/ u.d.keys[id] = d.keys[id]
                        \/ keyring
  BY <1>5, ReadAllFacts
<1>7. keyring \/ \A id \in Id : o.d.keys[id] \in {d.keys[id], NoKey}
  BY <1>4, <1>6
<1>8. CASE bad \/ ~o.ok
  BY <1>7, <1>8, KeysInvFaulty
<1>9. CASE ~bad /\ o.ok
  <2>1. Keyless(d.mem) /\ u.d = d
    BY <1>6, <1>9 DEF KeysOk, Starting
  <2>2. Keyless(o.d.mem) /\ DOMAIN o.d.mem = DOMAIN d.mem \ {gone}
    <3>1. PICK less : less = Restrict(d.mem, DOMAIN d.mem \ {gone})
      OBVIOUS
    <3>2. o.d.mem = less
      BY <1>4, <2>1, <3>1
    <3>3. DOMAIN less = DOMAIN d.mem \ {gone} /\ (Keyless(d.mem) => Keyless(less))
      BY <1>5, <3>1, RestrictFacts
    <3> QED BY <2>1, <3>2, <3>3
  <2>3. \A i \in 1..n, id \in Id : SavedBy(q, i, id) => i - 1 \in 1..m /\ SavedBy(r, i - 1, id)
    <3>1. \A i \in 1..n, id \in Id : SavedBy(q, i, id) => 1 < i
      BY <1>1 DEF SavedBy
    <3> QED BY <1>1, <3>1
  <2>4. ASSUME NEW i \in 1..m, r[i].do = "delete", o.d.keys[r[i].id] # NoKey
        PROVE  \E j \in 1..m : i < j /\ SavedBy(r, j, r[i].id)
    <3>1. i + 1 \in 1..n /\ r[i] = q[i + 1]
      BY <1>2
    <3>2. r[i].id \in Id
      BY <1>1, <2>4, <3>1, QueueDomain, CallFacts DEF Context
    <3>3. d.keys[r[i].id] # NoKey
      BY <1>4, <2>1, <2>4, <3>2
    <3>4. PICK j \in 1..n : i + 1 < j /\ SavedBy(q, j, r[i].id)
      <4>1. \A x \in 1..n : q[x].do = "delete" /\ d.keys[q[x].id] # NoKey =>
                 \E j \in 1..n : x < j /\ SavedBy(q, j, q[x].id)
        BY <1>1, <1>9 DEF KeysOk
      <4> QED BY <2>4, <3>1, <3>3, <4>1
    <3>5. j - 1 \in 1..m /\ i < j - 1 /\ SavedBy(r, j - 1, r[i].id)
      BY <2>3, <3>1, <3>2, <3>4
    <3> QED BY <3>5
  <2>5. ASSUME NEW id \in Id, o.d.keys[id] # NoKey
        PROVE  id \in DOMAIN o.d.mem \/ \E i \in 1..m : SavedBy(r, i, id)
    <3>1. d.keys[id] # NoKey
      BY <1>4, <2>1, <2>5
    <3>2. CASE id = gone
      <4>1. \E j \in 1..n : SavedBy(q, j, id)
        BY <1>1, <1>3, <1>9, <3>1, <3>2 DEF KeysOk
      <4> QED BY <2>3, <4>1
    <3>3. CASE id # gone
      <4>1. id \in DOMAIN d.mem \/ \E i \in 1..n : SavedBy(q, i, id)
        BY <1>1, <1>9, <3>1 DEF KeysOk
      <4> QED BY <2>2, <2>3, <3>3, <4>1
    <3> QED BY <3>2, <3>3
  <2>6. keyring \/ \A id \in Id : o.d.keys[id] = NoKey
    BY <1>7 DEF KeysOk
  <2> QED BY <1>1, <1>9, <2>2, <2>4, <2>5, <2>6 DEF KeysOk
<1> QED BY <1>5, <1>8, <1>9 DEF Context

--------------------------------------------------------------------------
(* The clicks of the user.                                                 *)

\* A form is a target; what is typed, or taken from a scan, is one.
LEMMA TargetFacts ==
  /\ \A t \in BlankTarget : t \in Target /\ t.key = NoKey
  /\ \A f \in Found : AsTarget(f) \in Target
  /\ \A t \in Target, h \in Host, k \in OrNoKey : [t EXCEPT !.host = h, !.key = k] \in Target
  /\ \A t \in Target, k \in OrNoKey : [t EXCEPT !.key = k] \in Target /\ [t EXCEPT !.key = k].key = k /\ [t EXCEPT !.key = k].id = t.id
<1>1. NoKey \in OrNoKey
  BY DEF OrNoKey
<1>2. \A t \in BlankTarget : t \in Target /\ t.key = NoKey
  <2> TAKE t \in BlankTarget
  <2>1. PICK id \in NewId : t = [id |-> id, host |-> Blank, key |-> NoKey]
    BY DEF BlankTarget
  <2> QED BY <1>1, <2>1, PrintersAssumption DEF Target
<1>3. \A f \in Found : AsTarget(f) \in Target
  BY <1>1, PrintersAssumption DEF AsTarget, Target
<1>4. \A t \in Target, h \in Host, k \in OrNoKey : [t EXCEPT !.host = h, !.key = k] \in Target
  <2> TAKE t \in Target, h \in Host, k \in OrNoKey
  <2>1. PICK e : e = [t EXCEPT !.host = h, !.key = k]
    OBVIOUS
  <2>2. e = [id |-> t.id, host |-> h, key |-> k]
    BY <2>1 DEF Target
  <2>3. e \in Target
    BY <2>2 DEF Target
  <2> QED BY <2>1, <2>3
<1>5. \A t \in Target, k \in OrNoKey : [t EXCEPT !.key = k] \in Target /\ [t EXCEPT !.key = k].key = k /\ [t EXCEPT !.key = k].id = t.id
  BY DEF Target
<1> QED BY <1>2, <1>3, <1>4, <1>5

\* An open wizard, and one with other fields.
OpenWizards == {w \in Wizard : w.step # "closed"}

LEMMA WizardFields ==
  ASSUME NEW w \in OpenWizards, NEW step \in {"discover", "details", "test"}, NEW t \in Target, NEW probed \in SUBSET Target, NEW b \in BOOLEAN
  PROVE  /\ w.n \in Nat /\ w.target \in Target /\ w.target.key \in OrNoKey /\ w.scanning \in BOOLEAN /\ w.saving \in BOOLEAN
         /\ [w EXCEPT !.picked = TRUE, !.target = t, !.probed = {}] \in Wizard
         /\ [w EXCEPT !.scanning = b] \in OpenWizards /\ [w EXCEPT !.scanning = b].target = w.target
         /\ [w EXCEPT !.picked = FALSE, !.target = t, !.probed = {}, !.step = "details"] \in Wizard
         /\ [w EXCEPT !.target = t] \in Wizard
         /\ [w EXCEPT !.step = "test", !.testing = TRUE, !.probed = {}] \in Wizard
         /\ [w EXCEPT !.step = step] \in Wizard
         /\ [w EXCEPT !.step = "details", !.probed = {}] \in Wizard
         /\ [w EXCEPT !.saving = b] \in Wizard
         /\ [w EXCEPT !.testing = b] \in OpenWizards
         /\ [w EXCEPT !.probed = probed] \in Wizard
         /\ [w EXCEPT !.found = FALSE, !.picked = FALSE] \in Wizard
         /\ [w EXCEPT !.found = TRUE, !.picked = TRUE, !.target = t] \in Wizard
<1> DEFINE Rec(st, fo, pi, ta, te, sc, sa, pr) ==
             [n |-> w.n, step |-> st, found |-> fo, picked |-> pi, target |-> ta,
              testing |-> te, scanning |-> sc, saving |-> sa, probed |-> pr]
<1>1. /\ w.n \in Nat /\ w.step \in {"discover", "details", "test"} /\ w.found \in BOOLEAN /\ w.picked \in BOOLEAN
      /\ w.target \in Target /\ w.testing \in BOOLEAN /\ w.scanning \in BOOLEAN /\ w.saving \in BOOLEAN /\ w.probed \in SUBSET Target
      /\ w = Rec(w.step, w.found, w.picked, w.target, w.testing, w.scanning, w.saving, w.probed)
  BY DEF OpenWizards, Wizard
<1>3. w.target.key \in OrNoKey
  BY <1>1 DEF Target
<1>4. PICK x : x = [w EXCEPT !.picked = TRUE, !.target = t, !.probed = {}]
  OBVIOUS
<1>5. x = Rec(w.step, w.found, TRUE, t, w.testing, w.scanning, w.saving, {})
  BY <1>1, <1>4
<1>6. [w EXCEPT !.scanning = b] = Rec(w.step, w.found, w.picked, w.target, w.testing, b, w.saving, w.probed)
  BY <1>1
<1>7. PICK y : y = [w EXCEPT !.picked = FALSE, !.target = t, !.probed = {}, !.step = "details"]
  OBVIOUS
<1>8. y = Rec("details", w.found, FALSE, t, w.testing, w.scanning, w.saving, {})
  BY <1>1, <1>7
<1>9. [w EXCEPT !.target = t] = Rec(w.step, w.found, w.picked, t, w.testing, w.scanning, w.saving, w.probed)
  BY <1>1
<1>10. PICK z : z = [w EXCEPT !.step = "test", !.testing = TRUE, !.probed = {}]
  OBVIOUS
<1>11. z = Rec("test", w.found, w.picked, w.target, TRUE, w.scanning, w.saving, {})
  BY <1>1, <1>10
<1>12. [w EXCEPT !.step = step] = Rec(step, w.found, w.picked, w.target, w.testing, w.scanning, w.saving, w.probed)
  BY <1>1
<1>13. PICK u : u = [w EXCEPT !.step = "details", !.probed = {}]
  OBVIOUS
<1>14. u = Rec("details", w.found, w.picked, w.target, w.testing, w.scanning, w.saving, {})
  BY <1>1, <1>13
<1>15. [w EXCEPT !.saving = b] = Rec(w.step, w.found, w.picked, w.target, w.testing, w.scanning, b, w.probed)
  BY <1>1
<1>16. [w EXCEPT !.testing = b] = Rec(w.step, w.found, w.picked, w.target, b, w.scanning, w.saving, w.probed)
  BY <1>1
<1>17. [w EXCEPT !.probed = probed] = Rec(w.step, w.found, w.picked, w.target, w.testing, w.scanning, w.saving, probed)
  BY <1>1
<1>18. PICK v : v = [w EXCEPT !.found = FALSE, !.picked = FALSE]
  OBVIOUS
<1>19. v = Rec(w.step, FALSE, FALSE, w.target, w.testing, w.scanning, w.saving, w.probed)
  BY <1>1, <1>18
<1>20. PICK s : s = [w EXCEPT !.found = TRUE, !.picked = TRUE, !.target = t]
  OBVIOUS
<1>21. s = Rec(w.step, TRUE, TRUE, t, w.testing, w.scanning, w.saving, w.probed)
  BY <1>1, <1>20
<1>22. Rec(w.step, w.found, w.picked, w.target, w.testing, b, w.saving, w.probed).target = w.target
  OBVIOUS
<1> HIDE DEF Rec
<1>27. x \in OpenWizards
  BY <1>1, <1>5 DEF Rec, OpenWizards, Wizard
<1>28. y \in OpenWizards
  BY <1>1, <1>8 DEF Rec, OpenWizards, Wizard
<1>29. z \in OpenWizards
  BY <1>1, <1>11 DEF Rec, OpenWizards, Wizard
<1>30. u \in OpenWizards
  BY <1>1, <1>14 DEF Rec, OpenWizards, Wizard
<1>31. v \in OpenWizards
  BY <1>1, <1>19 DEF Rec, OpenWizards, Wizard
<1>32. s \in OpenWizards
  BY <1>1, <1>21 DEF Rec, OpenWizards, Wizard
<1>33. [w EXCEPT !.scanning = b] \in OpenWizards
  BY <1>1, <1>6 DEF Rec, OpenWizards, Wizard
<1>34. [w EXCEPT !.target = t] \in OpenWizards
  BY <1>1, <1>9 DEF Rec, OpenWizards, Wizard
<1>35. [w EXCEPT !.step = step] \in OpenWizards
  BY <1>1, <1>12 DEF Rec, OpenWizards, Wizard
<1>36. [w EXCEPT !.saving = b] \in OpenWizards
  BY <1>1, <1>15 DEF Rec, OpenWizards, Wizard
<1>37. [w EXCEPT !.testing = b] \in OpenWizards
  BY <1>1, <1>16 DEF Rec, OpenWizards, Wizard
<1>38. [w EXCEPT !.probed = probed] \in OpenWizards
  BY <1>1, <1>17 DEF Rec, OpenWizards, Wizard
<1>24. OpenWizards \subseteq Wizard
  BY DEF OpenWizards
<1>25. [w EXCEPT !.scanning = b].target = w.target
  BY <1>6, <1>22
<1> QED BY <1>1, <1>3, <1>4, <1>7, <1>10, <1>13, <1>18, <1>20, <1>24, <1>25, <1>27, <1>28, <1>29, <1>30, <1>31, <1>32, <1>33, <1>34,
          <1>35, <1>36, <1>37, <1>38

LEMMA WizardFacts ==
  ASSUME NEW w \in OpenWizards
  PROVE  /\ w.n \in Nat /\ w.target \in Target /\ w.target.key \in OrNoKey
         /\ [w EXCEPT !.step = "test", !.testing = TRUE, !.probed = {}] \in Wizard
         /\ [w EXCEPT !.step = "details", !.probed = {}] \in Wizard
         /\ [w EXCEPT !.found = FALSE, !.picked = FALSE] \in Wizard
         /\ \A t \in Target : /\ [w EXCEPT !.picked = TRUE, !.target = t, !.probed = {}] \in Wizard
                             /\ [w EXCEPT !.picked = FALSE, !.target = t, !.probed = {}, !.step = "details"] \in Wizard
                             /\ [w EXCEPT !.target = t] \in Wizard
                             /\ [w EXCEPT !.found = TRUE, !.picked = TRUE, !.target = t] \in Wizard
         /\ \A b \in BOOLEAN : /\ [w EXCEPT !.scanning = b] \in OpenWizards /\ [w EXCEPT !.scanning = b].target = w.target
                              /\ [w EXCEPT !.saving = b] \in Wizard /\ [w EXCEPT !.testing = b] \in OpenWizards
         /\ \A step \in {"discover", "details", "test"} : [w EXCEPT !.step = step] \in Wizard
         /\ \A probed \in SUBSET Target : [w EXCEPT !.probed = probed] \in Wizard
<1>1. w.target \in Target
  BY DEF OpenWizards, Wizard
<1>2. {} \in SUBSET Target /\ TRUE \in BOOLEAN /\ "test" \in {"discover", "details", "test"}
  OBVIOUS
<1>3. /\ w.n \in Nat /\ w.target.key \in OrNoKey
      /\ [w EXCEPT !.step = "test", !.testing = TRUE, !.probed = {}] \in Wizard
      /\ [w EXCEPT !.step = "details", !.probed = {}] \in Wizard
      /\ [w EXCEPT !.found = FALSE, !.picked = FALSE] \in Wizard
  BY <1>1, <1>2, WizardFields, Zenon
<1>4. \A t \in Target : /\ [w EXCEPT !.picked = TRUE, !.target = t, !.probed = {}] \in Wizard
                       /\ [w EXCEPT !.picked = FALSE, !.target = t, !.probed = {}, !.step = "details"] \in Wizard
                       /\ [w EXCEPT !.target = t] \in Wizard
                       /\ [w EXCEPT !.found = TRUE, !.picked = TRUE, !.target = t] \in Wizard
  BY <1>2, WizardFields, Zenon
<1>5. \A b \in BOOLEAN : /\ [w EXCEPT !.scanning = b] \in OpenWizards /\ [w EXCEPT !.scanning = b].target = w.target
                        /\ [w EXCEPT !.saving = b] \in Wizard /\ [w EXCEPT !.testing = b] \in OpenWizards
  BY <1>1, <1>2, WizardFields, Zenon
<1>6. \A step \in {"discover", "details", "test"} : [w EXCEPT !.step = step] \in Wizard
  BY <1>1, <1>2, WizardFields, Zenon
<1>7. \A probed \in SUBSET Target : [w EXCEPT !.probed = probed] \in Wizard
  BY <1>1, <1>2, WizardFields, Zenon
<1> QED BY <1>1, <1>3, <1>4, <1>5, <1>6, <1>7

\* What a click may call for.
Clicked(c, list) == c \in Call /\ c.do \notin {"delete", "layer"} /\ (c.do = "delkey" => list # <<>>)

ClickStep ==
    /\ UNCHANGED <<desk, keyring, printers, faulty>>
    /\ calls' = calls \/ \E c \in Call : calls' = Append(calls, c) /\ Clicked(c, printers)
    /\ editing' = {} \/ \E t \in Target : editing' = {t}
    /\ wizard' \in Wizard
    /\ acts' \in 0..MaxActs

LEMMA ActCounts == ASSUME acts \in 0..MaxActs, Act PROVE acts' \in 0..MaxActs
BY PrintersAssumption DEF Act

LEMMA PanelClicks == ASSUME TypeInv, PanelStep PROVE ClickStep
<1>1. /\ acts \in 0..MaxActs /\ wizard \in Wizard /\ (editing = {} \/ \E t \in Target : editing = {t})
      /\ printers \in Printers
  BY DEF TypeInv
<1>2. ASSUME UNCHANGED <<desk, keyring, printers, faulty, wizard>>, Act,
             calls' = calls \/ \E c \in Call : calls' = Append(calls, c) /\ Clicked(c, printers),
             editing' = {} \/ \E t \in Target : editing' = {t}
      PROVE  ClickStep
  BY <1>1, <1>2, ActCounts DEF ClickStep
<1>3. CASE AddPrinter
  <2>1. PICK t \in BlankTarget : editing' = {t}
    BY <1>3 DEF AddPrinter
  <2>2. t \in Target
    BY <2>1, TargetFacts
  <2> QED BY <1>2, <1>3, <2>1, <2>2 DEF AddPrinter
<1>4. CASE CancelEdit
  BY <1>2, <1>4 DEF CancelEdit
<1>5. CASE OnSave
  <2>1. PICK t \in Target : t \in editing /\ Saving(t, 0)
    BY <1>1, <1>5 DEF OnSave
  <2>2. PICK c : c = [do |-> IF t.key = NoKey THEN "save" ELSE "setkey", target |-> t, by |-> 0] /\ calls' = Append(calls, c)
    BY <2>1 DEF Saving, Calling
  <2>3. c.do \in {"save", "setkey"} /\ c \in Call
    <3>1. t.key = NoKey => c = [do |-> "save", target |-> t, by |-> 0]
      BY <2>2
    <3>2. t.key # NoKey => c = [do |-> "setkey", target |-> t, by |-> 0]
      BY <2>2
    <3>3. 0 \in Nat
      OBVIOUS
    <3>5. t.key = NoKey => c.do = "save" /\ c \in Call
      <4>1. [do |-> "save", target |-> t, by |-> 0] \in Call
        BY <3>3, NewCalls
      <4> QED BY <3>1, <4>1
    <3>6. t.key # NoKey => c.do = "setkey" /\ c \in Call
      <4>1. t.key # NoKey => [do |-> "setkey", target |-> t, by |-> 0] \in Call
        BY <3>3, NewCalls
      <4> QED BY <3>2, <4>1
    <3> QED BY <3>5, <3>6
  <2>4. Clicked(c, printers)
    BY <2>3 DEF Clicked
  <2> QED BY <1>1, <1>2, <1>5, <2>2, <2>3, <2>4 DEF OnSave
<1>6. ASSUME NEW f \in Found, AddDiscovered(f) PROVE ClickStep
  <2>1. editing' = {AsTarget(f)} /\ AsTarget(f) \in Target
    BY <1>6, TargetFacts DEF AddDiscovered
  <2> QED BY <1>2, <1>6, <2>1 DEF AddDiscovered
<1>7. ASSUME NEW h \in Host, NEW k \in OrNoKey, Type(h, k) PROVE ClickStep
  <2>1. PICK t \in Target : editing' = {[t EXCEPT !.host = h, !.key = k]}
    BY <1>1, <1>7 DEF Type
  <2>2. [t EXCEPT !.host = h, !.key = k] \in Target
    BY TargetFacts
  <2>3. \E x \in Target : editing' = {x}
    BY <2>1, <2>2
  <2> QED BY <1>2, <1>7, <2>3 DEF Type
<1>8. ASSUME NEW id \in Id, OnEdit(id) PROVE ClickStep
  <2>1. id \in DOMAIN printers /\ printers[id].host \in Host \cup {Blank}
    BY <1>1, <1>8, ListFacts DEF OnEdit
  <2>2. PICK t : t = [id |-> id, host |-> printers[id].host, key |-> NoKey]
    OBVIOUS
  <2>3. t \in Target
    BY <2>1, <2>2 DEF Target, OrNoKey
  <2>4. PICK c \in Call : c = [do |-> "getkey", target |-> t]
    BY <2>3, NewCalls
  <2>5. calls' = Append(calls, c)
    BY <1>8, <2>2, <2>4 DEF OnEdit, Calling
  <2>6. Clicked(c, printers)
    BY <2>4 DEF Clicked
  <2> QED BY <1>1, <1>2, <1>8, <2>5, <2>6 DEF OnEdit
<1>9. ASSUME NEW id \in Id, OnDelete(id) PROVE ClickStep
  <2>1. printers # <<>>
    BY <1>9 DEF OnDelete
  <2>2. PICK c \in Call : c = [do |-> "delkey", id |-> id]
    BY NewCalls
  <2>3. calls' = Append(calls, c) /\ Clicked(c, printers)
    BY <1>9, <2>1, <2>2 DEF OnDelete, Calling, Clicked
  <2> QED BY <1>1, <1>2, <1>9, <2>3 DEF OnDelete
<1> QED BY <1>3, <1>4, <1>5, <1>6, <1>7, <1>8, <1>9 DEF PanelStep

LEMMA WizardClicks == ASSUME TypeInv, OpenWizard \/ WizardStep PROVE ClickStep
<1>1. /\ acts \in 0..MaxActs /\ wizard \in Wizard /\ (editing = {} \/ \E t \in Target : editing = {t})
  BY DEF TypeInv
<1>2. ASSUME UNCHANGED <<desk, keyring, printers, faulty, editing>>, Act,
             calls' = calls \/ \E c \in Call : calls' = Append(calls, c) /\ Clicked(c, printers),
             wizard' \in Wizard
      PROVE  ClickStep
  BY <1>1, <1>2, ActCounts DEF ClickStep
<1>3. wizard.n \in Nat
  BY <1>1 DEF Wizard
<1>4. \A n \in Nat : [n |-> n, step |-> "closed"] \in Wizard
  BY DEF Wizard
<1>5. CASE OpenWizard
  <2>1. PICK t \in BlankTarget : wizard' = Opened(wizard.n + 1, t)
    BY <1>5 DEF OpenWizard
  <2>2. t \in Target /\ wizard.n + 1 \in Nat
    <3>1. t \in Target
      BY TargetFacts
    <3> QED BY <1>3, <3>1
  <2>3. wizard' \in Wizard
    BY <2>1, <2>2 DEF Opened, Wizard
  <2>4. PICK c \in Call : c = [do |-> "scan", by |-> wizard.n + 1]
    BY <2>2, NewCalls
  <2>5. calls' = Append(calls, c) /\ Clicked(c, printers)
    BY <1>5, <2>4 DEF OpenWizard, Calling, Clicked
  <2> QED BY <1>2, <1>5, <2>3, <2>5 DEF OpenWizard
<1>6. ASSUME NEW steps, InWizard(steps), "closed" \notin steps,
             calls' = calls \/ \E c \in Call : calls' = Append(calls, c) /\ Clicked(c, printers),
             wizard' \in Wizard
      PROVE  ClickStep
  BY <1>2, <1>6 DEF InWizard
<1>7. ASSUME NEW steps, InWizard(steps), "closed" \notin steps PROVE wizard \in OpenWizards
  BY <1>1, <1>7 DEF InWizard, OpenWizards
<1>8. CASE CloseWizard
  <2>1. wizard' \in Wizard
    BY <1>3, <1>4, <1>8 DEF CloseWizard
  <2> QED BY <1>6, <1>8, <2>1 DEF CloseWizard
<1>9. CASE ManualEntry
  <2>1. PICK w \in OpenWizards : w = wizard
    BY <1>7, <1>9 DEF ManualEntry
  <2>2. PICK t \in BlankTarget : wizard' = [w EXCEPT !.picked = FALSE, !.target = Retarget(t), !.probed = {}, !.step = "details"]
    BY <1>9, <2>1 DEF ManualEntry
  <2>3. Retarget(t) \in Target
    <3>1. Retarget(t) = [t EXCEPT !.key = w.target.key] /\ w.target.key \in OrNoKey /\ t \in Target
      BY <2>1, <2>2, WizardFacts, TargetFacts DEF Retarget
    <3> QED BY <3>1, TargetFacts
  <2>4. PICK x \in Target : x = Retarget(t)
    BY <2>3
  <2>5. wizard' \in Wizard
    BY <2>2, <2>4, WizardFacts
  <2> QED BY <1>6, <1>9, <2>5 DEF ManualEntry
<1>10. CASE RunTest
  <2>1. PICK steps \in {{"details"}, {"test"}} : InWizard(steps)
    BY <1>10 DEF RunTest
  <2>2. PICK w \in OpenWizards : w = wizard
    BY <1>7, <2>1
  <2>3. wizard' \in Wizard /\ w.target \in Target /\ w.n \in Nat
    BY <1>10, <2>2, WizardFacts DEF RunTest
  <2>4. PICK c \in Call : c = [do |-> "test", target |-> w.target, by |-> w.n]
    BY <2>3, NewCalls
  <2>5. calls' = Append(calls, c) /\ Clicked(c, printers)
    BY <1>10, <2>2, <2>4 DEF RunTest, Calling, Clicked
  <2> QED BY <1>6, <2>1, <2>3, <2>5
<1>11. CASE ScanAgain
  <2>1. PICK w \in OpenWizards : w = wizard
    BY <1>7, <1>11 DEF ScanAgain
  <2>2. wizard' \in OpenWizards
    BY <1>11, <2>1, WizardFacts DEF ScanAgain
  <2>3. PICK c \in Call : c = [do |-> "scan", by |-> wizard.n]
    BY <1>3, NewCalls
  <2>4. calls' = Append(calls, c) /\ Clicked(c, printers)
    BY <1>11, <2>3 DEF ScanAgain, Calling, Clicked
  <2> QED BY <1>6, <1>11, <2>2, <2>4 DEF ScanAgain, OpenWizards
<1>12. CASE NextDetails
  <2>1. PICK w \in OpenWizards : w = wizard
    BY <1>7, <1>12 DEF NextDetails
  <2>2. wizard' \in Wizard
    BY <1>12, <2>1, WizardFacts DEF NextDetails
  <2> QED BY <1>6, <1>12, <2>2 DEF NextDetails
<1>13. CASE Back
  <2>1. PICK w \in OpenWizards : w = wizard
    BY <1>7, <1>13 DEF Back
  <2>2. [w EXCEPT !.step = "details", !.probed = {}] \in Wizard /\ [w EXCEPT !.step = "discover"] \in Wizard
    BY WizardFacts
  <2>3. wizard' \in Wizard
    BY <1>13, <2>1, <2>2 DEF Back
  <2> QED BY <1>6, <1>13, <2>3 DEF Back
<1>14. CASE Finish
  <2>1. PICK w \in OpenWizards : w = wizard
    BY <1>7, <1>14 DEF Finish
  <2>2. wizard' \in Wizard /\ w.target \in Target /\ w.n \in Nat
    BY <1>14, <2>1, WizardFacts DEF Finish
  <2>3. PICK t \in Target, n \in Nat : t = wizard.target /\ n = wizard.n
    BY <2>1, <2>2
  <2>4. PICK c : c = [do |-> IF t.key = NoKey THEN "save" ELSE "setkey", target |-> t, by |-> n] /\ calls' = Append(calls, c)
    BY <1>14, <2>3 DEF Finish, Saving, Calling
  <2>5. c.do \in {"save", "setkey"} /\ c \in Call
    <3>1. t.key = NoKey => c = [do |-> "save", target |-> t, by |-> n]
      BY <2>4
    <3>2. t.key # NoKey => c = [do |-> "setkey", target |-> t, by |-> n]
      BY <2>4
    <3>5. t.key = NoKey => c.do = "save" /\ c \in Call
      <4>1. [do |-> "save", target |-> t, by |-> n] \in Call
        BY NewCalls
      <4> QED BY <3>1, <4>1
    <3>6. t.key # NoKey => c.do = "setkey" /\ c \in Call
      <4>1. t.key # NoKey => [do |-> "setkey", target |-> t, by |-> n] \in Call
        BY NewCalls
      <4> QED BY <3>2, <4>1
    <3> QED BY <3>5, <3>6
  <2>6. Clicked(c, printers)
    BY <2>5 DEF Clicked
  <2> QED BY <1>6, <1>14, <2>2, <2>4, <2>5, <2>6 DEF Finish
<1>15. ASSUME NEW f \in Found, PickFound(f) PROVE ClickStep
  <2>1. PICK w \in OpenWizards : w = wizard
    BY <1>7, <1>15 DEF PickFound
  <2>2. Retarget(AsTarget(f)) \in Target
    <3>1. PICK t \in Target : t = AsTarget(f)
      BY TargetFacts
    <3>2. Retarget(t) = [t EXCEPT !.key = w.target.key] /\ w.target.key \in OrNoKey
      BY <2>1, WizardFacts DEF Retarget
    <3> QED BY <3>1, <3>2, TargetFacts
  <2>3. PICK x \in Target : x = Retarget(AsTarget(f))
    BY <2>2
  <2>4. wizard' = [w EXCEPT !.picked = TRUE, !.target = x, !.probed = {}]
    BY <1>15, <2>1, <2>3 DEF PickFound
  <2>5. wizard' \in Wizard
    BY <2>4, WizardFacts
  <2> QED BY <1>6, <1>15, <2>5 DEF PickFound
<1>16. ASSUME NEW h \in Host, NEW k \in OrNoKey, Fill(h, k) PROVE ClickStep
  <2>1. PICK w \in OpenWizards : w = wizard
    BY <1>7, <1>16 DEF Fill
  <2>2. PICK t \in Target : t = w.target
    BY WizardFacts
  <2>3. PICK x \in Target : x = [t EXCEPT !.host = h, !.key = k]
    BY TargetFacts
  <2>4. wizard' = [w EXCEPT !.target = x]
    BY <1>16, <2>1, <2>2, <2>3 DEF Fill
  <2>5. wizard' \in Wizard
    BY <2>4, WizardFacts
  <2> QED BY <1>6, <1>16, <2>5 DEF Fill
<1> QED BY <1>5, <1>8, <1>9, <1>10, <1>11, <1>12, <1>13, <1>14, <1>15, <1>16 DEF WizardStep

--------------------------------------------------------------------------
(* Streams.                                                                *)

\* The place of a chunk in the file that a stream makes.
LEMMA PlaceOfChunk ==
  ASSUME NEW l \in Nat \ {0}, NEW x \in 1..Parts
  PROVE  ((l - 1) * Parts + x - 1) \div Parts = l - 1 /\ ((l - 1) * Parts + x - 1) % Parts = x - 1
<1>1. PICK a \in Nat, b \in Nat, P \in Nat \ {0} : a = l - 1 /\ b = x - 1 /\ P = Parts /\ b < P
  BY SessionAssumption
<1>2. PICK y \in Nat : y = a * P + b
  OBVIOUS
<1>3. PICK q \in Int, r \in 0..(P - 1) : q = y \div P /\ r = y % P /\ y = P * q + r
  BY <1>1, <1>2
<1>4. q = a
  <2>1. CASE q < a
    <3>0. PICK k \in Nat : k = a - q - 1
      BY <2>1
    <3>1. a = q + 1 + k
      BY <3>0
    <3>2. a * P = q * P + P + k * P
      BY <3>1, <1>3
    <3>3. k * P >= 0
      OBVIOUS
    <3> QED BY <1>2, <1>3, <3>2, <3>3
  <2>2. CASE a < q
    <3>0. PICK k \in Nat : k = q - a - 1
      BY <2>2
    <3>1. q = a + 1 + k
      BY <3>0
    <3>2. P * q = a * P + P + k * P
      BY <3>1, <1>3
    <3>3. k * P >= 0
      OBVIOUS
    <3> QED BY <1>1, <1>2, <1>3, <3>2, <3>3
  <2> QED BY <1>3, <2>1, <2>2
<1>5. r = b
  BY <1>2, <1>3, <1>4
<1>6. ((l - 1) * Parts + x - 1) = y
  BY <1>1, <1>2
<1> QED BY <1>1, <1>3, <1>4, <1>5, <1>6

\* The printer after n of the requests.
After_n(g, p, reqs, n) == IF n = 0 THEN p ELSE Serve(g[n - 1], reqs[n])

LEMMA RequestsServed ==
  ASSUME NEW p, NEW reqs, Len(reqs) \in Nat
  PROVE  \E g : g = [n \in 0..Len(reqs) |-> After_n(g, p, reqs, n)]
<1> DEFINE Good == {k \in Nat : \E g : g = [n \in 0..k |-> After_n(g, p, reqs, n)]}
<1>1. 0 \in Good
  <2> DEFINE g == [n \in 0..0 |-> p]
  <2>1. g = [n \in 0..0 |-> After_n(g, p, reqs, n)]
    BY DEF After_n
  <2> QED BY <2>1
<1>2. ASSUME NEW k \in Nat, k \in Good PROVE k + 1 \in Good
  <2>1. PICK f : f = [n \in 0..k |-> After_n(f, p, reqs, n)]
    BY <1>2
  <2> DEFINE g == [n \in 0..(k + 1) |-> After_n(f, p, reqs, n)]
  <2>2. \A n \in 0..k : g[n] = f[n]
    BY <2>1
  <2>3. \A n \in 0..(k + 1) : After_n(g, p, reqs, n) = After_n(f, p, reqs, n)
    <3> HIDE DEF g
    <3>1. \A n \in 0..(k + 1) : n # 0 => n - 1 \in 0..k
      OBVIOUS
    <3> QED BY <2>2, <3>1 DEF After_n
  <2>4. g = [n \in 0..(k + 1) |-> After_n(g, p, reqs, n)]
    BY <2>3
  <2> HIDE DEF g
  <2> QED BY <2>4
<1>3. \A n \in Nat : n \in Good
  <2> HIDE DEF Good
  <2>1. \A n \in Nat : n \in Good => n + 1 \in Good
    BY <1>2
  <2> QED BY <1>1, <2>1, InductionOverSet
<1> QED BY <1>3

\* A command leaves the printer after some of its requests, and all if it succeeds.
LEMMA OutcomesFacts ==
  ASSUME NEW p, NEW reqs, Len(reqs) \in Nat, NEW o \in Outcomes(p, reqs)
  PROVE  \E g : /\ g = [n \in 0..Len(reqs) |-> After_n(g, p, reqs, n)]
                /\ \E n \in 0..Len(reqs) : o.p = g[n] /\ o.ok \in BOOLEAN /\ (o.ok => n = Len(reqs))
<1> DEFINE after == CHOOSE g : g = [n \in 0..Len(reqs) |-> After_n(g, p, reqs, n)]
<1>1. after = [n \in 0..Len(reqs) |-> After_n(after, p, reqs, n)]
  BY RequestsServed
<1>2. o \in {[p |-> after[Len(reqs)], ok |-> TRUE]} \cup {[p |-> after[n], ok |-> FALSE] : n \in 0..Len(reqs)}
  BY Zenon DEF Outcomes, After_n
<1> HIDE DEF after
<1>3. PICK g : g = after
  OBVIOUS
<1>7. PICK len \in Nat : len = Len(reqs)
  OBVIOUS
<1>4. o = [p |-> g[len], ok |-> TRUE] \/ \E n \in 0..len : o = [p |-> g[n], ok |-> FALSE]
  BY <1>2, <1>3, <1>7
<1>5. CASE o = [p |-> g[len], ok |-> TRUE]
  <2>1. len \in 0..len /\ o.p = g[len] /\ o.ok = TRUE
    BY <1>5
  <2> QED BY <1>1, <1>3, <2>1, SMTT(30)
<1>6. ASSUME NEW n \in 0..len, o = [p |-> g[n], ok |-> FALSE]
      PROVE  o.p = g[n] /\ o.ok = FALSE
  BY <1>6
<1> QED BY <1>1, <1>3, <1>4, <1>5, <1>6, <1>7

\* What a printer is asked, but to print G-code.
Request == [ask: {"upload"}, body: Nat] \cup [ask: {"select", "start", "print", "query"}]

LEMMA RequestFacts ==
  ASSUME NEW p \in Device, NEW req \in Request
  PROVE  Serve(p, req) \in Device /\ Serve(p, req).fed = p.fed
<1>1. PICK s, e, r, f : /\ s = p.stored /\ e = p.selected /\ r = p.run /\ f = p.fed
                        /\ p = [stored |-> s, selected |-> e, run |-> r, fed |-> f]
                        /\ s \in Nat /\ e \in Nat /\ r \in {"idle", "printing"} /\ f \in [1..MaxJobs -> Seq([job: Nat, layer: Nat, part: Nat])]
  BY DEF Device
<1>2. CASE req.ask = "upload"
  <2>1. req.body \in Nat /\ Serve(p, req) = [p EXCEPT !.stored = req.body]
    BY <1>2 DEF Request, Serve
  <2>2. PICK n \in Nat : n = req.body
    BY <2>1
  <2>3. Serve(p, req) = [stored |-> n, selected |-> e, run |-> r, fed |-> f]
    BY <1>1, <2>1, <2>2
  <2> QED BY <1>1, <2>3 DEF Device
<1>3. CASE req.ask = "select"
  <2>1. Serve(p, req) = [stored |-> s, selected |-> s, run |-> r, fed |-> f]
    BY <1>1, <1>3 DEF Serve
  <2> QED BY <1>1, <2>1 DEF Device
<1>4. CASE req.ask = "start"
  <2>1. Serve(p, req) = [stored |-> s, selected |-> e, run |-> IF e = 0 THEN r ELSE "printing", fed |-> f]
    BY <1>1, <1>4 DEF Serve
  <2> QED BY <1>1, <2>1 DEF Device
<1>5. CASE req.ask = "print"
  <2>1. PICK x : x = [p EXCEPT !.selected = p.stored, !.run = "printing"]
    OBVIOUS
  <2>2. x = [stored |-> s, selected |-> s, run |-> "printing", fed |-> f]
    BY <1>1, <2>1
  <2>3. Serve(p, req) = x
    BY <1>5, <2>1 DEF Serve
  <2> QED BY <1>1, <2>2, <2>3 DEF Device
<1>6. CASE req.ask = "query"
  BY <1>6 DEF Serve
<1> QED BY <1>2, <1>3, <1>4, <1>5, <1>6 DEF Request

LEMMA SendFileFacts ==
  ASSUME NEW p \in Device, NEW kind, NEW body \in Nat, NEW o \in Outcomes(p, SendFile(kind, body))
  PROVE  o.p \in Device /\ o.p.fed = p.fed
<1>1. PICK reqs \in Seq(Request) : reqs = SendFile(kind, body)
  <2>1. Upload(kind, body) \in Seq(Request)
    BY DEF Upload, Request
  <2>2. StartPrint(kind) \in Seq(Request)
    <3>1. <<[ask |-> "select"], [ask |-> "start"]>> \in Seq(Request) /\ <<[ask |-> "print"]>> \in Seq(Request)
      <4>1. [ask |-> "select"] \in Request /\ [ask |-> "start"] \in Request /\ [ask |-> "print"] \in Request
        BY DEF Request
      <4> QED BY <4>1
    <3> QED BY <3>1 DEF StartPrint
  <2>3. Status(kind) \in Seq(Request)
    BY DEF Status, Query, Request
  <2>4. Upload(kind, body) \o StartPrint(kind) \o Status(kind) \in Seq(Request)
    BY <2>1, <2>2, <2>3, ConcatProperties
  <2> QED BY <2>4 DEF SendFile
<1>2. PICK len \in Nat : len = Len(reqs) /\ \A i \in 1..len : reqs[i] \in Request
  OBVIOUS
<1>3. o \in Outcomes(p, reqs)
  BY <1>1
<1>40. PICK g : /\ g = [n \in 0..Len(reqs) |-> After_n(g, p, reqs, n)]
                /\ \E n \in 0..Len(reqs) : o.p = g[n] /\ o.ok \in BOOLEAN /\ (o.ok => n = Len(reqs))
  BY <1>1, <1>2, <1>3, OutcomesFacts
<1>4. /\ g = [n \in 0..len |-> After_n(g, p, reqs, n)]
      /\ \E n \in 0..len : o.p = g[n] /\ o.ok \in BOOLEAN /\ (o.ok => n = len)
  BY <1>1, <1>2, <1>40
<1> DEFINE Good == {n \in Nat : n <= len => g[n] \in Device /\ g[n].fed = p.fed}
<1>5. 0 \in Good
  BY <1>4 DEF After_n
<1>6. ASSUME NEW n \in Nat, n \in Good PROVE n + 1 \in Good
  <2>1. ASSUME n + 1 <= len PROVE g[n + 1] \in Device /\ g[n + 1].fed = p.fed
    <3>1. g[n + 1] = Serve(g[n], reqs[n + 1]) /\ reqs[n + 1] \in Request
      <4>1. n + 1 \in 0..len /\ n + 1 # 0 /\ (n + 1) - 1 = n /\ n + 1 \in 1..len
        BY <2>1
      <4>2. g[n + 1] = After_n(g, p, reqs, n + 1)
        BY <1>4, <4>1
      <4> QED BY <1>2, <4>1, <4>2 DEF After_n
    <3>2. g[n] \in Device /\ g[n].fed = p.fed
      BY <1>6, <2>1
    <3> QED BY <3>1, <3>2, RequestFacts
  <2> QED BY <2>1
<1>7. \A n \in Nat : n \in Good
  <2> HIDE DEF Good
  <2>1. \A n \in Nat : n \in Good => n + 1 \in Good
    BY <1>6
  <2> QED BY <1>5, <2>1, InductionOverSet
<1>8. \A n \in 0..len : g[n] \in Device /\ g[n].fed = p.fed
  BY <1>7
<1> QED BY <1>4, <1>8

Chunk == [job: Nat, layer: Nat, part: Nat]
ChunkOf(job, layer, part) == [job |-> job, layer |-> layer, part |-> part]

\* A chunk is appended to its stream.
LEMMA ChunkFacts ==
  ASSUME NEW p \in Device, NEW job \in 1..MaxJobs, NEW body \in Chunk, body.job = job
  PROVE  /\ Serve(p, [ask |-> "gcode", body |-> body]) \in Device
         /\ Serve(p, [ask |-> "gcode", body |-> body]).fed = [p.fed EXCEPT ![job] = Append(p.fed[job], body)]
<1>1. PICK s, e, r, f : /\ s = p.stored /\ e = p.selected /\ r = p.run /\ f = p.fed
                        /\ p = [stored |-> s, selected |-> e, run |-> r, fed |-> f]
                        /\ s \in Nat /\ e \in Nat /\ r \in {"idle", "printing"} /\ f \in [1..MaxJobs -> Seq(Chunk)]
  BY DEF Device, Chunk
<1>2. PICK q : q = [ask |-> "gcode", body |-> body]
  OBVIOUS
<1>3. q.ask = "gcode" /\ q.body = body /\ q.body.job = job
  BY <1>2
<1>4. PICK g : g = [f EXCEPT ![job] = Append(f[job], body)]
  OBVIOUS
<1>5. g \in [1..MaxJobs -> Seq(Chunk)]
  <2>1. Append(f[job], body) \in Seq(Chunk)
    BY <1>1, AppendProperties
  <2> QED BY <1>1, <1>4, <2>1
<1>6. Serve(p, q) = [p EXCEPT !.fed = g]
  <2>1. Serve(p, q) = [p EXCEPT !.fed = [p.fed EXCEPT ![q.body.job] = Append(p.fed[q.body.job], q.body)]]
    BY <1>3 DEF Serve
  <2>2. g = [p.fed EXCEPT ![q.body.job] = Append(p.fed[q.body.job], q.body)]
    BY <1>1, <1>3, <1>4
  <2> QED BY <2>1, <2>2
<1>7. Serve(p, q) = [stored |-> s, selected |-> e, run |-> r, fed |-> g]
  BY <1>1, <1>6
<1>8. [stored |-> s, selected |-> e, run |-> r, fed |-> g] \in Device
  BY <1>1, <1>5 DEF Device, Chunk
<1>9. Serve(p, q) \in Device /\ Serve(p, q).fed = g
  BY <1>7, <1>8
<1> QED BY <1>1, <1>2, <1>4, <1>9

\* The printer e is p with n chunks of this layer more.
Received(p, e, job, layer, n) ==
    /\ e \in Device
    /\ \A j \in 1..MaxJobs : j # job => e.fed[j] = p.fed[j]
    /\ Len(e.fed[job]) = Len(p.fed[job]) + n
    /\ \A i \in 1..Len(p.fed[job]) : e.fed[job][i] = p.fed[job][i]
    /\ \A x \in 1..n : e.fed[job][Len(p.fed[job]) + x] = ChunkOf(job, layer, x)

LEMMA ReceivedMore ==
  ASSUME NEW p \in Device, NEW e, NEW job \in 1..MaxJobs, NEW layer \in 1..Layers, NEW n \in Nat, Received(p, e, job, layer, n)
  PROVE  Received(p, Serve(e, [ask |-> "gcode", body |-> ChunkOf(job, layer, n + 1)]), job, layer, n + 1)
<1>1. PICK d \in Device : d = e
  BY DEF Received
<1>2. PICK c \in Chunk : c = ChunkOf(job, layer, n + 1) /\ c.job = job
  <2>1. job \in Nat /\ layer \in Nat /\ n + 1 \in Nat
    BY SessionAssumption
  <2>2. ChunkOf(job, layer, n + 1) \in Chunk /\ ChunkOf(job, layer, n + 1).job = job
    BY <2>1 DEF Chunk, ChunkOf
  <2> QED BY <2>2
<1>3. PICK f : f = Serve(d, [ask |-> "gcode", body |-> c])
  OBVIOUS
<1>4. f \in Device /\ f.fed = [d.fed EXCEPT ![job] = Append(d.fed[job], c)]
  BY <1>2, <1>3, ChunkFacts, SMTT(30)
<1>5. d.fed \in [1..MaxJobs -> Seq(Chunk)] /\ p.fed \in [1..MaxJobs -> Seq(Chunk)]
  BY DEF Device, Chunk
<1>6. f.fed[job] = Append(d.fed[job], c) /\ \A j \in 1..MaxJobs : j # job => f.fed[j] = d.fed[j]
  BY <1>4, <1>5
<1>7. PICK old \in Seq(Chunk), mid \in Seq(Chunk), new \in Seq(Chunk) : old = p.fed[job] /\ mid = d.fed[job] /\ new = Append(mid, c)
  BY <1>5, AppendProperties
<1>8. PICK m \in Nat : m = Len(old)
  OBVIOUS
<1>9. /\ Len(mid) = m + n /\ (\A i \in 1..m : mid[i] = old[i]) /\ \A x \in 1..n : mid[m + x] = ChunkOf(job, layer, x)
  BY <1>1, <1>7, <1>8 DEF Received
<1>10. Len(new) = Len(mid) + 1 /\ new[Len(mid) + 1] = c /\ \A i \in 1..Len(mid) : new[i] = mid[i]
  BY <1>7, AppendProperties
<1>11. Len(new) = m + (n + 1) /\ new[m + (n + 1)] = c /\ \A i \in 1..(m + n) : new[i] = mid[i]
  <2>1. (m + n) + 1 = m + (n + 1)
    OBVIOUS
  <2> QED BY <1>9, <1>10, <2>1
<1>12. \A i \in 1..m : new[i] = old[i]
  BY <1>9, <1>11
<1>13. \A x \in 1..(n + 1) : new[m + x] = ChunkOf(job, layer, x)
  <2> TAKE x \in 1..(n + 1)
  <2>1. CASE x = n + 1
    BY <1>2, <1>11, <2>1
  <2>2. CASE x \in 1..n
    <3>1. m + x \in 1..(m + n)
      BY <2>2
    <3> QED BY <1>9, <1>11, <2>2, <3>1
  <2> QED BY <2>1, <2>2
<1>14. \A j \in 1..MaxJobs : j # job => f.fed[j] = p.fed[j]
  BY <1>1, <1>6 DEF Received
<1>15. Received(p, f, job, layer, n + 1)
  BY <1>4, <1>6, <1>7, <1>8, <1>11, <1>12, <1>13, <1>14 DEF Received
<1> QED BY <1>1, <1>2, <1>3, <1>15

LEMMA SendLayerFacts ==
  ASSUME NEW p \in Device, NEW job \in 1..MaxJobs, NEW layer \in 1..Layers, NEW o \in Outcomes(p, SendLayer(job, layer))
  PROVE  \E n \in 0..Parts : Received(p, o.p, job, layer, n) /\ o.ok \in BOOLEAN /\ (o.ok => n = Parts)
<1>1. PICK reqs : /\ reqs = SendLayer(job, layer) /\ Len(reqs) = Parts
                  /\ \A i \in 1..Parts : reqs[i] = [ask |-> "gcode", body |-> ChunkOf(job, layer, i)]
  BY SessionAssumption DEF SendLayer, ChunkOf
<1>2. o \in Outcomes(p, reqs) /\ Parts \in Nat
  BY <1>1, SessionAssumption
<1>30. PICK g : /\ g = [n \in 0..Len(reqs) |-> After_n(g, p, reqs, n)]
                /\ \E n \in 0..Len(reqs) : o.p = g[n] /\ o.ok \in BOOLEAN /\ (o.ok => n = Len(reqs))
  BY <1>1, <1>2, <1>2, OutcomesFacts
<1>3. /\ g = [n \in 0..Parts |-> After_n(g, p, reqs, n)]
      /\ \E n \in 0..Parts : o.p = g[n] /\ o.ok \in BOOLEAN /\ (o.ok => n = Parts)
  BY <1>1, <1>2, <1>30
<1> DEFINE Good == {n \in Nat : n <= Parts => Received(p, g[n], job, layer, n)}
<1>4. 0 \in Good
  <2>1. g[0] = p
    BY <1>2, <1>3 DEF After_n
  <2>2. p.fed[job] \in Seq(Chunk)
    BY DEF Device, Chunk
  <2>3. PICK m \in Nat : m = Len(p.fed[job]) /\ m + 0 = m
    BY <2>2
  <2> QED BY <2>1, <2>3 DEF Received
<1>5. ASSUME NEW n \in Nat, n \in Good PROVE n + 1 \in Good
  <2>1. ASSUME n + 1 <= Parts PROVE Received(p, g[n + 1], job, layer, n + 1)
    <3>1. g[n + 1] = Serve(g[n], [ask |-> "gcode", body |-> ChunkOf(job, layer, n + 1)])
      <4>1. n + 1 \in 0..Parts /\ n + 1 # 0 /\ (n + 1) - 1 = n /\ n + 1 \in 1..Parts
        BY <1>2, <2>1
      <4>2. g[n + 1] = After_n(g, p, reqs, n + 1)
        BY <1>3, <4>1
      <4> QED BY <1>1, <4>1, <4>2 DEF After_n
    <3>2. Received(p, g[n], job, layer, n)
      BY <1>2, <1>5, <2>1
    <3> QED BY <3>1, <3>2, ReceivedMore
  <2> QED BY <2>1
<1>6. \A n \in Nat : n \in Good
  <2> HIDE DEF Good
  <2>1. \A n \in Nat : n \in Good => n + 1 \in Good
    BY <1>5
  <2> QED BY <1>4, <2>1, InductionOverSet
<1>7. \A n \in 0..Parts : Received(p, g[n], job, layer, n)
  BY <1>2, <1>6
<1> QED BY <1>3, <1>7

\* A dialog, and printers.
Dialog(q, dev, s) == q \in Seq(Call) /\ dev \in [Host -> Device] /\ s \in Slicer

\* The dialog s goes on as u: other streams may begin, and so may another dialog.
GoesOn(s, u) ==
    /\ s.jobs <= u.jobs
    /\ \/ u.n = s.n /\ u.job = s.job /\ u.streaming = s.streaming /\ u.done = s.done
       \/ s.n < u.n /\ u.done = 0

LEMMA StreamKeeps ==
  ASSUME NEW q, NEW dev, NEW s, Dialog(q, dev, s), NEW r, NEW tools, NEW u, Dialog(r, tools, u), StreamOk(q, dev, s),
         NEW k \in {0, 1}, NEW new \in SUBSET Call, Became(q, k, new, r), \A c \in new : c.do # "layer",
         \A h \in Host : tools[h].fed = dev[h].fed, GoesOn(s, u)
  PROVE  StreamOk(r, tools, u)
<1>1. PICK n, m \in Nat : n = Len(q) /\ DOMAIN q = 1..n /\ DOMAIN r = 1..m
  BY QueueDomain DEF Dialog
<1>2. \A i \in 1..m : r[i].do = "layer" => i + k \in 1..n /\ r[i] = q[i + k]
  BY <1>1 DEF Became
<1>3. PICK jobs, ujobs, sn, un, job \in Nat : jobs = s.jobs /\ ujobs = u.jobs /\ sn = s.n /\ un = u.n /\ job = s.job /\ jobs <= ujobs /\ sn <= un
  <2>1. s.jobs \in Nat /\ u.jobs \in Nat /\ s.n \in Nat /\ u.n \in Nat /\ s.job \in Nat
    BY SessionAssumption DEF Dialog, Slicer
  <2>2. s.jobs <= u.jobs /\ s.n <= u.n
    BY <2>1 DEF GoesOn
  <2> QED BY <2>1, <2>2
<1>4. \A i \in 1..m : r[i] \in Call
  BY <1>1, QueueDomain DEF Dialog
<1>5. \A h \in Host, j \in 1..MaxJobs : u.jobs < j => tools[h].fed[j] = <<>>
  <2>1. \A h \in Host, j \in 1..MaxJobs : jobs < j => dev[h].fed[j] = <<>>
    BY <1>3 DEF StreamOk
  <2>2. \A j \in 1..MaxJobs : ujobs < j => jobs < j
    BY <1>3
  <2> QED BY <1>3, <2>1, <2>2
<1>6. ASSUME NEW i \in 1..m, r[i].do = "layer"
      PROVE  /\ r[i].job \in 1..u.jobs /\ r[i].by <= u.n
             /\ Len(tools[r[i].host].fed[r[i].job]) = (r[i].layer - 1) * Parts
             /\ r[i].by = u.n => r[i].job = u.job /\ u.streaming
  <2>1. i + k \in 1..n /\ r[i] = q[i + k] /\ r[i].host \in Host /\ r[i].by \in Nat /\ r[i].job \in Nat
    BY <1>2, <1>4, <1>6, CallFacts
  <2>2. /\ r[i].job \in 1..jobs /\ r[i].by <= sn
        /\ Len(dev[r[i].host].fed[r[i].job]) = (r[i].layer - 1) * Parts
        /\ r[i].by = sn => r[i].job = s.job /\ s.streaming
    <3>1. \A x \in 1..n : q[x].do = "layer" =>
             /\ q[x].job \in 1..s.jobs /\ q[x].by <= s.n
             /\ Len(dev[q[x].host].fed[q[x].job]) = (q[x].layer - 1) * Parts
             /\ q[x].by = s.n => q[x].job = s.job /\ s.streaming
      BY <1>1 DEF StreamOk
    <3> QED BY <1>3, <1>6, <2>1, <3>1
  <2>3. r[i].job \in 1..ujobs /\ r[i].by <= un
    <3>1. \A x \in 1..jobs : x \in 1..ujobs
      BY <1>3
    <3>2. \A x \in Nat : x <= sn => x <= un
      BY <1>3
    <3> QED BY <2>1, <2>2, <3>1, <3>2
  <2>4. Len(tools[r[i].host].fed[r[i].job]) = (r[i].layer - 1) * Parts
    BY <2>1, <2>2
  <2>5. r[i].by = un => r[i].job = u.job /\ u.streaming
    BY <1>3, <2>1, <2>2 DEF GoesOn
  <2> QED BY <1>3, <2>3, <2>4, <2>5
<1>7. \A i, j \in 1..m : r[i].do = "layer" /\ r[j].do = "layer" /\ r[i].job = r[j].job => i = j
  <2>1. \A i, j \in 1..n : q[i].do = "layer" /\ q[j].do = "layer" /\ q[i].job = q[j].job => i = j
    BY <1>1 DEF StreamOk
  <2> QED BY <1>2, <2>1
<1>8. u.done > 0 => /\ u.job \in 1..u.jobs
                    /\ \E h \in Host : Len(tools[h].fed[u.job]) >= u.done * Parts
  <2>1. ASSUME u.done > 0
        PROVE  u.job = s.job /\ u.done = s.done /\ s.job \in 1..jobs /\ \E h \in Host : Len(dev[h].fed[s.job]) >= s.done * Parts
    BY <1>3, <2>1 DEF GoesOn, StreamOk
  <2>2. s.job \in 1..jobs => s.job \in 1..ujobs
    BY <1>3
  <2>3. ASSUME u.done > 0 PROVE \E h \in Host : Len(tools[h].fed[u.job]) >= u.done * Parts
    BY <2>1, <2>3
  <2> QED BY <1>3, <2>1, <2>2, <2>3
<1>9. InOrder(tools)
  BY DEF StreamOk, InOrder
<1> QED BY <1>1, <1>5, <1>6, <1>7, <1>8, <1>9 DEF StreamOk

\* A stream begins.
LEMMA StreamBegins ==
  ASSUME NEW q, NEW dev, NEW s, Dialog(q, dev, s), NEW r, NEW u, Dialog(r, dev, u), StreamOk(q, dev, s),
         NEW c \in Call, c.do = "layer", Became(q, 0, {c}, r), ~s.streaming, s.jobs < MaxJobs,
         c.job = s.jobs + 1, c.layer = 1, c.by = s.n,
         u.jobs = s.jobs + 1, u.n = s.n, u.job = s.jobs + 1, u.streaming, u.done = 0
  PROVE  StreamOk(r, dev, u)
<1>1. PICK n, m \in Nat : n = Len(q) /\ DOMAIN q = 1..n /\ DOMAIN r = 1..m
  BY QueueDomain DEF Dialog
<1>2. \A i \in 1..m : (i \in 1..n /\ r[i] = q[i]) \/ (i = n + 1 /\ r[i] = c)
  <2>1. \A i \in 1..m : (i + 0 \in 1..n /\ r[i] = q[i + 0]) \/ (i + 0 = n + 1 /\ r[i] \in {c})
    BY <1>1 DEF Became
  <2>2. \A i \in 1..m : i + 0 = i
    OBVIOUS
  <2> QED BY <2>1, <2>2
<1>3. PICK jobs, sn \in Nat : jobs = s.jobs /\ sn = s.n /\ jobs < MaxJobs
  BY SessionAssumption DEF Dialog, Slicer
<1>4. \A i \in 1..n : q[i] \in Call
  BY <1>1, QueueDomain DEF Dialog
<1>5. \A h \in Host, j \in 1..MaxJobs : jobs < j => dev[h].fed[j] = <<>>
  BY <1>3 DEF StreamOk
<1>6. \A h \in Host, j \in 1..MaxJobs : u.jobs < j => dev[h].fed[j] = <<>>
  BY <1>3, <1>5
<1>7. ASSUME NEW i \in 1..n, q[i].do = "layer"
      PROVE  /\ q[i].job \in 1..jobs /\ q[i].by <= sn /\ q[i].by # sn /\ q[i].by \in Nat
             /\ Len(dev[q[i].host].fed[q[i].job]) = (q[i].layer - 1) * Parts
  <2>1. q[i].by \in Nat
    BY <1>4, <1>7, CallFacts
  <2> QED BY <1>1, <1>3, <1>7, <2>1 DEF StreamOk
<1>8. Len(dev[c.host].fed[c.job]) = (c.layer - 1) * Parts /\ c.host \in Host
  <2>1. c.host \in Host /\ c.job \in 1..MaxJobs /\ jobs < c.job
    BY <1>3, CallFacts, SessionAssumption
  <2>2. dev[c.host].fed[c.job] = <<>>
    BY <1>5, <2>1
  <2>3. (c.layer - 1) * Parts = 0
    BY SessionAssumption
  <2> QED BY <2>1, <2>2, <2>3
<1>9. ASSUME NEW i \in 1..m, r[i].do = "layer"
      PROVE  /\ r[i].job \in 1..u.jobs /\ r[i].by <= u.n
             /\ Len(dev[r[i].host].fed[r[i].job]) = (r[i].layer - 1) * Parts
             /\ r[i].by = u.n => r[i].job = u.job /\ u.streaming
  <2>1. CASE i \in 1..n /\ r[i] = q[i]
    <3>1. /\ q[i].job \in 1..jobs /\ q[i].by <= sn /\ q[i].by # sn
          /\ Len(dev[q[i].host].fed[q[i].job]) = (q[i].layer - 1) * Parts
      BY <1>7, <1>9, <2>1
    <3>2. \A x : x \in 1..jobs => x \in 1..u.jobs
      BY <1>3
    <3>3. u.n = sn
      BY <1>3
    <3> QED BY <2>1, <3>1, <3>2, <3>3
  <2>2. CASE r[i] = c
    BY <1>3, <1>8, <2>2, SMTT(30)
  <2> QED BY <1>2, <2>1, <2>2
<1>10. ASSUME NEW i \in 1..m, NEW j \in 1..m, r[i].do = "layer", r[j].do = "layer", r[i].job = r[j].job
       PROVE  i = j
  <2>1. \A x, y \in 1..n : q[x].do = "layer" /\ q[y].do = "layer" /\ q[x].job = q[y].job => x = y
    BY <1>1 DEF StreamOk
  <2>2. \A x \in 1..n : q[x].do = "layer" => q[x].job # c.job
    BY <1>3, <1>7
  <2> QED BY <1>2, <1>10, <2>1, <2>2
<1>11. InOrder(dev)
  BY DEF StreamOk
<1> QED BY <1>1, <1>6, <1>9, <1>10, <1>11 DEF StreamOk

\* A layer is answered: n of its chunks were received, and the next layer may follow.
Following(c) == [do |-> "layer", host |-> c.host, job |-> c.job, layer |-> c.layer + 1, by |-> c.by]

LEMMA StreamGoesOn ==
  ASSUME NEW q, NEW dev, NEW s, Dialog(q, dev, s), StreamOk(q, dev, s), q # <<>>, NEW c \in Call, c = q[1], c.do = "layer",
         NEW n \in 0..Parts, NEW ok \in BOOLEAN, ok => n = Parts,
         NEW r, NEW tools, NEW u, Dialog(r, tools, u),
         Received(dev[c.host], tools[c.host], c.job, c.layer, n), \A h \in Host : h # c.host => tools[h] = dev[h],
         NEW new \in SUBSET Call, Became(q, 1, new, r), \A x \in new : x = Following(c) /\ ok,
         u.jobs = s.jobs, u.n = s.n, u.job = s.job,
         u.done = s.done \/ (ok /\ c.by = s.n /\ u.done = c.layer),
         u.streaming = s.streaming \/ (c.by = s.n /\ (new # {} => u.streaming))
  PROVE  StreamOk(r, tools, u)
<1>1. PICK k, m \in Nat : k = Len(q) /\ DOMAIN q = 1..k /\ DOMAIN r = 1..m /\ 1 \in 1..k
  <2>1. PICK k \in Nat : k = Len(q) /\ DOMAIN q = 1..k
    BY QueueDomain DEF Dialog
  <2>2. k # 0
    BY <2>1 DEF Dialog
  <2>3. PICK m \in Nat : DOMAIN r = 1..m
    BY QueueDomain DEF Dialog
  <2>4. 1 \in 1..k
    BY <2>1, <2>2
  <2> QED BY <2>1, <2>3, <2>4
<1>2. \A i \in 1..m : (i + 1 \in 1..k /\ r[i] = q[i + 1]) \/ (i = k /\ r[i] = Following(c) /\ ok /\ new # {})
  <2>1. \A i \in 1..m : (i + 1 \in 1..k /\ r[i] = q[i + 1]) \/ (i + 1 = k + 1 /\ r[i] \in new)
    BY <1>1 DEF Became
  <2>2. \A i \in 1..m : i + 1 = k + 1 => i = k
    OBVIOUS
  <2> QED BY <2>1, <2>2
<1>3. PICK jobs, sn, l \in Nat : jobs = s.jobs /\ sn = s.n /\ jobs <= MaxJobs /\ l = c.layer /\ l # 0 /\ l <= Layers
  <2>1. s.jobs \in 0..MaxJobs /\ s.n \in Nat /\ c.layer \in 1..Layers
    BY CallFacts DEF Dialog, Slicer
  <2>2. s.jobs \in Nat /\ s.jobs <= MaxJobs /\ c.layer \in Nat /\ c.layer # 0 /\ c.layer <= Layers
    BY <2>1, SessionAssumption
  <2> QED BY <2>1, <2>2
<1>4. \A i \in 1..k : q[i] \in Call
  BY <1>1, QueueDomain DEF Dialog
<1>5. /\ \A i \in 1..k : q[i].do = "layer" =>
             /\ q[i].job \in 1..jobs /\ q[i].by <= sn
             /\ Len(dev[q[i].host].fed[q[i].job]) = (q[i].layer - 1) * Parts
             /\ q[i].by = sn => q[i].job = s.job /\ s.streaming
      /\ \A i, j \in 1..k : q[i].do = "layer" /\ q[j].do = "layer" /\ q[i].job = q[j].job => i = j
  BY <1>1, <1>3 DEF StreamOk
<1>6. /\ c.job \in 1..jobs /\ c.by <= sn /\ c.host \in Host /\ c.by \in Nat
      /\ Len(dev[c.host].fed[c.job]) = (l - 1) * Parts /\ (c.by = sn => c.job = s.job)
  <2>1. c.host \in Host /\ c.by \in Nat
    BY CallFacts
  <2> QED BY <1>1, <1>3, <1>5, <2>1
<1>7. \A j \in 1..jobs : j \in 1..MaxJobs
  BY <1>3, SessionAssumption
<1>8. \A h \in Host, j \in 1..MaxJobs : h # c.host \/ j # c.job => tools[h].fed[j] = dev[h].fed[j]
  BY DEF Received
<1>9. PICK old, made : old = dev[c.host].fed[c.job] /\ made = tools[c.host].fed[c.job] /\ old \in Seq(Chunk) /\ made \in Seq(Chunk)
  <2>1. dev[c.host] \in Device /\ tools[c.host] \in Device /\ c.job \in 1..MaxJobs
    BY <1>6, <1>7 DEF Dialog
  <2> QED BY <2>1 DEF Device, Chunk
<1>10. PICK had, has \in Nat : /\ had = (l - 1) * Parts /\ had = Len(old) /\ has = Len(made) /\ has = had + n
                               /\ (\A i \in 1..had : made[i] = old[i])
                               /\ \A x \in 1..n : made[had + x] = ChunkOf(c.job, c.layer, x)
  <2>1. PICK had \in Nat : had = Len(old)
    BY <1>9
  <2>2. /\ Len(made) = had + n
        /\ (\A i \in 1..had : made[i] = old[i]) /\ \A x \in 1..n : made[had + x] = ChunkOf(c.job, c.layer, x)
    BY <1>9, <2>1 DEF Received
  <2>3. had = (l - 1) * Parts
    BY <1>6, <1>9, <2>1
  <2>4. had + n \in Nat
    BY <2>1, SessionAssumption
  <2> QED BY <2>1, <2>2, <2>3, <2>4
<1>11. ok => has = l * Parts
  <2>1. (l - 1) * Parts + Parts = l * Parts
    BY <1>3, SessionAssumption
  <2> QED BY <1>10, <2>1

<1>12. \A h \in Host, j \in 1..MaxJobs : u.jobs < j => tools[h].fed[j] = <<>>
  <2>1. \A h \in Host, j \in 1..MaxJobs : jobs < j => dev[h].fed[j] = <<>>
    BY <1>3 DEF StreamOk
  <2>2. \A j \in 1..MaxJobs : jobs < j => j # c.job
    BY <1>3, <1>6, SessionAssumption
  <2> QED BY <1>3, <1>8, <2>1, <2>2
<1>13. \A i \in 1..k : q[i].do = "layer" /\ i # 1 => q[i].job # c.job
  BY <1>1, <1>5
<1>14. ASSUME NEW i \in 1..m, r[i].do = "layer"
       PROVE  /\ r[i].job \in 1..u.jobs /\ r[i].by <= u.n
              /\ Len(tools[r[i].host].fed[r[i].job]) = (r[i].layer - 1) * Parts
              /\ r[i].by = u.n => r[i].job = u.job /\ u.streaming
  <2>1. CASE i + 1 \in 1..k /\ r[i] = q[i + 1]
    <3>1. i + 1 # 1
      OBVIOUS
    <3>2. PICK d \in Call : d = q[i + 1] /\ d.do = "layer" /\ d.job # c.job /\ d.host \in Host
      BY <1>4, <1>13, <1>14, <2>1, <3>1, CallFacts
    <3>3. /\ d.job \in 1..jobs /\ d.by <= sn
          /\ Len(dev[d.host].fed[d.job]) = (d.layer - 1) * Parts
          /\ d.by = sn => d.job = s.job /\ s.streaming
      BY <1>5, <2>1, <3>2
    <3>4. Len(tools[d.host].fed[d.job]) = (d.layer - 1) * Parts
      BY <1>7, <1>8, <3>2, <3>3
    <3>5. d.by = sn => d.job = u.job /\ u.streaming
      BY <1>3, <1>6, <3>2, <3>3
    <3> QED BY <1>3, <2>1, <3>2, <3>3, <3>4, <3>5
  <2>2. CASE i = k /\ r[i] = Following(c) /\ ok /\ new # {}
    <3>1. r[i].job = c.job /\ r[i].host = c.host /\ r[i].by = c.by /\ r[i].layer = c.layer + 1
      BY <2>2 DEF Following
    <3>2. r[i].layer - 1 = l
      BY <1>3, <3>1
    <3>3. Len(tools[c.host].fed[c.job]) = l * Parts
      BY <1>9, <1>10, <1>11, <2>2
    <3>4. c.by = sn => c.job = u.job /\ u.streaming
      BY <1>1, <1>3, <1>5, <1>6, <2>2
    <3> QED BY <1>3, <1>6, <3>1, <3>2, <3>3, <3>4
  <2> QED BY <1>2, <2>1, <2>2
<1>15. ASSUME NEW i \in 1..m, NEW j \in 1..m, r[i].do = "layer", r[j].do = "layer", r[i].job = r[j].job
       PROVE  i = j
  <2>1. \A x \in 1..m : r[x].do = "layer" => (x + 1 \in 1..k /\ r[x] = q[x + 1] /\ r[x].job # c.job) \/ (x = k /\ r[x].job = c.job)
    <3>1. \A x \in 1..m : x + 1 # 1
      OBVIOUS
    <3> QED BY <1>2, <1>13, <3>1 DEF Following
  <2>2. (i + 1 \in 1..k /\ r[i] = q[i + 1] /\ r[i].job # c.job) \/ (i = k /\ r[i].job = c.job)
    BY <1>15, <2>1
  <2>3. (j + 1 \in 1..k /\ r[j] = q[j + 1] /\ r[j].job # c.job) \/ (j = k /\ r[j].job = c.job)
    BY <1>15, <2>1
  <2>4. i + 1 \in 1..k /\ r[i] = q[i + 1] /\ j + 1 \in 1..k /\ r[j] = q[j + 1] => i + 1 = j + 1
    BY <1>5, <1>15
  <2> QED BY <1>15, <2>2, <2>3, <2>4
<1>16. ASSUME u.done > 0
       PROVE  u.job \in 1..u.jobs /\ \E h \in Host : Len(tools[h].fed[u.job]) >= u.done * Parts
  <2>1. CASE u.done = s.done
    <3>1. PICK h \in Host : s.job \in 1..jobs /\ Len(dev[h].fed[s.job]) >= s.done * Parts
      BY <1>3, <1>16, <2>1 DEF StreamOk
    <3>2. CASE h # c.host \/ s.job # c.job
      <4>1. s.job \in 1..MaxJobs
        BY <1>7, <3>1
      <4>2. tools[h].fed[s.job] = dev[h].fed[s.job]
        BY <1>8, <3>2, <4>1
      <4>3. u.job = s.job /\ u.job \in 1..u.jobs
        BY <1>3, <3>1
      <4>4. Len(tools[h].fed[u.job]) >= u.done * Parts
        BY <2>1, <3>1, <4>2, <4>3
      <4> QED BY <4>3, <4>4
    <3>3. CASE h = c.host /\ s.job = c.job
      <4>1. PICK z \in Int : z = s.done * Parts
        BY SessionAssumption, SMTT(30) DEF Dialog, Slicer
      <4>2. had >= z
        BY <1>9, <1>10, <3>1, <3>3, <4>1
      <4>3. has >= z
        BY <1>10, <4>1, <4>2
      <4>4. Len(tools[c.host].fed[u.job]) >= u.done * Parts
        BY <1>9, <1>10, <2>1, <3>3, <4>1, <4>3, ZenonT(30)
      <4> QED BY <1>3, <1>6, <3>1, <4>4
    <3> QED BY <3>2, <3>3
  <2>2. CASE ok /\ c.by = s.n /\ u.done = c.layer
    <3>1. u.job = c.job
      BY <1>3, <1>6, <2>2
    <3>2. Len(tools[c.host].fed[u.job]) = u.done * Parts
      BY <1>3, <1>9, <1>10, <1>11, <2>2, <3>1
    <3>3. u.done * Parts \in Int
      BY <1>3, <2>2, SessionAssumption
    <3>4. Len(tools[c.host].fed[u.job]) >= u.done * Parts
      BY <3>2, <3>3
    <3> QED BY <1>3, <1>6, <3>1, <3>4
  <2> QED BY <2>1, <2>2
<1>17. InOrder(tools)
  <2>1. ASSUME NEW h \in Host, NEW j \in 1..MaxJobs, h # c.host \/ j # c.job, NEW i \in DOMAIN tools[h].fed[j]
        PROVE  tools[h].fed[j][i] = [job |-> j, layer |-> 1 + (i - 1) \div Parts, part |-> 1 + ((i - 1) % Parts)]
    BY <1>8, <2>1 DEF StreamOk, InOrder
  <2>2. DOMAIN old = 1..had /\ DOMAIN made = 1..has
    <3>1. DOMAIN old = 1..Len(old) /\ DOMAIN made = 1..Len(made)
      BY <1>9
    <3> QED BY <1>10, <3>1
  <2>3. ASSUME NEW i \in 1..had
        PROVE  made[i] = [job |-> c.job, layer |-> 1 + (i - 1) \div Parts, part |-> 1 + ((i - 1) % Parts)]
    <3>1. c.job \in 1..MaxJobs
      BY <1>6, <1>7
    <3>2. old[i] = [job |-> c.job, layer |-> 1 + (i - 1) \div Parts, part |-> 1 + ((i - 1) % Parts)]
      <4>1. \A x \in DOMAIN dev[c.host].fed[c.job] :
               dev[c.host].fed[c.job][x] = [job |-> c.job, layer |-> 1 + (x - 1) \div Parts, part |-> 1 + ((x - 1) % Parts)]
        BY <1>6, <3>1 DEF StreamOk, InOrder
      <4> QED BY <1>9, <2>2, <4>1
    <3> QED BY <1>10, <3>2
  <2>4. ASSUME NEW x \in 1..n
        PROVE  made[had + x] = [job |-> c.job, layer |-> 1 + ((had + x) - 1) \div Parts, part |-> 1 + (((had + x) - 1) % Parts)]
    <3>1. x \in 1..Parts /\ x \in Nat
      BY SessionAssumption
    <3>2. ((l - 1) * Parts + x - 1) \div Parts = l - 1 /\ ((l - 1) * Parts + x - 1) % Parts = x - 1
      BY <1>3, <3>1, PlaceOfChunk
    <3>3. ((had + x) - 1) \div Parts = l - 1 /\ ((had + x) - 1) % Parts = x - 1
      BY <1>10, <3>2
    <3>4. 1 + (l - 1) = c.layer /\ 1 + (x - 1) = x
      BY <1>3, <3>1
    <3>5. made[had + x] = ChunkOf(c.job, c.layer, x)
      BY <1>10
    <3> QED BY <3>3, <3>4, <3>5 DEF ChunkOf
  <2>5. ASSUME NEW i \in 1..has
        PROVE  made[i] = [job |-> c.job, layer |-> 1 + (i - 1) \div Parts, part |-> 1 + ((i - 1) % Parts)]
    <3>1. i \in 1..had \/ (i - had \in 1..n /\ had + (i - had) = i)
      BY SMTT(30), <1>10, SessionAssumption
    <3> QED BY <2>3, <2>4, <3>1
  <2> QED BY <1>9, <2>1, <2>2, <2>5 DEF InOrder
<1> QED BY <1>1, <1>12, <1>14, <1>15, <1>16, <1>17 DEF StreamOk

--------------------------------------------------------------------------
(* Steps of a session.                                                     *)

SessionInv == TypeInv /\ KeysInv /\ StreamInv

\* The first k calls are answered and the calls `new` are made; none is a layer.
Answered(k, new) == k \in {0, 1} /\ new \in SUBSET Call /\ Became(calls, k, new, calls')

LEMMA StreamSame ==
  ASSUME TypeInv, StreamInv, TypeInv', NEW k, NEW new, Answered(k, new), \A c \in new : c.do # "layer",
         \A h \in Host : device'[h].fed = device[h].fed, GoesOn(slicer, slicer')
  PROVE  StreamInv'
<1>1. PICK q, r, dev, tools, s, u : q = calls /\ r = calls' /\ dev = device /\ tools = device' /\ s = slicer /\ u = slicer'
  OBVIOUS
<1>2. Dialog(q, dev, s) /\ Dialog(r, tools, u) /\ StreamOk(q, dev, s)
  BY <1>1 DEF Dialog, TypeInv, StreamInv
<1>3. k \in {0, 1} /\ new \in SUBSET Call /\ Became(q, k, new, r) /\ (\A h \in Host : tools[h].fed = dev[h].fed) /\ GoesOn(s, u)
  BY <1>1 DEF Answered
<1>4. StreamOk(r, tools, u)
  BY <1>2, <1>3, StreamKeeps
<1> QED BY <1>1, <1>4 DEF StreamInv

LEMMA KeysSame ==
  ASSUME TypeInv, KeysInv, calls' \in Seq(Call), NEW k, NEW new, Answered(k, new),
         desk'.mem = desk.mem, desk'.keys = desk.keys, UNCHANGED <<keyring, printers, faulty>>,
         k = 1 => calls # <<>> /\ calls[1].do \notin {"list", "save"},
         \A c \in new : c.do # "delete" /\ (c.do = "delkey" => printers # <<>>)
  PROVE  KeysInv'
<1>1. PICK q, r, d, e, list, ring, bad :
        q = calls /\ r = calls' /\ d = desk /\ e = desk' /\ list = printers /\ ring = keyring /\ bad = faulty
  OBVIOUS
<1>2. Context(d, ring, q, list, bad) /\ KeysOk(d, ring, q, list, bad)
  BY <1>1 DEF Context, TypeInv, KeysInv
<1>3. k \in {0, 1} /\ new \in SUBSET Call /\ Became(q, k, new, r) /\ r \in Seq(Call)
  BY <1>1 DEF Answered
<1>4. KeysOk(e, ring, r, list, bad)
  BY <1>1, <1>2, <1>3, KeysInvQueue
<1> QED BY <1>1, <1>4 DEF KeysInv

\* The form and the wizard do not count.
GoesOnAlone == UNCHANGED <<device, slicer>>

LEMMA ClickKeeps == ASSUME SessionInv, ClickStep, GoesOnAlone PROVE SessionInv'
<1>0. TypeInv /\ KeysInv /\ StreamInv
  BY DEF SessionInv
<1>1. PICK new : Answered(0, new) /\ calls' \in Seq(Call) /\ \A c \in new : Clicked(c, printers)
  <2>1. PICK q \in Seq(Call) : q = calls
    BY <1>0 DEF TypeInv
  <2>2. CASE calls' = calls
    <3>1. Became(q, 0, {}, q)
      BY NewCalls, QueueGrows
    <3> QED BY <2>1, <2>2, <3>1 DEF Answered
  <2>3. CASE \E c \in Call : calls' = Append(calls, c) /\ Clicked(c, printers)
    <3>1. PICK c \in Call : calls' = Append(calls, c) /\ Clicked(c, printers)
      BY <2>3
    <3>2. Append(q, c) \in Seq(Call) /\ Became(q, 0, {c}, Append(q, c))
      BY QueueGrows
    <3>3. Answered(0, {c}) /\ calls' \in Seq(Call)
      BY <2>1, <3>1, <3>2 DEF Answered
    <3> QED BY <3>1, <3>3
  <2> QED BY <2>2, <2>3 DEF ClickStep
<1>2. TypeInv'
  BY <1>0, <1>1 DEF TypeInv, ClickStep, GoesOnAlone
<1>3. KeysInv'
  BY <1>0, <1>1, KeysSame DEF ClickStep, Clicked
<1>4. GoesOn(slicer, slicer')
  <2>1. slicer'.jobs = slicer.jobs /\ slicer.jobs \in Int
    BY <1>0, SessionAssumption DEF TypeInv, Slicer, GoesOnAlone
  <2> QED BY <2>1 DEF GoesOn, GoesOnAlone
<1>5. StreamInv'
  BY <1>0, <1>1, <1>2, <1>4, StreamSame DEF GoesOnAlone, Clicked
<1> QED BY <1>2, <1>3, <1>5 DEF SessionInv

\* What answering a call of the panel or the wizard leaves.
AnswerStep(new) ==
    /\ Answered(1, new) /\ calls' \in Seq(Call) /\ \A c \in new : c.do # "layer"
    /\ desk' \in Desk /\ printers' \in Printers /\ Keyless(printers') /\ faulty' \in BOOLEAN
    /\ editing' = {} \/ \E t \in Target : editing' = {t}
    /\ wizard' \in Wizard /\ UNCHANGED <<keyring, acts>>

LEMMA AnswerKeeps ==
  ASSUME SessionInv, NEW new, AnswerStep(new), GoesOnAlone
  PROVE  TypeInv' /\ StreamInv'
<1>1. TypeInv'
  BY DEF SessionInv, TypeInv, AnswerStep, GoesOnAlone
<1>2. GoesOn(slicer, slicer')
  <2>1. slicer'.jobs = slicer.jobs /\ slicer.jobs \in Int
    BY SessionAssumption DEF SessionInv, TypeInv, Slicer, GoesOnAlone
  <2> QED BY <2>1 DEF GoesOn, GoesOnAlone
<1>3. StreamInv'
  BY <1>1, <1>2, StreamSame DEF SessionInv, AnswerStep, GoesOnAlone
<1> QED BY <1>1, <1>3

LEMMA AnswerQueue ==
  ASSUME TypeInv, calls # <<>>
  PROVE  /\ calls[1] = Head(calls) /\ Head(calls) \in Call
         /\ Rest => calls' \in Seq(Call) /\ Answered(1, {})
         /\ \A c \in Call : Then(c) => calls' \in Seq(Call) /\ Answered(1, {c})
<1>1. PICK q \in Seq(Call) : q = calls
  BY DEF TypeInv
<1>2. q[1] = Head(q) /\ Head(q) \in Call
  BY <1>1
<1>3. Tail(q) \in Seq(Call) /\ Became(q, 1, {}, Tail(q))
  BY <1>1, NewCalls, QueueGrows
<1>4. \A c \in Call : Append(Tail(q), c) \in Seq(Call) /\ Became(q, 1, {c}, Append(Tail(q), c))
  BY <1>1, QueueGrows
<1>5. Rest => calls' \in Seq(Call) /\ Answered(1, {})
  BY <1>1, <1>3 DEF Rest, Answered
<1>6. ASSUME NEW c \in Call, Then(c) PROVE calls' \in Seq(Call) /\ Answered(1, {c})
  BY <1>1, <1>4, <1>6 DEF Then, Answered
<1> QED BY <1>1, <1>2, <1>5, <1>6

LEMMA AnswerListKeeps == ASSUME SessionInv, AnswerList, GoesOnAlone PROVE SessionInv'
<1>1. TypeInv /\ KeysInv /\ calls # <<>> /\ Head(calls).do = "list" /\ UNCHANGED <<keyring, acts, editing, wizard>> /\ Rest
  BY DEF SessionInv, AnswerList, Answering
<1>2. PICK o \in ReadAll(desk) : desk' = o.d /\ printers' = Strip(o.d.mem) /\ faulty' = (faulty \/ ~o.ok)
  BY DEF AnswerList, Faulty
<1>3. calls[1].do = "list" /\ calls' \in Seq(Call) /\ Answered(1, {})
  BY <1>1, AnswerQueue
<1>4. desk \in Desk /\ o.d \in Desk /\ o.ok \in BOOLEAN
  BY <1>1, <1>2, ReadAllFacts DEF TypeInv
<1>5. o.d.mem \in Printers
  BY <1>4 DEF Desk
<1>6. Strip(o.d.mem) \in Printers /\ Keyless(Strip(o.d.mem))
  BY <1>5, ListFacts
<1>7. AnswerStep({})
  BY <1>1, <1>2, <1>3, <1>4, <1>6 DEF AnswerStep, TypeInv
<1>8. KeysInv'
  <2>1. PICK q, r, d, list, bad : q = calls /\ r = calls' /\ d = desk /\ list = printers /\ bad = faulty
    OBVIOUS
  <2>2. Context(d, keyring, q, list, bad) /\ KeysOk(d, keyring, q, list, bad) /\ o \in ReadAll(d)
    BY <1>1, <2>1 DEF Context, TypeInv, KeysInv
  <2>3. q # <<>> /\ q[1].do = "list" /\ r \in Seq(Call) /\ Became(q, 1, {}, r)
    BY <1>1, <1>3, <2>1 DEF Answered
  <2>4. KeysOk(o.d, keyring, r, Strip(o.d.mem), bad \/ ~o.ok)
    BY <2>2, <2>3, KeysInvList
  <2> QED BY <1>1, <1>2, <2>1, <2>4 DEF KeysInv
<1> QED BY <1>7, <1>8, AnswerKeeps DEF SessionInv

\* A wizard that is open.
LEMMA WaitingWizard ==
  ASSUME TypeInv, wizard.step # "closed"
  PROVE  wizard \in OpenWizards
BY DEF TypeInv, OpenWizards

LEMMA AnswerGetKeyKeeps == ASSUME SessionInv, AnswerGetKey, GoesOnAlone PROVE SessionInv'
<1>1. /\ TypeInv /\ KeysInv /\ calls # <<>> /\ Head(calls).do = "getkey" /\ Rest
      /\ UNCHANGED <<keyring, acts, desk, printers, wizard, faulty>>
  BY DEF SessionInv, AnswerGetKey, Answering
<1>2. PICK c : c = Head(calls)
  OBVIOUS
<1>3. c \in Call /\ c.do = "getkey" /\ calls[1] = c /\ calls' \in Seq(Call) /\ Answered(1, {})
  BY <1>1, <1>2, AnswerQueue
<1>4. PICK k \in GetKey(desk, c.target.id) : editing' = {[c.target EXCEPT !.key = k]}
  BY <1>2 DEF AnswerGetKey
<1>5. c.target \in Target /\ c.target.id \in Id
  BY <1>3, CallFacts DEF Target
<1>6. desk.keys \in [Id -> OrNoKey]
  BY <1>1 DEF TypeInv, Desk
<1>7. k \in OrNoKey
  BY <1>4, <1>5, <1>6 DEF GetKey, OrNoKey
<1>8. [c.target EXCEPT !.key = k] \in Target
  BY <1>5, <1>7, TargetFacts
<1>9. AnswerStep({})
  BY <1>1, <1>3, <1>4, <1>8 DEF AnswerStep, TypeInv
<1>10. KeysInv'
  BY <1>1, <1>3, KeysSame
<1> QED BY <1>9, <1>10, AnswerKeeps DEF SessionInv

LEMMA SaveFailedFacts ==
  ASSUME TypeInv, SaveFailed
  PROVE  wizard' \in Wizard /\ UNCHANGED <<printers, editing>> /\ Rest
<1>1. wizard \in Wizard
  BY DEF TypeInv
<1>2. wizard.step # "closed" => [wizard EXCEPT !.saving = FALSE] \in Wizard
  BY WaitingWizard, WizardFacts
<1> QED BY <1>1, <1>2 DEF SaveFailed, Waits

LEMMA AnswerSetKeyKeeps == ASSUME SessionInv, AnswerSetKey, GoesOnAlone PROVE SessionInv'
<1>1. TypeInv /\ KeysInv /\ calls # <<>> /\ Head(calls).do = "setkey" /\ UNCHANGED <<keyring, acts>>
  BY DEF SessionInv, AnswerSetKey, Answering
<1>2. PICK c, next : c = Head(calls) /\ next = [c EXCEPT !.do = "save"]
  OBVIOUS
<1>3. c \in Call /\ c.do = "setkey" /\ calls[1] = c /\ (Rest => calls' \in Seq(Call) /\ Answered(1, {}))
  BY <1>1, <1>2, AnswerQueue
<1>4. next \in Call /\ next.do = "save" /\ next.target = c.target /\ c.target \in Target /\ c.target.id \in Id /\ c.target.key \in OrNoKey
  BY <1>2, <1>3, NextCalls, CallFacts DEF Target
<1>5. PICK o \in SetKey(desk, c.target.id, c.target.key) :
         /\ desk' = o.d /\ faulty' = (faulty \/ ~o.ok)
         /\ IF o.ok THEN Then(next) /\ UNCHANGED <<printers, editing, wizard>> ELSE SaveFailed
  BY <1>2 DEF AnswerSetKey, Faulty
<1>6. PICK d : d = desk /\ d \in Desk /\ d.keys \in [Id -> OrNoKey]
  BY <1>1 DEF TypeInv, Desk
<1>7. /\ o.d \in Desk /\ o.d.mem = d.mem /\ o.ok \in BOOLEAN
      /\ \A id \in Id : o.d.keys[id] = d.keys[id] \/ (keyring /\ id = c.target.id)
      /\ ~o.ok => o.d = d
  <2>1. CASE o = Done(d) \/ o = Failed(d)
    <3>1. o = [d |-> d, ok |-> TRUE] \/ o = [d |-> d, ok |-> FALSE]
      BY <2>1 DEF Done, Failed
    <3>2. o = [d |-> d, ok |-> TRUE] => o.d = d /\ o.ok = TRUE
      OBVIOUS
    <3>3. o = [d |-> d, ok |-> FALSE] => o.d = d /\ o.ok = FALSE
      OBVIOUS
    <3>4. o.d = d /\ o.ok \in BOOLEAN
      BY <3>1, <3>2, <3>3
    <3> QED BY <1>6, <3>4
  <2>2. CASE keyring /\ o = Done([d EXCEPT !.keys = [d.keys EXCEPT ![c.target.id] = c.target.key]])
    <3>1. PICK keys : keys = [d.keys EXCEPT ![c.target.id] = c.target.key]
      OBVIOUS
    <3>2. keys \in [Id -> OrNoKey] /\ \A id \in Id : id # c.target.id => keys[id] = d.keys[id]
      BY <1>4, <1>6, <3>1
    <3>3. o = Done([mem |-> d.mem, file |-> d.file, keys |-> keys])
      BY <1>6, <2>2, <3>1, DeskFacts
    <3> QED BY <1>6, <2>2, <3>2, <3>3 DEF Done, Desk
  <2> QED BY <1>5, <1>6, <2>1, <2>2 DEF SetKey
<1>8. CASE o.ok
  <2>1. calls' \in Seq(Call) /\ Answered(1, {next}) /\ UNCHANGED <<printers, editing, wizard>>
    BY <1>1, <1>4, <1>5, <1>8, AnswerQueue
  <2>2. AnswerStep({next})
    BY <1>1, <1>4, <1>5, <1>7, <2>1 DEF AnswerStep, TypeInv
  <2>3. KeysInv'
    <3>1. PICK q, r, list, bad : q = calls /\ r = calls' /\ list = printers /\ bad = faulty
      OBVIOUS
    <3>2. Context(d, keyring, q, list, bad) /\ KeysOk(d, keyring, q, list, bad)
      BY <1>1, <1>6, <3>1 DEF Context, TypeInv, KeysInv
    <3>3. q # <<>> /\ q[1] = c /\ r \in Seq(Call) /\ Became(q, 1, {next}, r)
      BY <1>1, <1>3, <2>1, <3>1 DEF Answered
    <3>4. PICK e : e = o.d
      OBVIOUS
    <3>5. e.mem = d.mem /\ \A id \in Id : e.keys[id] = d.keys[id] \/ (keyring /\ id = next.target.id)
      BY <1>4, <1>7, <3>4
    <3>6. KeysOk(e, keyring, r, list, bad)
      BY <1>3, <1>4, <3>2, <3>3, <3>5, KeysInvSetKey
    <3>7. bad \in BOOLEAN /\ faulty' = (bad \/ FALSE)
      BY <1>1, <1>5, <1>8, <3>1 DEF TypeInv
    <3>8. faulty' = bad
      BY <3>7
    <3> QED BY <1>1, <1>5, <2>1, <3>1, <3>4, <3>6, <3>8 DEF KeysInv
  <2> QED BY <2>2, <2>3, AnswerKeeps DEF SessionInv
<1>9. CASE ~o.ok
  <2>1. SaveFailed
    BY <1>5, <1>9
  <2>2. wizard' \in Wizard /\ UNCHANGED <<printers, editing>> /\ Rest
    BY <1>1, <2>1, SaveFailedFacts
  <2>3. AnswerStep({})
    BY <1>1, <1>3, <1>5, <1>7, <2>2 DEF AnswerStep, TypeInv
  <2>4. KeysInv'
    <3>1. PICK q, r, list, bad, listed : q = calls /\ r = calls' /\ list = printers /\ bad = faulty /\ listed = printers'
      OBVIOUS
    <3>2. KeysOk(d, keyring, q, list, bad) /\ \A id \in Id : d.keys[id] \in {d.keys[id], NoKey}
      BY <1>1, <1>6, <3>1 DEF KeysInv
    <3>3. KeysOk(d, keyring, r, listed, TRUE)
      BY <3>2, KeysInvFaulty
    <3>4. faulty' = TRUE /\ desk' = d
      BY <1>5, <1>7, <1>9
    <3> QED BY <1>1, <3>1, <3>3, <3>4 DEF KeysInv
  <2> QED BY <2>3, <2>4, AnswerKeeps DEF SessionInv
<1> QED BY <1>8, <1>9

LEMMA AnswerSaveKeeps == ASSUME SessionInv, AnswerSave, GoesOnAlone PROVE SessionInv'
<1>1. TypeInv /\ KeysInv /\ calls # <<>> /\ Head(calls).do = "save" /\ UNCHANGED <<keyring, acts>>
  BY DEF SessionInv, AnswerSave, Answering
<1>2. PICK c, t : c = Head(calls) /\ t = [c.target EXCEPT !.key = NoKey]
  OBVIOUS
<1>3. /\ c \in Call /\ c.do = "save" /\ calls[1] = c /\ (Rest => calls' \in Seq(Call) /\ Answered(1, {}))
      /\ (Then([do |-> "list"]) => calls' \in Seq(Call) /\ Answered(1, {[do |-> "list"]}))
  BY <1>1, <1>2, AnswerQueue, NewCalls
<1>4. c.target \in Target /\ t \in Target /\ t.key = NoKey /\ t.id = c.target.id
  <2>1. c.target \in Target /\ NoKey \in OrNoKey
    BY <1>3, CallFacts DEF OrNoKey
  <2> QED BY <1>2, <2>1, TargetFacts
<1>5. PICK o \in SavePrinter(desk, t) :
         /\ desk' = o.d /\ faulty' = (faulty \/ ~o.ok)
         /\ IF ~o.ok THEN SaveFailed
            ELSE IF c.by = 0 THEN Rest /\ printers' = o.d.mem /\ editing' = {} /\ UNCHANGED wizard
                 ELSE /\ Refresh /\ wizard' = [n |-> wizard.n, step |-> "closed"]
                      /\ UNCHANGED <<printers, editing>>
  BY <1>2 DEF AnswerSave, Faulty
<1>6. PICK d : d = desk /\ d \in Desk
  BY <1>1 DEF TypeInv
<1>7. o \in [d: Desk, ok: BOOLEAN] /\ \E r \in ReadAll(d) : o.d.mem = Upsert(r.d.mem, t) /\ o.d.keys = r.d.keys
  BY <1>4, <1>5, <1>6, SavePrinterFacts
<1>8. o.d \in Desk /\ o.ok \in BOOLEAN /\ o.d.mem \in Printers /\ Keyless(o.d.mem)
  <2>1. PICK r \in ReadAll(d) : o.d.mem = Upsert(r.d.mem, t)
    BY <1>7
  <2>2. r.d \in Desk /\ r.d.mem = Strip(d.mem) /\ d.mem \in Printers
    BY <1>6, ReadAllFacts DEF Desk
  <2>3. r.d.mem \in Printers /\ Keyless(r.d.mem)
    BY <2>2, ListFacts
  <2>4. Keyless(o.d.mem)
    BY <1>4, <2>1, <2>3, UpsertFacts
  <2> QED BY <1>7, <2>4 DEF Desk
<1>9. \E new \in {{}, {[do |-> "list"]}} :
         /\ AnswerStep(new)
         /\ o.ok => (printers' = o.d.mem \/ [do |-> "list"] \in new)
  <2>1. CASE ~o.ok
    <3>1. wizard' \in Wizard /\ UNCHANGED <<printers, editing>> /\ Rest
      BY <1>1, <1>5, <2>1, SaveFailedFacts
    <3>2. AnswerStep({})
      BY <1>1, <1>3, <1>5, <1>8, <3>1 DEF AnswerStep, TypeInv
    <3> QED BY <2>1, <3>2
  <2>2. CASE o.ok /\ c.by = 0
    <3>1. AnswerStep({})
      BY <1>1, <1>3, <1>5, <1>8, <2>2 DEF AnswerStep, TypeInv
    <3> QED BY <1>5, <2>2, <3>1
  <2>3. CASE o.ok /\ c.by # 0
    <3>1. [n |-> wizard.n, step |-> "closed"] \in Wizard
      BY <1>1 DEF TypeInv, Wizard
    <3>2. AnswerStep({[do |-> "list"]})
      BY <1>1, <1>3, <1>5, <1>8, <2>3, <3>1 DEF AnswerStep, TypeInv, Refresh
    <3> QED BY <3>2
  <2> QED BY <2>1, <2>2, <2>3
<1>10. PICK new \in {{}, {[do |-> "list"]}} : AnswerStep(new) /\ (o.ok => (printers' = o.d.mem \/ [do |-> "list"] \in new))
  BY <1>9
<1>11. KeysInv'
  <2>1. PICK q, r, list, bad, listed : q = calls /\ r = calls' /\ list = printers /\ bad = faulty /\ listed = printers'
    OBVIOUS
  <2>2. Context(d, keyring, q, list, bad) /\ KeysOk(d, keyring, q, list, bad)
    BY <1>1, <1>6, <2>1 DEF Context, TypeInv, KeysInv
  <2>3. q # <<>> /\ q[1] = c /\ r \in Seq(Call) /\ Became(q, 1, new, r)
    BY <1>1, <1>3, <1>10, <2>1 DEF AnswerStep, Answered
  <2>4. listed \in Printers /\ o \in SavePrinter(d, t) /\ (o.ok => (listed = o.d.mem \/ [do |-> "list"] \in new)) /\ q[1].do = "save" /\ t.id = q[1].target.id
    BY <1>3, <1>4, <1>5, <1>6, <1>10, <2>1, <2>3 DEF AnswerStep
  <2>5. KeysOk(o.d, keyring, r, listed, bad \/ ~o.ok)
    BY <1>4, <1>10, <2>2, <2>3, <2>4, KeysInvSave
  <2> QED BY <1>1, <1>5, <2>1, <2>5 DEF KeysInv
<1> QED BY <1>10, <1>11, AnswerKeeps DEF SessionInv

LEMMA AnswerDeleteKeyKeeps == ASSUME SessionInv, AnswerDeleteKey, GoesOnAlone PROVE SessionInv'
<1>1. TypeInv /\ KeysInv /\ calls # <<>> /\ Head(calls).do = "delkey" /\ UNCHANGED <<keyring, acts, printers, editing, wizard>>
  BY DEF SessionInv, AnswerDeleteKey, Answering
<1>2. PICK c, next : c = Head(calls) /\ next = [do |-> "delete", id |-> c.id]
  OBVIOUS
<1>3. c \in Call /\ c.do = "delkey" /\ calls[1] = c /\ c.id \in Id /\ next \in Call /\ next.do = "delete" /\ next.id = c.id
  BY <1>1, <1>2, AnswerQueue, NewCalls, CallFacts
<1>4. Then(next)
  BY <1>2 DEF AnswerDeleteKey
<1>5. calls' \in Seq(Call) /\ Answered(1, {next})
  BY <1>1, <1>3, <1>4, AnswerQueue
<1>6. PICK d, bad : d = desk /\ d \in Desk /\ d.keys \in [Id -> OrNoKey] /\ bad = faulty /\ bad \in BOOLEAN
  BY <1>1 DEF TypeInv, Desk
<1>7. PICK o \in DeleteKey(d, c.id), worse \in BOOLEAN :
         desk' = o.d /\ worse = (~o.ok /\ d.keys[c.id] # NoKey) /\ faulty' = (bad \/ worse)
  BY <1>2, <1>6 DEF AnswerDeleteKey
<1>8. /\ o.d \in Desk /\ o.d.mem = d.mem
      /\ \A id \in Id : o.d.keys[id] = d.keys[id] \/ o.d.keys[id] = NoKey
      /\ worse \/ o.d.keys[c.id] = NoKey
  <2>1. CASE ~keyring /\ o = Done(d)
    <3>1. d.keys[c.id] = NoKey
      BY <1>1, <1>3, <1>6, <2>1 DEF KeysInv, KeysOk
    <3> QED BY <1>6, <2>1, <3>1 DEF Done
  <2>2. CASE o = Failed(d)
    BY <1>6, <1>7, <2>2 DEF Failed
  <2>3. CASE o = Done([d EXCEPT !.keys = [d.keys EXCEPT ![c.id] = NoKey]])
    <3>1. PICK keys : keys = [d.keys EXCEPT ![c.id] = NoKey]
      OBVIOUS
    <3>2. keys \in [Id -> OrNoKey] /\ keys[c.id] = NoKey /\ \A id \in Id : id # c.id => keys[id] = d.keys[id]
      BY <1>3, <1>6, <3>1 DEF OrNoKey
    <3>3. o = Done([mem |-> d.mem, file |-> d.file, keys |-> keys])
      BY <1>6, <2>3, <3>1, DeskFacts
    <3> QED BY <1>6, <3>2, <3>3 DEF Done, Desk
  <2> QED BY <1>7, <2>1, <2>2, <2>3 DEF DeleteKey
<1>9. AnswerStep({next})
  BY <1>1, <1>3, <1>5, <1>6, <1>7, <1>8 DEF AnswerStep, TypeInv
<1>10. KeysInv'
  <2>1. PICK q, r, list, e : q = calls /\ r = calls' /\ list = printers /\ e = o.d
    OBVIOUS
  <2>2. Context(d, keyring, q, list, bad) /\ KeysOk(d, keyring, q, list, bad)
    BY <1>1, <1>6, <2>1 DEF Context, TypeInv, KeysInv
  <2>3. q # <<>> /\ q[1].do = "delkey" /\ r \in Seq(Call) /\ Became(q, 1, {next}, r) /\ next.id = q[1].id
    BY <1>1, <1>3, <1>5, <2>1 DEF Answered
  <2>4. e.mem = d.mem /\ (\A id \in Id : e.keys[id] = d.keys[id] \/ e.keys[id] = NoKey) /\ (worse \/ e.keys[next.id] = NoKey)
    BY <1>3, <1>8, <2>1
  <2>5. KeysOk(e, keyring, r, list, bad \/ worse)
    BY <1>3, <2>2, <2>3, <2>4, KeysInvDeleteKey
  <2> QED BY <1>1, <1>7, <2>1, <2>5 DEF KeysInv
<1> QED BY <1>9, <1>10, AnswerKeeps DEF SessionInv

LEMMA AnswerDeleteKeeps == ASSUME SessionInv, AnswerDelete, GoesOnAlone PROVE SessionInv'
<1>1. TypeInv /\ KeysInv /\ calls # <<>> /\ Head(calls).do = "delete" /\ Rest /\ UNCHANGED <<keyring, acts, editing, wizard>>
  BY DEF SessionInv, AnswerDelete, Answering
<1>2. PICK c : c = Head(calls)
  OBVIOUS
<1>3. c \in Call /\ c.do = "delete" /\ calls[1] = c /\ c.id \in Id /\ calls' \in Seq(Call) /\ Answered(1, {})
  BY <1>1, <1>2, AnswerQueue, CallFacts
<1>4. PICK d : d = desk /\ d \in Desk
  BY <1>1 DEF TypeInv
<1>5. PICK o \in DeletePrinter(d, c.id) :
         /\ desk' = o.d /\ faulty' = (faulty \/ ~o.ok) /\ printers' = IF o.ok THEN o.d.mem ELSE printers
  BY <1>2, <1>4 DEF AnswerDelete, Faulty
<1>6. /\ o \in [d: Desk, ok: BOOLEAN]
      /\ \E r \in ReadAll(d) : o.d.mem = Restrict(r.d.mem, DOMAIN r.d.mem \ {c.id})
  <2>1. PICK id \in Id : id = c.id
    BY <1>3
  <2>2. o \in DeletePrinter(d, id)
    BY <1>5, <2>1
  <2>3. o \in [d: Desk, ok: BOOLEAN] /\ \E r \in ReadAll(d) : o.d.mem = Restrict(r.d.mem, DOMAIN r.d.mem \ {id})
    BY <1>4, <2>2, DeletePrinterFacts
  <2> QED BY <2>1, <2>3
<1>7. o.d \in Desk /\ o.ok \in BOOLEAN /\ o.d.mem \in Printers /\ Keyless(o.d.mem)
  <2>1. PICK r \in ReadAll(d) : o.d.mem = Restrict(r.d.mem, DOMAIN r.d.mem \ {c.id})
    BY <1>6
  <2>2. r.d \in Desk /\ r.d.mem = Strip(d.mem) /\ d.mem \in Printers
    BY <1>4, ReadAllFacts DEF Desk
  <2>3. r.d.mem \in Printers /\ Keyless(r.d.mem)
    BY <2>2, ListFacts
  <2>4. Keyless(o.d.mem)
    <3>1. PICK list, id : list = r.d.mem /\ id = c.id /\ list \in Printers
      BY <2>3
    <3>2. Keyless(Restrict(list, DOMAIN list \ {id}))
      BY <2>3, <3>1, RestrictFacts
    <3> QED BY <2>1, <3>1, <3>2
  <2> QED BY <1>6, <2>4 DEF Desk
<1>8. AnswerStep({})
  BY <1>1, <1>3, <1>5, <1>7 DEF AnswerStep, TypeInv
<1>9. KeysInv'
  <2>1. PICK q, r, list, bad, listed : q = calls /\ r = calls' /\ list = printers /\ bad = faulty /\ listed = printers'
    OBVIOUS
  <2>2. Context(d, keyring, q, list, bad) /\ KeysOk(d, keyring, q, list, bad)
    BY <1>1, <1>4, <2>1 DEF Context, TypeInv, KeysInv
  <2>3. q # <<>> /\ q[1] = c /\ q[1].do = "delete" /\ r \in Seq(Call) /\ Became(q, 1, {}, r)
    BY <1>1, <1>3, <2>1 DEF Answered
  <2>4. listed \in Printers /\ o \in DeletePrinter(d, q[1].id) /\ (o.ok => listed = o.d.mem)
    BY <1>5, <1>8, <2>1, <2>3 DEF AnswerStep
  <2>5. KeysOk(o.d, keyring, r, listed, bad \/ ~o.ok)
    BY <2>2, <2>3, <2>4, KeysInvDelete
  <2> QED BY <1>1, <1>5, <2>1, <2>5 DEF KeysInv
<1> QED BY <1>8, <1>9, AnswerKeeps DEF SessionInv

LEMMA AnswerScanKeeps == ASSUME SessionInv, AnswerScan \/ AnswerTest, GoesOnAlone PROVE SessionInv'
<1>1. /\ TypeInv /\ KeysInv /\ calls # <<>> /\ Head(calls).do \in {"scan", "test"} /\ Rest
      /\ UNCHANGED <<keyring, acts, desk, printers, editing, faulty>>
  BY DEF SessionInv, AnswerScan, AnswerTest, Answering
<1>2. PICK c : c = Head(calls)
  OBVIOUS
<1>3. c \in Call /\ c.do \in {"scan", "test"} /\ calls[1] = c /\ calls' \in Seq(Call) /\ Answered(1, {})
  BY <1>1, <1>2, AnswerQueue
<1>4. wizard \in Wizard
  BY <1>1 DEF TypeInv
<1>5. wizard' \in Wizard
  <2>1. CASE ~Waits(c)
    BY <1>2, <1>4, <2>1 DEF AnswerScan, AnswerTest
  <2>2. CASE Waits(c) /\ AnswerScan
    <3>1. wizard \in OpenWizards
      BY <1>1, <2>2, WaitingWizard DEF Waits
    <3>2. PICK w : w = [wizard EXCEPT !.scanning = FALSE]
      OBVIOUS
    <3>3. w \in OpenWizards /\ w \in Wizard /\ wizard.target.key \in OrNoKey
      BY <3>1, <3>2, WizardFacts DEF OpenWizards
    <3>4. [w EXCEPT !.found = FALSE, !.picked = FALSE] \in Wizard
      BY <3>3, WizardFacts
    <3>5. \A f \in Found : [w EXCEPT !.found = TRUE, !.picked = TRUE, !.target = Retarget(AsTarget(f))] \in Wizard
      <4>1. \A f \in Found : Retarget(AsTarget(f)) \in Target
        BY <3>3, TargetFacts DEF Retarget
      <4> QED BY <3>3, <4>1, WizardFacts
    <3>6. wizard' \in {w, [w EXCEPT !.found = FALSE, !.picked = FALSE]}
                      \cup {[w EXCEPT !.found = TRUE, !.picked = TRUE, !.target = Retarget(AsTarget(f))] : f \in Found}
      BY <1>2, <2>2, <3>2 DEF AnswerScan
    <3> QED BY <3>3, <3>4, <3>5, <3>6
  <2>3. CASE Waits(c) /\ AnswerTest
    <3>1. wizard \in OpenWizards
      BY <1>1, <2>3, WaitingWizard DEF Waits
    <3>2. PICK w : w = [wizard EXCEPT !.testing = FALSE]
      OBVIOUS
    <3>3. w \in OpenWizards /\ w \in Wizard
      BY <3>1, <3>2, WizardFacts DEF OpenWizards
    <3>4. c.do = "test" /\ {c.target} \in SUBSET Target
      <4>1. c.do = "test"
        BY <1>2, <2>3 DEF AnswerTest, Answering
      <4> QED BY <1>3, <4>1, CallFacts
    <3>5. [w EXCEPT !.probed = {c.target}] \in Wizard
      BY <3>3, <3>4, WizardFacts
    <3> QED BY <1>2, <2>3, <3>2, <3>3, <3>5 DEF AnswerTest
  <2> QED BY <2>1, <2>2, <2>3
<1>6. AnswerStep({})
  BY <1>1, <1>3, <1>5 DEF AnswerStep, TypeInv
<1>7. KeysInv'
  BY <1>1, <1>3, KeysSame
<1> QED BY <1>6, <1>7, AnswerKeeps DEF SessionInv

LEMMA AutoSaveKeeps == ASSUME SessionInv, AutoSave, GoesOnAlone PROVE SessionInv'
<1>1. TypeInv /\ KeysInv /\ StreamInv /\ UNCHANGED <<keyring, calls, printers, editing, wizard, acts, faulty>> /\ desk \in Desk
  BY DEF SessionInv, AutoSave, TypeInv
<1>2. desk' = [mem |-> desk.mem, file |-> desk.mem, keys |-> desk.keys]
  <2>1. PICK d \in Desk : d = desk
    BY <1>1
  <2>2. [d EXCEPT !.file = d.mem] = [mem |-> d.mem, file |-> d.mem, keys |-> d.keys]
    BY DeskFacts
  <2> QED BY <2>1, <2>2 DEF AutoSave
<1>3. TypeInv'
  BY <1>1, <1>2 DEF TypeInv, Desk, GoesOnAlone
<1>4. calls' \in Seq(Call) /\ Answered(0, {})
  <2>1. PICK q \in Seq(Call) : q = calls
    BY <1>1 DEF TypeInv
  <2>2. Became(q, 0, {}, q)
    BY NewCalls, QueueGrows
  <2> QED BY <1>1, <2>1, <2>2 DEF Answered
<1>5. KeysInv'
  BY <1>1, <1>2, <1>4, KeysSame
<1>6. StreamInv'
  BY <1>1 DEF StreamInv, GoesOnAlone
<1> QED BY <1>3, <1>5, <1>6 DEF SessionInv

\* A step of the slicer's dialog that gives no stream to a printer.
DialogStep(k, new) ==
    /\ Answered(k, new) /\ calls' \in Seq(Call)
    /\ k = 1 => calls # <<>> /\ calls[1].do \notin {"list", "save"}
    /\ \A c \in new : c.do \notin {"delete", "delkey", "layer"}
    /\ UNCHANGED <<desk, keyring, printers, editing, wizard, faulty>> /\ acts' \in 0..MaxActs
    /\ slicer' \in Slicer /\ (slicer'.streaming => slicer'.job # 0) /\ GoesOn(slicer, slicer')
    /\ device' \in [Host -> Device] /\ \A h \in Host : device'[h].fed = device[h].fed

LEMMA DialogKeeps == ASSUME SessionInv, NEW k, NEW new, DialogStep(k, new) PROVE SessionInv'
<1>1. TypeInv /\ KeysInv /\ StreamInv
  BY DEF SessionInv
<1>2. TypeInv'
  BY <1>1 DEF TypeInv, DialogStep
<1>3. KeysInv'
  <2>1. desk'.mem = desk.mem /\ desk'.keys = desk.keys
    BY DEF DialogStep
  <2> QED BY <1>1, <2>1, KeysSame DEF DialogStep
<1>4. StreamInv'
  BY <1>1, <1>2, StreamSame DEF DialogStep
<1> QED BY <1>2, <1>3, <1>4 DEF SessionInv

LEMMA CalledQueue ==
  ASSUME TypeInv, NEW c \in Call, Calling(c)
  PROVE  calls' \in Seq(Call) /\ Answered(0, {c})
<1>1. PICK q \in Seq(Call) : q = calls
  BY DEF TypeInv
<1>2. Append(q, c) \in Seq(Call) /\ Became(q, 0, {c}, Append(q, c))
  BY QueueGrows
<1> QED BY <1>1, <1>2 DEF Calling, Answered

LEMMA SilentQueue ==
  ASSUME TypeInv, UNCHANGED calls
  PROVE  calls' \in Seq(Call) /\ Answered(0, {})
<1>1. PICK q \in Seq(Call) : q = calls
  BY DEF TypeInv
<1>2. Became(q, 0, {}, q)
  BY NewCalls, QueueGrows
<1> QED BY <1>1, <1>2 DEF Answered

\* The buttons of the dialog.
DialogClick == OpenSlicer \/ CloseSlicer \/ ChangeSettings \/ DoSlice \/ \E id \in Id : OnSend(id)

LEMMA DialogClickKeeps == ASSUME SessionInv, DialogClick PROVE SessionInv'
<1>1. TypeInv /\ slicer \in Slicer /\ (slicer.streaming => slicer.job # 0) /\ device \in [Host -> Device] /\ acts \in 0..MaxActs
  BY DEF SessionInv, TypeInv
<1>2. PICK s, u : s = slicer /\ s \in Slicer /\ u = slicer'
  BY <1>1
<1>3. s.n \in Nat /\ s.rev \in Nat /\ s.jobs \in Nat /\ s.jobs <= MaxJobs /\ s.result \in Nat /\ s.targets \in Printers
  BY <1>2, SessionAssumption DEF Slicer
<1>4. ASSUME Act, Idle, NEW new, Answered(0, new), calls' \in Seq(Call), \A c \in new : c.do \notin {"delete", "delkey", "layer"},
             u \in Slicer, u.streaming => u.job # 0, GoesOn(s, u)
      PROVE  SessionInv'
  <2>1. DialogStep(0, new)
    BY <1>1, <1>2, <1>4, ActCounts DEF DialogStep, Idle
  <2> QED BY <2>1, DialogKeeps
<1>5. CASE OpenSlicer
  <2>1. u = [n |-> s.n + 1, open |-> TRUE, rev |-> s.rev, jobs |-> s.jobs, result |-> 0, targets |-> <<>>,
             streaming |-> FALSE, job |-> 0, done |-> 0]
    BY <1>2, <1>5 DEF OpenSlicer, Slicer
  <2>2. <<>> \in Printers
    <3>1. \A f \in [{} -> [host: Host \cup {Blank}, key: OrNoKey]] : f = <<>>
      OBVIOUS
    <3>2. <<>> \in [{} -> [host: Host \cup {Blank}, key: OrNoKey]]
      OBVIOUS
    <3> QED BY <3>2 DEF Printers
  <2>3. u \in Slicer /\ GoesOn(s, u) /\ ~u.streaming
    <3>1. s.n + 1 \in Nat /\ s.n < s.n + 1 /\ s.jobs <= s.jobs /\ 0 \in 0..Layers /\ 0 \in Nat /\ s.jobs \in 0..MaxJobs
      BY <1>3, SessionAssumption
    <3>2. GoesOn(s, u)
      BY <2>1, <3>1 DEF GoesOn
    <3> QED BY <1>3, <2>1, <2>2, <3>1, <3>2 DEF Slicer
  <2>4. PICK c : c = [do |-> "targets", by |-> s.n + 1] /\ c \in Call /\ c.do = "targets"
    <3>1. PICK n \in Nat : n = s.n + 1
      BY <1>3
    <3>2. [do |-> "targets", by |-> n] \in Call
      BY NewCalls
    <3> QED BY <3>1, <3>2
  <2>5. Calling(c)
    BY <1>2, <1>5, <2>4 DEF OpenSlicer
  <2>6. calls' \in Seq(Call) /\ Answered(0, {c})
    BY <1>1, <2>4, <2>5, CalledQueue
  <2>7. Act /\ Idle
    BY <1>5 DEF OpenSlicer
  <2> QED BY <1>4, <2>3, <2>4, <2>6, <2>7
<1>6. CASE CloseSlicer
  <2>1. u = [n |-> s.n, open |-> FALSE, rev |-> s.rev, jobs |-> s.jobs, result |-> s.result, targets |-> s.targets,
             streaming |-> s.streaming, job |-> s.job, done |-> s.done]
    BY <1>2, <1>6 DEF CloseSlicer, Slicer
  <2>2. u \in Slicer /\ GoesOn(s, u) /\ (u.streaming => u.job # 0)
    BY <1>1, <1>2, <1>3, <2>1 DEF Slicer, GoesOn
  <2> QED BY <1>1, <1>4, <1>6, <2>2, SilentQueue DEF CloseSlicer
<1>7. CASE ChangeSettings
  <2>1. u = [n |-> s.n, open |-> s.open, rev |-> s.rev + 1, jobs |-> s.jobs, result |-> s.result, targets |-> s.targets,
             streaming |-> s.streaming, job |-> s.job, done |-> s.done]
    BY <1>2, <1>7 DEF ChangeSettings, Slicer
  <2>2. u \in Slicer /\ GoesOn(s, u) /\ (u.streaming => u.job # 0)
    BY <1>1, <1>2, <1>3, <2>1 DEF Slicer, GoesOn
  <2> QED BY <1>1, <1>4, <1>7, <2>2, SilentQueue DEF ChangeSettings
<1>8. CASE DoSlice
  <2>1. u = s
    BY <1>2, <1>8 DEF DoSlice
  <2>2. u \in Slicer /\ GoesOn(s, u) /\ (u.streaming => u.job # 0)
    BY <1>1, <1>2, <1>3, <2>1 DEF GoesOn
  <2>3. PICK c : c = [do |-> "slice", rev |-> s.rev, by |-> s.n] /\ c \in Call /\ c.do = "slice"
    <3>1. [do |-> "slice", rev |-> s.rev, by |-> s.n] \in Call
      BY <1>3, NewCalls
    <3> QED BY <3>1
  <2>4. Calling(c)
    BY <1>2, <1>8, <2>3 DEF DoSlice
  <2>5. calls' \in Seq(Call) /\ Answered(0, {c})
    BY <1>1, <2>3, <2>4, CalledQueue
  <2>6. Act /\ Idle
    BY <1>8 DEF DoSlice
  <2> QED BY <1>4, <2>2, <2>3, <2>5, <2>6
<1>9. ASSUME NEW id \in Id, OnSend(id) PROVE SessionInv'
  <2>1. s.jobs < MaxJobs /\ s.targets[id].host \in Host
    <3>1. id \in DOMAIN s.targets /\ s.targets[id].host # Blank /\ s.jobs < MaxJobs
      BY <1>2, <1>9 DEF OnSend, Job
    <3> QED BY <1>3, <3>1, ListFacts
  <2>2. u = [n |-> s.n, open |-> s.open, rev |-> s.rev, jobs |-> s.jobs + 1, result |-> s.result, targets |-> s.targets,
             streaming |-> s.streaming, job |-> s.job, done |-> s.done]
    BY <1>2, <1>9 DEF OnSend, Slicer
  <2>3. s.jobs + 1 \in 0..MaxJobs /\ s.jobs <= s.jobs + 1
    BY <1>3, <2>1, SessionAssumption
  <2>4. u \in Slicer /\ GoesOn(s, u) /\ (u.streaming => u.job # 0)
    BY <1>1, <1>2, <1>3, <2>2, <2>3 DEF Slicer, GoesOn
  <2>5. PICK c : c = [do |-> "send", host |-> s.targets[id].host, rev |-> s.result] /\ c \in Call /\ c.do = "send"
    <3>1. [do |-> "send", host |-> s.targets[id].host, rev |-> s.result] \in Call
      BY <1>3, <2>1, NewCalls
    <3> QED BY <3>1
  <2>6. Calling(c)
    BY <1>2, <1>9, <2>5 DEF OnSend
  <2>7. calls' \in Seq(Call) /\ Answered(0, {c})
    BY <1>1, <2>5, <2>6, CalledQueue
  <2>8. Act /\ Idle
    BY <1>9 DEF OnSend, Job
  <2> QED BY <1>4, <2>4, <2>5, <2>7, <2>8
<1> QED BY <1>5, <1>6, <1>7, <1>8, <1>9 DEF DialogClick

LEMMA OnStreamKeeps == ASSUME SessionInv, NEW id \in Id, OnStream(id) PROVE SessionInv'
<1>1. /\ TypeInv /\ KeysInv /\ StreamInv /\ slicer \in Slicer /\ device \in [Host -> Device] /\ acts \in 0..MaxActs
      /\ UNCHANGED <<desk, keyring, printers, editing, wizard, faulty, device>>
  BY DEF SessionInv, TypeInv, OnStream, Idle
<1>2. PICK s, u : s = slicer /\ s \in Slicer /\ u = slicer'
  BY <1>1
<1>3. s.n \in Nat /\ s.rev \in Nat /\ s.jobs \in Nat /\ s.jobs <= MaxJobs /\ s.targets \in Printers
  BY <1>2, SessionAssumption DEF Slicer
<1>4. s.jobs < MaxJobs /\ ~s.streaming /\ s.targets[id].host \in Host
  <2>1. id \in DOMAIN s.targets /\ s.targets[id].host # Blank /\ s.jobs < MaxJobs /\ ~s.streaming
    BY <1>2 DEF OnStream, Job
  <2> QED BY <1>3, <2>1, ListFacts
<1>5. PICK job \in Nat : job = s.jobs + 1 /\ job \in 0..MaxJobs /\ job # 0
  BY <1>3, <1>4, SessionAssumption
<1>6. u = [n |-> s.n, open |-> s.open, rev |-> s.rev, jobs |-> job, result |-> s.rev, targets |-> s.targets,
           streaming |-> TRUE, job |-> job, done |-> 0]
  BY <1>2, <1>5 DEF OnStream, Slicer
<1>7. u \in Slicer
  BY <1>2, <1>3, <1>5, <1>6, SessionAssumption DEF Slicer
<1>8. PICK c : /\ c = [do |-> "layer", host |-> s.targets[id].host, job |-> job, layer |-> 1, by |-> s.n]
               /\ c \in Call /\ c.do = "layer"
  <2>1. 1 \in 1..Layers
    BY SessionAssumption
  <2>2. [do |-> "layer", host |-> s.targets[id].host, job |-> job, layer |-> 1, by |-> s.n] \in Call
    BY <1>3, <1>4, <2>1, NewCalls
  <2> QED BY <2>2
<1>9. Calling(c)
  BY <1>2, <1>5, <1>8 DEF OnStream
<1>10. calls' \in Seq(Call) /\ Answered(0, {c})
  BY <1>1, <1>8, <1>9, CalledQueue
<1>11. acts' \in 0..MaxActs
  BY <1>1, ActCounts DEF OnStream, Job
<1>12. TypeInv'
  BY <1>1, <1>2, <1>5, <1>6, <1>7, <1>10, <1>11 DEF TypeInv
<1>13. KeysInv'
  BY <1>1, <1>8, <1>10, KeysSame
<1>14. StreamInv'
  <2>1. PICK q, r, dev : q = calls /\ r = calls' /\ dev = device
    OBVIOUS
  <2>2. Dialog(q, dev, s) /\ Dialog(r, dev, u) /\ StreamOk(q, dev, s) /\ Became(q, 0, {c}, r)
    BY <1>1, <1>2, <1>7, <1>10, <2>1 DEF Dialog, TypeInv, StreamInv, Answered
  <2>3. c.job = s.jobs + 1 /\ c.layer = 1 /\ c.by = s.n /\ u.jobs = s.jobs + 1 /\ u.n = s.n /\ u.job = s.jobs + 1 /\ u.streaming /\ u.done = 0
    BY <1>5, <1>6, <1>8
  <2>4. StreamOk(r, dev, u)
    BY <1>4, <1>8, <2>2, <2>3, StreamBegins
  <2> QED BY <1>1, <1>2, <2>1, <2>4 DEF StreamInv
<1> QED BY <1>12, <1>13, <1>14 DEF SessionInv

\* The page has a key of an old version before its first list only.
LEMMA KeylessLater ==
  ASSUME TypeInv, KeysInv, calls # <<>>, Head(calls).do # "list"
  PROVE  faulty \/ Keyless(desk.mem)
BY DEF TypeInv, KeysInv, KeysOk, Starting

LEMMA AnswerTargetsKeeps == ASSUME SessionInv, AnswerTargets PROVE SessionInv'
<1>1. /\ TypeInv /\ KeysInv /\ StreamInv /\ calls # <<>> /\ Head(calls).do = "targets" /\ Rest
      /\ UNCHANGED <<keyring, acts, printers, editing, wizard, device>>
  BY DEF SessionInv, AnswerTargets, Answering
<1>2. PICK c : c = Head(calls) /\ calls[1] = c /\ c.do = "targets" /\ calls' \in Seq(Call) /\ Answered(1, {})
  BY <1>1, AnswerQueue
<1>3. PICK o \in ReadAll(desk) :
         /\ desk' = o.d /\ faulty' = (faulty \/ ~o.ok)
         /\ slicer' = IF Shown(c) THEN [slicer EXCEPT !.targets = Strip(o.d.mem)] ELSE slicer
  BY <1>2 DEF AnswerTargets, Faulty
<1>4. PICK d : d = desk /\ d \in Desk
  BY <1>1 DEF TypeInv
<1>5. /\ o.d \in Desk /\ o.ok \in BOOLEAN /\ (Keyless(d.mem) => o.d = d /\ o.ok)
      /\ \A x \in Id : o.d.keys[x] = d.keys[x] \/ keyring
  BY <1>3, <1>4, ReadAllFacts
<1>6. Strip(o.d.mem) \in Printers
  <2>1. o.d.mem \in Printers
    BY <1>5 DEF Desk
  <2> QED BY <2>1, ListFacts
<1>7. slicer' \in Slicer /\ (slicer'.streaming => slicer'.job # 0) /\ GoesOn(slicer, slicer')
  <2>1. PICK s, u : s = slicer /\ s \in Slicer /\ u = slicer' /\ (s.streaming => s.job # 0)
    BY <1>1 DEF TypeInv
  <2>2. s.jobs \in Nat /\ s.jobs <= s.jobs
    BY <2>1, SessionAssumption DEF Slicer
  <2>3. CASE u = s
    BY <2>1, <2>2, <2>3 DEF GoesOn
  <2>4. CASE u = [s EXCEPT !.targets = Strip(o.d.mem)]
    <3>1. u = [n |-> s.n, open |-> s.open, rev |-> s.rev, jobs |-> s.jobs, result |-> s.result, targets |-> Strip(o.d.mem),
               streaming |-> s.streaming, job |-> s.job, done |-> s.done]
      BY <2>1, <2>4 DEF Slicer
    <3> QED BY <1>6, <2>1, <2>2, <3>1 DEF Slicer, GoesOn
  <2> QED BY <1>3, <2>1, <2>3, <2>4
<1>8. TypeInv'
  BY <1>1, <1>2, <1>3, <1>5, <1>7 DEF TypeInv
<1>9. KeysInv'
  <2>1. CASE faulty
    <3>1. PICK q, r, list, e : q = calls /\ r = calls' /\ list = printers /\ e = o.d
      OBVIOUS
    <3>2. KeysOk(d, keyring, q, list, TRUE)
      BY <1>1, <1>4, <2>1, <3>1 DEF KeysInv, KeysOk
    <3>3. keyring \/ \A x \in Id : e.keys[x] \in {d.keys[x], NoKey}
      BY <1>5, <3>1
    <3>4. KeysOk(e, keyring, r, list, TRUE)
      BY <3>2, <3>3, KeysInvFaulty
    <3> QED BY <1>1, <1>3, <2>1, <3>1, <3>4 DEF KeysInv
  <2>2. CASE ~faulty
    <3>1. Keyless(d.mem)
      BY <1>1, <1>4, <2>2, KeylessLater
    <3>2. desk' = desk /\ faulty' = faulty
      <4>1. faulty \in BOOLEAN /\ o.ok
        BY <1>1, <1>5, <3>1 DEF TypeInv
      <4> QED BY <1>3, <1>4, <1>5, <2>2, <3>1, <4>1
    <3> QED BY <1>1, <1>2, <3>2, KeysSame
  <2> QED BY <2>1, <2>2
<1>10. StreamInv'
  BY <1>1, <1>2, <1>7, <1>8, StreamSame
<1> QED BY <1>8, <1>9, <1>10 DEF SessionInv

LEMMA AnswerSliceKeeps == ASSUME SessionInv, AnswerSlice \/ AnswerSend PROVE SessionInv'
<1>1. /\ TypeInv /\ calls # <<>> /\ Head(calls).do \in {"slice", "send"} /\ Rest
      /\ UNCHANGED <<desk, keyring, acts, printers, editing, wizard, faulty>>
      /\ slicer \in Slicer /\ (slicer.streaming => slicer.job # 0) /\ device \in [Host -> Device] /\ acts \in 0..MaxActs
  BY DEF SessionInv, TypeInv, AnswerSlice, AnswerSend, Answering
<1>2. PICK c : c = Head(calls) /\ calls[1] = c /\ c \in Call /\ c.do \in {"slice", "send"} /\ c.rev \in Nat /\ calls' \in Seq(Call) /\ Answered(1, {})
  BY <1>1, AnswerQueue, CallFacts
<1>3. PICK s, u : s = slicer /\ s \in Slicer /\ u = slicer'
  BY <1>1
<1>4. s.jobs \in Nat /\ s.jobs <= s.jobs
  BY <1>3, SessionAssumption DEF Slicer
<1>5. u \in Slicer /\ (u.streaming => u.job # 0) /\ GoesOn(s, u)
  <2>1. CASE u = s
    BY <1>1, <1>3, <1>4, <2>1 DEF GoesOn
  <2>2. CASE u = [s EXCEPT !.result = c.rev]
    <3>1. u = [n |-> s.n, open |-> s.open, rev |-> s.rev, jobs |-> s.jobs, result |-> c.rev, targets |-> s.targets,
               streaming |-> s.streaming, job |-> s.job, done |-> s.done]
      BY <1>3, <2>2 DEF Slicer
    <3> QED BY <1>1, <1>2, <1>3, <1>4, <3>1 DEF Slicer, GoesOn
  <2> QED BY <1>2, <1>3, <2>1, <2>2 DEF AnswerSlice, AnswerSend
<1>6. device' \in [Host -> Device] /\ \A h \in Host : device'[h].fed = device[h].fed
  <2>1. CASE AnswerSlice
    BY <1>1, <2>1 DEF AnswerSlice
  <2>2. CASE AnswerSend
    <3>1. c.do = "send" /\ c.host \in Host
      BY <1>2, <2>2, CallFacts DEF AnswerSend, Answering
    <3>2. PICK o \in Outcomes(device[c.host], SendFile(KindOf[c.host], c.rev)) : device' = [device EXCEPT ![c.host] = o.p]
      BY <1>2, <2>2 DEF AnswerSend
    <3>3. PICK p \in Device : p = device[c.host]
      BY <1>1, <3>1
    <3>4. o.p \in Device /\ o.p.fed = p.fed
      BY <1>2, <3>2, <3>3, SendFileFacts
    <3> QED BY <1>1, <3>1, <3>2, <3>3, <3>4
  <2> QED BY <1>2, <2>1, <2>2 DEF AnswerSlice, AnswerSend
<1>7. DialogStep(1, {})
  BY <1>1, <1>2, <1>3, <1>5, <1>6 DEF DialogStep
<1> QED BY <1>7, DialogKeeps

LEMMA AnswerLayerKeeps == ASSUME SessionInv, AnswerLayer PROVE SessionInv'
<1>1. /\ TypeInv /\ KeysInv /\ StreamInv /\ calls # <<>> /\ Head(calls).do = "layer"
      /\ UNCHANGED <<desk, keyring, acts, printers, editing, wizard, faulty>>
      /\ slicer \in Slicer /\ (slicer.streaming => slicer.job # 0) /\ device \in [Host -> Device]
  BY DEF SessionInv, TypeInv, AnswerLayer, Answering
<1>2. PICK c : c = Head(calls)
  OBVIOUS
<1>3. /\ c \in Call /\ c.do = "layer" /\ calls[1] = c /\ c.host \in Host /\ c.by \in Nat /\ c.job \in Nat /\ c.layer \in 1..Layers
      /\ (Rest => calls' \in Seq(Call) /\ Answered(1, {}))
  BY <1>1, <1>2, AnswerQueue, CallFacts
<1>4. PICK o \in Outcomes(device[c.host], SendLayer(c.job, c.layer)) :
         /\ device' = [device EXCEPT ![c.host] = o.p]
         /\ After(c, o.ok)
         /\ slicer' = IF ~Shown(c) THEN slicer
                      ELSE [slicer EXCEPT !.done = IF o.ok THEN c.layer ELSE slicer.done,
                                          !.streaming = o.ok /\ c.layer < Layers]
  BY <1>2 DEF AnswerLayer
<1>5. PICK q, r, s, u, dev, tools : q = calls /\ r = calls' /\ s = slicer /\ u = slicer' /\ dev = device /\ tools = device'
  OBVIOUS
<1>6. Dialog(q, dev, s) /\ StreamOk(q, dev, s) /\ q # <<>> /\ c = q[1] /\ s.jobs \in Nat /\ s.jobs <= MaxJobs
  BY <1>1, <1>3, <1>5, SessionAssumption DEF Dialog, TypeInv, StreamInv, Slicer
<1>7. c.job \in 1..s.jobs /\ c.job \in 1..MaxJobs /\ (c.by = s.n => c.job = s.job)
  <2>1. 1 \in DOMAIN q
    <3>1. q \in Seq(Call)
      BY <1>6 DEF Dialog
    <3> QED BY <1>6, <3>1
  <2>2. c.job \in 1..s.jobs /\ (c.by = s.n => c.job = s.job)
    BY <1>3, <1>6, <2>1 DEF StreamOk
  <2> QED BY <1>6, <2>2, SessionAssumption
<1>8. PICK p \in Device : p = dev[c.host]
  BY <1>3, <1>6 DEF Dialog
<1>9. PICK n \in 0..Parts : Received(p, o.p, c.job, c.layer, n) /\ o.ok \in BOOLEAN /\ (o.ok => n = Parts)
  <2>1. o \in Outcomes(p, SendLayer(c.job, c.layer))
    BY <1>4, <1>5, <1>8
  <2> QED BY <1>3, <1>7, <2>1, SendLayerFacts
<1>10. /\ tools \in [Host -> Device] /\ tools[c.host] = o.p /\ \A h \in Host : h # c.host => tools[h] = dev[h]
  <2>1. o.p \in Device
    BY <1>9 DEF Received
  <2> QED BY <1>1, <1>3, <1>4, <1>5, <2>1
<1>11. PICK new \in SUBSET Call : /\ r \in Seq(Call) /\ Answered(1, new)
                                  /\ \A x \in new : x = Following(c) /\ o.ok
                                  /\ new # {} => o.ok /\ c.layer < Layers
  <2>1. CASE o.ok /\ c.layer < Layers
    <3>1. [c EXCEPT !.layer = c.layer + 1] = Following(c)
      BY <1>3, <2>1, NextCalls DEF Following
    <3>2. Following(c) \in Call
      <4>1. c.layer + 1 \in 1..Layers
        BY <1>3, <2>1, SessionAssumption
      <4> QED BY <1>3, <4>1, NewCalls DEF Following
    <3>3. Then(Following(c))
      BY <1>4, <2>1, <3>1 DEF After
    <3>4. calls' \in Seq(Call) /\ Answered(1, {Following(c)})
      BY <1>1, <3>2, <3>3, AnswerQueue
    <3> QED BY <1>5, <2>1, <3>2, <3>4
  <2>2. CASE ~(o.ok /\ c.layer < Layers)
    BY <1>3, <1>4, <1>5, <2>2 DEF After
  <2> QED BY <2>1, <2>2
<1>12. /\ u.jobs = s.jobs /\ u.n = s.n /\ u.job = s.job /\ u \in Slicer /\ (u.streaming => u.job # 0)
       /\ u.done = s.done \/ (o.ok /\ c.by = s.n /\ u.done = c.layer)
       /\ u.streaming = s.streaming \/ (c.by = s.n /\ (new # {} => u.streaming))
  <2>1. CASE ~Shown(c)
    BY <1>1, <1>4, <1>5, <2>1
  <2>2. CASE Shown(c)
    <3>1. PICK done, on : done = (IF o.ok THEN c.layer ELSE s.done) /\ on = (o.ok /\ c.layer < Layers) /\ on \in BOOLEAN
      OBVIOUS
    <3>2. u = [n |-> s.n, open |-> s.open, rev |-> s.rev, jobs |-> s.jobs, result |-> s.result, targets |-> s.targets,
               streaming |-> on, job |-> s.job, done |-> done]
      BY <1>1, <1>4, <1>5, <2>2, <3>1 DEF Slicer
    <3>3. done \in 0..Layers
      <4>1. \A x \in 1..Layers : x \in 0..Layers
        BY SessionAssumption
      <4> QED BY <1>1, <1>3, <1>5, <3>1, <4>1 DEF Slicer
    <3>4. c.by = s.n /\ s.job # 0
      BY <1>5, <1>7, <2>2 DEF Shown
    <3>5. done = s.done \/ (o.ok /\ done = c.layer)
      BY <3>1
    <3>6. new # {} => on
      BY <1>11, <3>1
    <3>7. u \in Slicer
      BY <1>1, <1>5, <3>1, <3>2, <3>3 DEF Slicer
    <3> QED BY <3>2, <3>4, <3>5, <3>6, <3>7
  <2> QED BY <2>1, <2>2
<1>13. TypeInv'
  BY <1>1, <1>5, <1>10, <1>11, <1>12 DEF TypeInv
<1>14. KeysInv'
  <2>1. \A x \in new : x.do = "layer"
    BY <1>11 DEF Following
  <2> QED BY <1>1, <1>3, <1>5, <1>11, <2>1, KeysSame
<1>15. StreamInv'
  <2>1. Dialog(r, tools, u)
    BY <1>10, <1>11, <1>12 DEF Dialog
  <2>2. Received(dev[c.host], tools[c.host], c.job, c.layer, n) /\ Became(q, 1, new, r)
    BY <1>5, <1>8, <1>9, <1>10, <1>11 DEF Answered
  <2>3. PICK ok \in BOOLEAN : ok = o.ok
    BY <1>9
  <2>4. StreamOk(r, tools, u)
    BY <1>3, <1>6, <1>9, <1>10, <1>11, <1>12, <2>1, <2>2, <2>3, StreamGoesOn
  <2> QED BY <1>5, <2>4 DEF StreamInv
<1> QED BY <1>13, <1>14, <1>15 DEF SessionInv

LEMMA RestartKeeps == ASSUME SessionInv, RestartAll PROVE SessionInv'
<1>1. /\ TypeInv /\ KeysInv /\ StreamInv /\ acts \in 0..MaxActs /\ Act
      /\ slicer \in Slicer /\ (slicer.streaming => slicer.job # 0) /\ device \in [Host -> Device]
      /\ UNCHANGED <<keyring, device>> /\ printers' = <<>> /\ editing' = {} /\ wizard' = Closed /\ faulty' = TRUE
      /\ calls' = <<[do |-> "list"]>> /\ desk' = [desk EXCEPT !.mem = desk.file]
  BY DEF SessionInv, TypeInv, RestartAll, Restart
<1>2. PICK s, u : s = slicer /\ s \in Slicer /\ u = slicer'
  BY <1>1
<1>3. u = [n |-> s.n, open |-> FALSE, rev |-> s.rev, jobs |-> s.jobs, result |-> s.result, targets |-> s.targets,
           streaming |-> s.streaming, job |-> s.job, done |-> s.done]
  BY <1>2 DEF RestartAll, Slicer
<1>4. u \in Slicer /\ (u.streaming => u.job # 0) /\ GoesOn(s, u)
  <2>1. s.jobs \in Nat
    BY <1>2, SessionAssumption DEF Slicer
  <2> QED BY <1>1, <1>2, <1>3, <2>1 DEF Slicer, GoesOn
<1>5. PICK d, e : d = desk /\ d \in Desk /\ e = desk' /\ e = [mem |-> d.file, file |-> d.file, keys |-> d.keys]
  <2>1. PICK d \in Desk : d = desk
    BY <1>1 DEF TypeInv
  <2>2. [d EXCEPT !.mem = d.file] = [mem |-> d.file, file |-> d.file, keys |-> d.keys]
    BY DeskFacts
  <2> QED BY <1>1, <2>1, <2>2
<1>6. PICK c : c = [do |-> "list"] /\ c \in Call
  BY NewCalls
<1>7. PICK none, r : none = <<>> /\ none \in Seq(Call) /\ r = calls' /\ r = Append(none, c)
  <2>1. PICK none \in Seq(Call) : none = <<>>
    <3>1. <<>> \in Seq(Call)
      OBVIOUS
    <3> QED BY <3>1
  <2>2. PICK r : r = calls' /\ r = <<c>>
    BY <1>1, <1>6
  <2>3. Append(none, c) = <<c>>
    BY <2>1
  <2> QED BY <2>1, <2>2, <2>3
<1>8. r \in Seq(Call) /\ Became(none, 0, {c}, r)
  BY <1>6, <1>7, QueueGrows
<1>9. <<>> \in Printers /\ Keyless(<<>>)
  <2>1. <<>> \in [{} -> [host: Host \cup {Blank}, key: OrNoKey]]
    OBVIOUS
  <2> QED BY <2>1 DEF Printers, Keyless
<1>10. Closed \in Wizard
  BY DEF Closed, Wizard
<1>11. TypeInv'
  <2>1. acts' \in 0..MaxActs
    BY <1>1, ActCounts
  <2>2. e \in Desk
    BY <1>5 DEF Desk
  <2> QED BY <1>1, <1>2, <1>4, <1>5, <1>7, <1>8, <1>9, <1>10, <2>1, <2>2 DEF TypeInv
<1>12. KeysInv'
  <2>1. PICK q, list, bad : q = calls /\ list = printers /\ bad = faulty
    OBVIOUS
  <2>2. KeysOk(d, keyring, q, list, bad)
    BY <1>1, <1>5, <2>1 DEF KeysInv
  <2>3. \A id \in Id : e.keys[id] \in {d.keys[id], NoKey}
    BY <1>5
  <2>4. KeysOk(e, keyring, r, <<>>, TRUE)
    BY <2>2, <2>3, KeysInvFaulty
  <2> QED BY <1>1, <1>5, <1>7, <2>4 DEF KeysInv
<1>13. StreamInv'
  <2>1. PICK dev : dev = device
    OBVIOUS
  <2>2. StreamOk(none, dev, s) /\ Dialog(none, dev, s) /\ Dialog(r, dev, u)
    <3>1. StreamOk(calls, dev, s)
      BY <1>1, <1>2, <2>1 DEF StreamInv
    <3>2. DOMAIN none = {}
      BY <1>7
    <3>3. StreamOk(none, dev, s)
      BY <3>1, <3>2 DEF StreamOk
    <3> QED BY <1>1, <1>2, <1>4, <1>7, <1>8, <2>1, <3>3 DEF Dialog
  <2>3. c.do # "layer"
    BY <1>6
  <2>4. StreamOk(r, dev, u)
    BY <1>4, <1>6, <1>8, <2>2, <2>3, StreamKeeps
  <2> QED BY <1>1, <1>2, <1>7, <2>1, <2>4 DEF StreamInv
<1> QED BY <1>11, <1>12, <1>13 DEF SessionInv

LEMMA SessionInitInv == SessionInit => SessionInv
<1> SUFFICES ASSUME SessionInit PROVE SessionInv
  OBVIOUS
<1>1. PICK list : /\ list \in OldLists
                  /\ desk = [mem |-> list, file |-> list, keys |-> [id \in Id |-> NoKey]]
  BY DEF SessionInit, PrintersInit
<1>2. <<>> \in Printers /\ Keyless(<<>>)
  <2>1. <<>> \in [{} -> [host: Host \cup {Blank}, key: OrNoKey]]
    OBVIOUS
  <2> QED BY <2>1 DEF Printers, Keyless
<1>3. list \in Printers
  <2>1. ASSUME NEW h \in Host, NEW k \in OrNoKey PROVE OldList(h, k) \in Printers
    <3>1. PICK new \in Id : new = CHOOSE n \in NewId : TRUE
      BY PrintersAssumption
    <3>2. [id \in {new} |-> [host |-> h, key |-> k]] \in [{new} -> [host: Host \cup {Blank}, key: OrNoKey]]
      OBVIOUS
    <3>3. {new} \in SUBSET Id
      OBVIOUS
    <3> QED BY <3>1, <3>2, <3>3 DEF Printers, OldList
  <2>2. list = <<>> \/ \E h \in Host, k \in OrNoKey : list = OldList(h, k)
    BY <1>1 DEF OldLists
  <2> QED BY <1>2, <2>1, <2>2, Zenon
<1>4. /\ keyring \in BOOLEAN /\ calls = <<[do |-> "list"]>> /\ printers = <<>> /\ editing = {} /\ wizard = Closed /\ acts = 0
      /\ faulty = FALSE /\ device = [h \in Host |-> NewPrinter]
      /\ slicer = [n |-> 0, open |-> FALSE, rev |-> 1, jobs |-> 0, result |-> 0, targets |-> <<>>,
                   streaming |-> FALSE, job |-> 0, done |-> 0]
  <2>1. PrintersInit /\ device = [h \in Host |-> NewPrinter]
        /\ slicer = [n |-> 0, open |-> FALSE, rev |-> 1, jobs |-> 0, result |-> 0, targets |-> <<>>,
                     streaming |-> FALSE, job |-> 0, done |-> 0]
    BY Zenon DEF SessionInit
  <2>2. /\ keyring \in BOOLEAN /\ calls = <<[do |-> "list"]>> /\ printers = <<>> /\ editing = {} /\ wizard = Closed /\ acts = 0
        /\ faulty = FALSE
    BY <2>1, Zenon DEF PrintersInit
  <2> QED BY <2>1, <2>2
<1>5. calls \in Seq(Call) /\ DOMAIN calls = {1} /\ calls[1].do = "list" /\ calls # <<>>
  <2>1. PICK c \in Call : c = [do |-> "list"] /\ c.do = "list"
    BY NewCalls
  <2> QED BY <1>4, <2>1
<1>6. NewPrinter \in Device /\ \A job \in 1..MaxJobs : NewPrinter.fed[job] = <<>>
  <2>1. <<>> \in Seq([job: Nat, layer: Nat, part: Nat])
    OBVIOUS
  <2>2. PICK fed : fed = [job \in 1..MaxJobs |-> <<>>] /\ fed \in [1..MaxJobs -> Seq([job: Nat, layer: Nat, part: Nat])]
    <3>1. [job \in 1..MaxJobs |-> <<>>] \in [1..MaxJobs -> Seq([job: Nat, layer: Nat, part: Nat])]
      BY <2>1
    <3> QED BY <3>1
  <2>3. NewPrinter = [stored |-> 0, selected |-> 0, run |-> "idle", fed |-> fed]
    BY <2>2 DEF NewPrinter
  <2> QED BY <2>2, <2>3 DEF Device
<1>7. TypeInv
  <2>1. [id \in Id |-> NoKey] \in [Id -> OrNoKey]
    BY DEF OrNoKey
  <2>2. desk \in Desk
    BY <1>1, <1>3, <2>1 DEF Desk
  <2>3. wizard \in Wizard
    BY <1>4 DEF Closed, Wizard
  <2>4. slicer \in Slicer /\ ~slicer.streaming
    <3>1. 0 \in 0..MaxJobs /\ 0 \in 0..Layers
      BY SessionAssumption
    <3> QED BY <1>2, <1>4, <3>1 DEF Slicer
  <2>5. device \in [Host -> Device]
    BY <1>4, <1>6
  <2>6. acts \in 0..MaxActs
    BY <1>4, PrintersAssumption
  <2> QED BY <1>2, <1>4, <1>5, <2>2, <2>3, <2>4, <2>5, <2>6 DEF TypeInv
<1>8. KeysInv
  <2>1. \A id \in Id : desk.keys[id] = NoKey
    BY <1>1
  <2>2. Starting(desk, calls, printers)
    BY <1>4, <1>5, <2>1 DEF Starting
  <2>3. \A i \in DOMAIN calls : calls[i].do # "delete"
    BY <1>5
  <2> QED BY <1>5, <2>1, <2>2, <2>3 DEF KeysInv, KeysOk
<1>9. StreamInv
  <2>1. \A h \in Host, job \in 1..MaxJobs : device[h].fed[job] = <<>>
    BY <1>4, <1>6
  <2>2. \A i \in DOMAIN calls : calls[i].do # "layer"
    BY <1>5
  <2>3. InOrder(device)
    BY <2>1 DEF InOrder
  <2> QED BY <1>4, <2>1, <2>2, <2>3 DEF StreamInv, StreamOk
<1> QED BY <1>7, <1>8, <1>9 DEF SessionInv

LEMMA SessionStepInv == SessionInv /\ [SessionNext]_sessionVars => SessionInv'
<1> SUFFICES ASSUME SessionInv, [SessionNext]_sessionVars PROVE SessionInv'
  OBVIOUS
<1>0. TypeInv
  BY DEF SessionInv
<1>1. ASSUME PrintersStep, UNCHANGED <<device, slicer>> PROVE SessionInv'
  <2> USE <1>0, <1>1 DEF GoesOnAlone
  <2>1. CASE wizard.step = "closed" /\ (PanelStep \/ OpenWizard)
    BY <2>1, PanelClicks, WizardClicks, ClickKeeps
  <2>2. CASE WizardStep
    BY <2>2, WizardClicks, ClickKeeps
  <2>3. CASE Answer
    BY <2>3, AnswerListKeeps, AnswerGetKeyKeeps, AnswerSetKeyKeeps, AnswerSaveKeeps, AnswerDeleteKeyKeeps, AnswerDeleteKeeps,
       AnswerScanKeeps DEF Answer
  <2>4. CASE AutoSave
    BY <2>4, AutoSaveKeeps
  <2> QED BY <2>1, <2>2, <2>3, <2>4 DEF PrintersStep
<1>2. CASE SlicerStep
  BY <1>2, DialogClickKeeps, OnStreamKeeps, AnswerTargetsKeeps, AnswerSliceKeeps, AnswerLayerKeeps DEF SlicerStep, DialogClick
<1>3. CASE RestartAll
  BY <1>3, RestartKeeps
<1>4. CASE UNCHANGED sessionVars
  BY <1>4 DEF sessionVars, saved, SessionInv, TypeInv, KeysInv, StreamInv
<1> QED BY <1>1, <1>2, <1>3, <1>4 DEF SessionNext

LEMMA SessionAlways == SessionSpec => []SessionInv
BY SessionInitInv, SessionStepInv, PTL DEF SessionSpec

\* The panels, the list on disk and the keychain always tell the same printers
\* apart (printer.rs, PrinterPanel.tsx, PrinterSetupWizard.tsx): as long as no
\* call fails, a key in the keychain belongs to a printer that is saved or is
\* about to be, and a panel with nothing under way lists what is saved.
THEOREM PanelsAlwaysAgree == SessionSpec => []PanelsAgree
<1>1. SessionInv => PanelsAgree
  <2> SUFFICES ASSUME SessionInv PROVE PanelsAgree
    OBVIOUS
  <2>1. TypeInv /\ KeysOk(desk, keyring, calls, printers, faulty)
    BY DEF SessionInv, KeysInv
  <2>2. editing \subseteq Target /\ Cardinality(editing) <= 1
    <3>1. CASE editing = {}
      BY <3>1, FS_EmptySet
    <3>2. CASE \E t \in Target : editing = {t}
      <4>1. PICK t \in Target : editing = {t}
        BY <3>2
      <4>2. Cardinality({t}) = 1
        BY FS_Singleton
      <4>3. Cardinality(editing) = 1
        BY <4>1, <4>2
      <4> QED BY <4>1, <4>3
    <3> QED BY <2>1, <3>1, <3>2 DEF TypeInv
  <2>3. TypeOK
    BY <2>1, <2>2 DEF TypeInv, TypeOK, PrintersTypeOK, Desk, Slicer, Device, Keyless
  <2>4. NoOrphanKey
    BY <2>1 DEF KeysOk, SavedBy, NoOrphanKey, Range
  <2>5. ListIsFresh
    <3>1. calls = <<>> => DOMAIN calls = {}
      OBVIOUS
    <3> QED BY <2>1, <3>1 DEF KeysOk, ListIsFresh
  <2> QED BY <2>3, <2>4, <2>5 DEF PanelsAgree
<1> QED BY <1>1, SessionAlways, PTL

\* A printer is always given a stream layer after layer, chunk after chunk, and
\* the dialog never shows a layer as sent that no printer received
\* (SlicerPanel.tsx, stream.rs), wherever requests and answers are lost.
THEOREM StreamsAlwaysInOrder == SessionSpec => []StreamsInOrder
<1>1. SessionInv => StreamsInOrder
  BY DEF SessionInv, StreamInv, StreamOk, InOrder, StreamsInOrder, LayersInOrder, ProgressIsReal, Given
<1> QED BY <1>1, SessionAlways, PTL

\* What a step of the desktop process from d to e may do to the keys.
KeysMoved(d, e, ring, bad, gone) ==
    /\ \A id \in DOMAIN e.mem : e.mem[id].key # NoKey =>
          \E list \in {d.mem, d.file} : id \in DOMAIN list /\ e.mem[id] = list[id]
    /\ ring /\ ~bad => \A id \in Id : KeyOf(d, id) # NoKey /\ KeyOf(e, id) = NoKey => gone

LEMMA KeysMovedByRead ==
  ASSUME NEW d \in Desk, NEW o \in ReadAll(d), NEW bad, NEW gone
  PROVE  KeysMoved(d, o.d, keyring, bad \/ ~o.ok, gone)
<1>1. /\ o.d.mem = Strip(d.mem) /\ d.mem \in Printers
      /\ \A id \in Id : \/ o.d.keys[id] = d.keys[id]
                        \/ id \in DOMAIN d.mem /\ o.d.keys[id] = d.mem[id].key /\ d.mem[id].key # NoKey
      /\ o.ok => \A id \in DOMAIN d.mem : d.mem[id].key # NoKey => o.d.keys[id] = d.mem[id].key
  BY ReadAllFacts DEF Desk
<1>2. Keyless(o.d.mem)
  BY <1>1, ListFacts
<1>3. ASSUME o.ok, NEW id \in Id, KeyOf(d, id) # NoKey PROVE KeyOf(o.d, id) # NoKey
  <2>1. o.d.keys[id] # NoKey
    BY <1>1, <1>3 DEF KeyOf
  <2> QED BY <2>1 DEF KeyOf
<1> QED BY <1>2, <1>3 DEF KeysMoved, Keyless

LEMMA KeysMovedBySame ==
  ASSUME NEW d, NEW e, NEW ring, NEW bad, NEW gone, e.mem = d.mem,
         gone \/ \A id \in Id : d.keys[id] # NoKey => e.keys[id] # NoKey
  PROVE  KeysMoved(d, e, ring, bad, gone)
<1>1. \A id \in DOMAIN e.mem : \E list \in {d.mem, d.file} : id \in DOMAIN list /\ e.mem[id] = list[id]
  OBVIOUS
<1>2. ASSUME ~gone, NEW id \in Id, KeyOf(d, id) # NoKey PROVE KeyOf(e, id) # NoKey
  BY <1>2 DEF KeyOf
<1> QED BY <1>1, <1>2 DEF KeysMoved

\* What the steps of the session do to the desktop process.
Taken == Head(calls).do \in {"delkey", "delete"}

LEMMA KeysMovedByStep == ASSUME SessionInv, SessionNext, desk' # desk PROVE KeysMoved(desk, desk', keyring, faulty', Taken)
<1>1. TypeInv /\ KeysInv /\ faulty \in BOOLEAN
  BY DEF SessionInv, TypeInv
<1>2. PICK d : d = desk /\ d \in Desk
  BY <1>1 DEF TypeInv
<1>3. ASSUME AnswerList \/ AnswerTargets PROVE KeysMoved(d, desk', keyring, faulty', Taken)
  <2>1. PICK o \in ReadAll(d) : desk' = o.d /\ faulty' = (faulty \/ ~o.ok)
    BY <1>2, <1>3 DEF AnswerList, AnswerTargets, Faulty
  <2>2. KeysMoved(d, o.d, keyring, faulty \/ ~o.ok, Taken)
    BY <1>2, KeysMovedByRead
  <2> QED BY <2>1, <2>2
<1>4. ASSUME AnswerSetKey PROVE KeysMoved(d, desk', keyring, faulty', Taken)
  <2>1. PICK c : c = Head(calls) /\ c \in Call /\ c.do = "setkey"
    BY <1>1, <1>4, AnswerQueue DEF AnswerSetKey, Answering
  <2>2. PICK t : t = c.target /\ t.id \in Id /\ t.key # NoKey
    BY <2>1, CallFacts DEF Target
  <2>3. PICK o \in SetKey(d, t.id, t.key) : desk' = o.d
    BY <1>2, <1>4, <2>1, <2>2 DEF AnswerSetKey
  <2>4. PICK keys : keys = [d.keys EXCEPT ![t.id] = t.key]
    OBVIOUS
  <2>5. \A id \in Id : d.keys[id] # NoKey => keys[id] # NoKey
    BY <1>2, <2>2, <2>4 DEF Desk
  <2>6. o.d = d \/ (o.d.mem = d.mem /\ o.d.keys = keys)
    <3>1. CASE o = Done(d) \/ o = Failed(d)
      BY <3>1 DEF Done, Failed
    <3>2. CASE o = Done([d EXCEPT !.keys = [d.keys EXCEPT ![t.id] = t.key]])
      <4>1. o = Done([mem |-> d.mem, file |-> d.file, keys |-> keys])
        BY <1>2, <2>4, <3>2, DeskFacts
      <4> QED BY <4>1 DEF Done
    <3> QED BY <2>3, <3>1, <3>2 DEF SetKey
  <2>7. PICK e : e = desk'
    OBVIOUS
  <2>8. e.mem = d.mem /\ \A id \in Id : d.keys[id] # NoKey => e.keys[id] # NoKey
    BY <2>3, <2>5, <2>6, <2>7
  <2> QED BY <2>7, <2>8, KeysMovedBySame
<1>5. ASSUME AnswerSave PROVE KeysMoved(d, desk', keyring, faulty', Taken)
  <2>1. PICK c, t : c = Head(calls) /\ c \in Call /\ c.do = "save" /\ t = [c.target EXCEPT !.key = NoKey]
    BY <1>1, <1>5, AnswerQueue DEF AnswerSave, Answering
  <2>2. t \in Target /\ t.key = NoKey
    <3>1. c.target \in Target /\ NoKey \in OrNoKey
      BY <2>1, CallFacts DEF OrNoKey
    <3> QED BY <2>1, <3>1, TargetFacts
  <2>3. PICK o \in SavePrinter(d, t) : desk' = o.d /\ faulty' = (faulty \/ ~o.ok)
    BY <1>2, <1>5, <2>1 DEF AnswerSave, Faulty
  <2>4. PICK r \in ReadAll(d) : o.d.mem = Upsert(r.d.mem, t) /\ o.d.keys = r.d.keys
    BY <1>2, <2>2, <2>3, SavePrinterFacts
  <2>5. r.d \in Desk /\ r.d.mem = Strip(d.mem) /\ d.mem \in Printers /\ (Keyless(d.mem) => r.d = d)
    BY <1>2, ReadAllFacts DEF Desk
  <2>6. Keyless(o.d.mem)
    <3>1. PICK list : list = r.d.mem /\ list \in Printers /\ Keyless(list)
      BY <2>5, ListFacts
    <3>2. Keyless(Upsert(list, t))
      BY <2>2, <3>1, UpsertFacts
    <3> QED BY <2>4, <3>1, <3>2
  <2>7. faulty \/ Keyless(d.mem)
    BY <1>1, <1>2, <1>5, <2>1, KeylessLater DEF AnswerSave, Answering
  <2>8. ASSUME ~faulty, NEW id \in Id, KeyOf(d, id) # NoKey PROVE KeyOf(o.d, id) # NoKey
    <3>1. o.d.keys[id] = d.keys[id]
      BY <2>4, <2>5, <2>7, <2>8
    <3>2. d.keys[id] # NoKey
      BY <2>7, <2>8 DEF KeyOf, Keyless
    <3> QED BY <3>1, <3>2 DEF KeyOf
  <2> QED BY <1>1, <2>3, <2>6, <2>8 DEF KeysMoved, Keyless
<1>6. ASSUME AnswerDeleteKey PROVE KeysMoved(d, desk', keyring, faulty', Taken)
  <2>1. Taken
    BY <1>6 DEF Taken, AnswerDeleteKey, Answering
  <2>2. PICK id : id = Head(calls).id
    OBVIOUS
  <2>3. PICK o \in DeleteKey(d, id) : desk' = o.d
    BY <1>2, <1>6, <2>2 DEF AnswerDeleteKey
  <2>4. o.d.mem = d.mem
    <3>1. CASE o = Done(d) \/ o = Failed(d)
      BY <3>1 DEF Done, Failed
    <3>2. CASE o = Done([d EXCEPT !.keys = [d.keys EXCEPT ![id] = NoKey]])
      <4>1. PICK keys : keys = [d.keys EXCEPT ![id] = NoKey]
        OBVIOUS
      <4>2. o = Done([mem |-> d.mem, file |-> d.file, keys |-> keys])
        BY <1>2, <3>2, <4>1, DeskFacts
      <4> QED BY <4>2 DEF Done
    <3> QED BY <2>3, <3>1, <3>2 DEF DeleteKey
  <2>5. PICK e : e = desk'
    OBVIOUS
  <2> QED BY <2>1, <2>3, <2>4, <2>5, KeysMovedBySame
<1>7. ASSUME AnswerDelete PROVE KeysMoved(d, desk', keyring, faulty', Taken)
  <2>1. Taken
    BY <1>7 DEF Taken, AnswerDelete, Answering
  <2>2. PICK id \in Id : id = Head(calls).id
    BY <1>1, <1>7, AnswerQueue, CallFacts DEF AnswerDelete, Answering
  <2>3. PICK o \in DeletePrinter(d, id) : desk' = o.d
    BY <1>2, <1>7, <2>2 DEF AnswerDelete
  <2>4. PICK r \in ReadAll(d) : o.d.mem = Restrict(r.d.mem, DOMAIN r.d.mem \ {id})
    BY <1>2, <2>3, DeletePrinterFacts
  <2>5. r.d.mem = Strip(d.mem) /\ d.mem \in Printers
    BY <1>2, ReadAllFacts DEF Desk
  <2>6. PICK list : list = r.d.mem /\ list \in Printers /\ Keyless(list)
    BY <2>5, ListFacts
  <2>7. Keyless(Restrict(list, DOMAIN list \ {id}))
    BY <2>6, RestrictFacts
  <2>8. Keyless(o.d.mem)
    BY <2>4, <2>6, <2>7
  <2> QED BY <2>1, <2>3, <2>8 DEF KeysMoved, Keyless
<1>8. ASSUME AutoSave \/ RestartAll PROVE KeysMoved(d, desk', keyring, faulty', Taken)
  <2>1. CASE AutoSave
    <3>1. PICK e : e = desk' /\ e = [d EXCEPT !.file = d.mem]
      BY <1>2, <2>1 DEF AutoSave
    <3>2. [d EXCEPT !.file = d.mem] = [mem |-> d.mem, file |-> d.mem, keys |-> d.keys]
      BY <1>2, DeskFacts
    <3>3. e.mem = d.mem /\ e.keys = d.keys
      BY <3>1, <3>2
    <3> QED BY <3>1, <3>3, KeysMovedBySame
  <2>2. CASE RestartAll
    <3>1. PICK e : e = desk' /\ e = [d EXCEPT !.mem = d.file] /\ faulty' = TRUE
      BY <1>2, <2>2 DEF RestartAll, Restart
    <3>2. e = [mem |-> d.file, file |-> d.file, keys |-> d.keys]
      BY <1>2, <3>1, DeskFacts
    <3> QED BY <3>1, <3>2 DEF KeysMoved
  <2> QED BY <1>8, <2>1, <2>2
<1>9. \/ AnswerList \/ AnswerTargets \/ AnswerSetKey \/ AnswerSave \/ AnswerDeleteKey \/ AnswerDelete \/ AutoSave \/ RestartAll
  <2>1. CASE PrintersStep
    <3>1. ~(PanelStep \/ OpenWizard \/ WizardStep)
      BY <1>1, PanelClicks, WizardClicks DEF ClickStep
    <3>2. ~(AnswerGetKey \/ AnswerScan \/ AnswerTest)
      BY DEF AnswerGetKey, AnswerScan, AnswerTest
    <3> QED BY <2>1, <3>1, <3>2 DEF PrintersStep, Answer
  <2>2. CASE SlicerStep
    <3>1. ~(OpenSlicer \/ CloseSlicer \/ ChangeSettings \/ DoSlice \/ \E id \in Id : OnSend(id) \/ OnStream(id))
      BY DEF OpenSlicer, CloseSlicer, ChangeSettings, DoSlice, OnSend, OnStream, Idle
    <3> QED BY <2>2, <3>1 DEF SlicerStep, AnswerSlice, AnswerSend, AnswerLayer
  <2> QED BY <2>1, <2>2 DEF SessionNext
<1> QED BY <1>2, <1>3, <1>4, <1>5, <1>6, <1>7, <1>8, <1>9

\* Keys of printers only ever leave printers.json for the keychain
\* (printer.rs:5, migrate and strip): no step writes a key into the list that
\* was not there, and as long as no call fails the key of a printer is lost by
\* deleting the printer and by nothing else.
THEOREM KeysAlwaysMoveToKeychain == SessionSpec => KeysMoveToKeychain
<1>1. SessionInv /\ [SessionNext]_sessionVars => [KeysMoved(desk, desk', keyring, faulty', Taken)]_desk
  BY KeysMovedByStep DEF sessionVars, saved
<1> QED BY <1>1, SessionAlways, PTL DEF SessionSpec, KeysMoveToKeychain, KeysMoved, Taken

--------------------------------------------------------------------------
(* The printers that are watched (commands.rs, telemetry.ts).           *)

USE DEF AtMostOne

\* What a client knows of a printer.
Client == [kind: Protocol, protocol: Protocol, connected: BOOLEAN,
           firmware: AtMostOne({"ESP3D", "OctoPrint", "Moonraker compat", "Moonraker"})]

Reading == [z: 0..Total, tool: AtMostOne(Heat), bed: AtMostOne(Heat), completion: 0..Total]

\* What is shown is an answer of the printer as it is, to the client that it has.
ShownIsAnswer ==
  \A s \in shown : \E c \in client, came \in BOOLEAN, f \in AtMostOne({"ESP3D", "OctoPrint", "Moonraker compat", "Moonraker"}) :
     s = StatusOf(c.kind, unit, came, f)

StatusInv ==
  /\ unit \in PrinterUnit
  /\ unit.phase \in Active => unit.done < Total
  /\ client \in AtMostOne(Client)
  /\ \A c \in client : c.kind \in Spoken(unit.server)
  /\ shown = {} \/ \E s : shown = {s}
  /\ ShownIsAnswer
  /\ log \in Seq(Reading)

\* What Moonraker's search makes of its answer: a bed that is not there has the
\* temperature of the extruder, which comes next.
LEMMA MoonrakerFinds ==
  ASSUME NEW u \in PrinterUnit
  PROVE  LET r == MoonrakerReply(u) IN
         /\ Nested(r, "print_stats", "state") = {CASE u.phase = "idle" -> "standby" [] u.phase = "failed" -> "error" [] OTHER -> u.phase}
         /\ Nested(r, "display_status", "progress") = {u.done}
         /\ Nested(r, "extruder", "temperature") = {u.hot}
         /\ Nested(r, "heater_bed", "temperature") = IF u.bed = {} THEN {u.hot} ELSE u.bed
<1> DEFINE r == MoonrakerReply(u)
           after(outer) == {i \in DOMAIN r : \E j \in 1..i : r[j].name = outer}
           with(outer, inner) == {i \in after(outer) : inner \in DOMAIN r[i].fields}
<1>1. /\ DOMAIN r = 1..4
      /\ r[1].name = "heater_bed" /\ r[2].name = "extruder" /\ r[3].name = "print_stats" /\ r[4].name = "display_status"
      /\ DOMAIN r[1].fields = (IF u.bed = {} THEN {} ELSE {"temperature"})
      /\ DOMAIN r[2].fields = {"temperature"} /\ DOMAIN r[3].fields = {"state"} /\ DOMAIN r[4].fields = {"progress"}
  BY DEF MoonrakerReply
<1>2. /\ u.bed # {} => r[1].fields.temperature = OrElse(u.bed, 0)
      /\ r[2].fields.temperature = u.hot
      /\ r[3].fields.state = CASE u.phase = "idle" -> "standby" [] u.phase = "failed" -> "error" [] OTHER -> u.phase
      /\ r[4].fields.progress = u.done
  BY DEF MoonrakerReply
<1>3. u.bed # {} => u.bed = {OrElse(u.bed, 0)}
  BY DEF PrinterUnit, OrElse
<1> HIDE DEF r
<1>4. after("heater_bed") = 1..4 /\ after("extruder") = 2..4 /\ after("print_stats") = 3..4 /\ after("display_status") = 4..4
  BY <1>1
<1>5. /\ with("heater_bed", "temperature") = (IF u.bed = {} THEN {2} ELSE {1, 2})
      /\ with("extruder", "temperature") = {2}
      /\ with("print_stats", "state") = {3}
      /\ with("display_status", "progress") = {4}
  <2> HIDE DEF after
  <2> QED BY <1>1, <1>4
<1>6. Min({1, 2}) = 1 /\ Min({2}) = 2 /\ Min({3}) = 3 /\ Min({4}) = 4
  BY LeastOf
<1> USE DEF Nested
<1>7. Nested(r, "print_stats", "state") = {r[3].fields.state}
  BY <1>5, <1>6
<1>8. Nested(r, "display_status", "progress") = {r[4].fields.progress}
  BY <1>5, <1>6
<1>9. Nested(r, "extruder", "temperature") = {r[2].fields.temperature}
  BY <1>5, <1>6
<1>10. Nested(r, "heater_bed", "temperature") = (IF u.bed = {} THEN {r[2].fields.temperature} ELSE {r[1].fields.temperature})
  BY <1>5, <1>6
<1> QED BY <1>2, <1>3, <1>7, <1>8, <1>9, <1>10 DEF r

--------------------------------------------------------------------------
(* The answers, by client.                                                 *)

\* What Moonraker's client makes of the reply.
LEMMA MoonrakerAnswer ==
  ASSUME NEW u \in PrinterUnit, NEW f
  PROVE  MoonrakerStatus(MoonrakerReply(u), f) =
           [state |-> CASE u.phase = "idle" -> "Idle" [] u.phase = "printing" -> "Printing" [] u.phase = "paused" -> "Paused"
                        [] u.phase = "complete" -> "Completed" [] OTHER -> "Error",
            tool |-> {u.hot}, bed |-> IF u.bed = {} THEN {u.hot} ELSE u.bed, progress |-> {u.done}, firmware |-> f]
<1> DEFINE r == MoonrakerReply(u)
           name == CASE u.phase = "idle" -> "standby" [] u.phase = "failed" -> "error" [] OTHER -> u.phase
<1>1. /\ Nested(r, "print_stats", "state") = {name}
      /\ Nested(r, "display_status", "progress") = {u.done}
      /\ Nested(r, "extruder", "temperature") = {u.hot}
      /\ Nested(r, "heater_bed", "temperature") = IF u.bed = {} THEN {u.hot} ELSE u.bed
  BY MoonrakerFinds
<1> HIDE DEF r
<1>2. OrElse({name}, "unknown") = name /\ OrElse({u.done}, 0) = u.done
  BY DEF OrElse
<1>3. u.phase \in {"idle", "printing", "paused", "complete", "cancelled", "failed"} /\ u.done \in 0..Total
  BY DEF PrinterUnit
<1>4. MoonrakerState(r) = CASE u.phase = "idle" -> "Idle" [] u.phase = "printing" -> "Printing" [] u.phase = "paused" -> "Paused"
                        [] u.phase = "complete" -> "Completed" [] OTHER -> "Error"
  <2>1. MoonrakerState(r) =
          CASE name \in {"standby", "idle"}       -> "Idle"
            [] name = "printing"                  -> "Printing"
            [] name \in {"paused", "pause"}       -> "Paused"
            [] name \in {"complete", "finished"}  -> "Completed"
            [] name \in {"error", "cancelled"}    -> "Error"
            [] OTHER -> IF u.done >= Total THEN "Completed" ELSE IF u.done > 0 THEN "Printing" ELSE "Idle"
    BY <1>1, <1>2 DEF MoonrakerState
  <2>2. CASE u.phase = "idle"
    <3>1. name = "standby" BY <2>2
    <3> QED BY <2>1, <2>2, <3>1
  <2>3. CASE u.phase = "failed"
    <3>1. name = "error" BY <2>3
    <3> QED BY <2>1, <2>3, <3>1
  <2>4. CASE u.phase \in {"printing", "paused", "complete", "cancelled"}
    <3>1. name = u.phase BY <2>4
    <3> QED BY <2>1, <2>4, <3>1
  <2> QED BY <1>3, <2>2, <2>3, <2>4
<1>5. {Bounded(p, 0, Total) : p \in Nested(r, "display_status", "progress")} = {u.done}
  BY <1>1, <1>3, StatusAssumption DEF Bounded
<1> QED BY <1>1, <1>4, <1>5 DEF MoonrakerStatus, r

\* What OctoPrint's client makes of its two replies, if the second came.
LEMMA OctoPrintAnswer ==
  ASSUME NEW u \in PrinterUnit, NEW came \in BOOLEAN, NEW f
  PROVE  OctoPrintStatus(u, came, f) =
           [state |-> CASE u.phase = "printing" -> "Printing" [] u.phase = "paused" -> "Paused" [] u.phase = "failed" -> "Error" [] OTHER -> "Idle",
            tool |-> IF u.phase = "failed" THEN {} ELSE {u.hot}, bed |-> IF u.phase = "failed" THEN {} ELSE u.bed,
            progress |-> IF came /\ u.phase # "idle" THEN {u.done} ELSE {}, firmware |-> f]
<1>1. u.phase \in {"idle", "printing", "paused", "complete", "cancelled", "failed"} /\ u.done \in 0..Total /\ Total \in Nat
  BY StatusAssumption DEF PrinterUnit
<1>2. OctoPrintState(OctoPrintFlags(u)) =
        CASE u.phase = "printing" -> "Printing" [] u.phase = "paused" -> "Paused" [] u.phase = "failed" -> "Error" [] OTHER -> "Idle"
  BY <1>1 DEF OctoPrintState, OctoPrintFlags
<1>3. u.bed # {} => u.bed = {OrElse(u.bed, 0)}
  BY DEF PrinterUnit, OrElse
<1> DEFINE temps == OctoPrintTemps(u)
<1>4. /\ DOMAIN temps = (IF u.phase = "failed" THEN {} ELSE IF u.bed = {} THEN {"tool0"} ELSE {"tool0", "bed"})
      /\ u.phase # "failed" => temps["tool0"] = u.hot
      /\ u.phase # "failed" /\ u.bed # {} => temps["bed"] = OrElse(u.bed, 0)
  <2>1. CASE u.phase = "failed"
    <3>1. temps = <<>>
      BY <2>1 DEF OctoPrintTemps
    <3> HIDE DEF temps
    <3> QED BY <2>1, <3>1
  <2>2. CASE u.phase # "failed" /\ u.bed = {}
    <3>1. temps = [tool0 |-> u.hot]
      BY <2>2 DEF OctoPrintTemps
    <3> HIDE DEF temps
    <3> QED BY <2>2, <3>1
  <2>3. CASE u.phase # "failed" /\ u.bed # {}
    <3>1. temps = [tool0 |-> u.hot, bed |-> OrElse(u.bed, 0)]
      BY <2>3 DEF OctoPrintTemps
    <3> HIDE DEF temps
    <3> QED BY <2>3, <3>1
  <2> QED BY <2>1, <2>2, <2>3
<1> HIDE DEF temps
<1>5. /\ OctoPrintTool(temps) = IF u.phase = "failed" THEN {} ELSE {u.hot}
      /\ OctoPrintBed(temps) = IF u.phase = "failed" THEN {} ELSE u.bed
  BY <1>3, <1>4 DEF OctoPrintTool, OctoPrintBed
<1>6. OctoPrintProgress(OctoPrintJob(u)) = IF u.phase # "idle" THEN {u.done} ELSE {}
  <2>1. (100 * u.done) \div 100 = u.done /\ Bounded(u.done, 0, Total) = u.done
    BY <1>1 DEF Bounded
  <2> QED BY <2>1 DEF OctoPrintProgress, OctoPrintJob
<1> QED BY <1>2, <1>5, <1>6 DEF OctoPrintStatus, temps

\* What ESP3D's client makes of its two replies, if the second came.
LEMMA Esp3dAnswer ==
  ASSUME NEW u \in PrinterUnit, NEW came \in BOOLEAN, NEW f
  PROVE  Esp3dStatus(u, came, f) =
           [state |-> IF came /\ u.phase \in Active THEN (IF u.phase = "paused" /\ u.says THEN "Paused" ELSE "Printing") ELSE "Idle",
            tool |-> {u.hot}, bed |-> u.bed,
            progress |-> IF came /\ u.phase \in Active THEN {u.done} ELSE {}, firmware |-> f]
<1>1. u.phase \in {"idle", "printing", "paused", "complete", "cancelled", "failed"} /\ u.done \in 0..Total /\ Total \in Nat /\ Total > 0
      /\ u.says \in BOOLEAN
  BY StatusAssumption DEF PrinterUnit
<1>2. u.bed # {} => u.bed = {OrElse(u.bed, 0)}
  BY DEF PrinterUnit, OrElse
<1>3. ScanPair(Esp3dTemps(u), "T:") = {u.hot}
  <2>1. {i \in DOMAIN Esp3dTemps(u) : Esp3dTemps(u)[i].key = "T:"} = {1} /\ Esp3dTemps(u)[1].actual = u.hot
    BY DEF Esp3dTemps
  <2>2. Min({1}) = 1
    BY LeastOf
  <2> QED BY <2>1, <2>2 DEF ScanPair
<1>4. ScanPair(Esp3dTemps(u), "B:") = u.bed
  <2>1. CASE u.bed = {}
    <3>1. {i \in DOMAIN Esp3dTemps(u) : Esp3dTemps(u)[i].key = "B:"} = {}
      BY <2>1 DEF Esp3dTemps
    <3> QED BY <2>1, <3>1 DEF ScanPair
  <2>2. CASE u.bed # {}
    <3>1. {i \in DOMAIN Esp3dTemps(u) : Esp3dTemps(u)[i].key = "B:"} = {2} /\ Esp3dTemps(u)[2].actual = OrElse(u.bed, 0)
      BY <2>2 DEF Esp3dTemps
    <3>2. Min({2}) = 2
      BY LeastOf
    <3> QED BY <2>2, <3>1, <3>2, <1>2 DEF ScanPair
  <2> QED BY <2>1, <2>2
<1> DEFINE reply == IF came THEN Esp3dReply(u) ELSE [bytes |-> <<>>, pause |-> FALSE]
<1>5. SdProgress(reply) = IF came /\ u.phase \in Active THEN {u.done} ELSE {}
  <2>1. CASE came /\ u.phase \in Active
    <3>1. reply.bytes = <<u.done, Total>>
      BY <2>1 DEF Esp3dReply
    <3>2. Bounded(u.done, 0, Total) = u.done
      BY <1>1 DEF Bounded
    <3> HIDE DEF reply
    <3> QED BY <1>1, <2>1, <3>1, <3>2 DEF SdProgress
  <2>2. CASE ~(came /\ u.phase \in Active)
    <3>1. reply.bytes = <<>>
      BY <2>2 DEF Esp3dReply
    <3> HIDE DEF reply
    <3> QED BY <2>2, <3>1 DEF SdProgress
  <2> QED BY <2>1, <2>2
<1>6. came => reply.pause = (u.phase = "paused" /\ u.says)
  BY DEF Esp3dReply
<1> HIDE DEF reply
<1>7. Esp3dStatus(u, came, f) =
        [state |-> IF SdProgress(reply) = {} THEN "Idle" ELSE IF reply.pause THEN "Paused" ELSE "Printing",
         tool |-> ScanPair(Esp3dTemps(u), "T:"), bed |-> ScanPair(Esp3dTemps(u), "B:"),
         progress |-> SdProgress(reply), firmware |-> f]
  BY DEF Esp3dStatus, reply
<1> QED BY <1>3, <1>4, <1>5, <1>6, <1>7


\* An answer s that is true of the printer u, by a client of that kind.
TrueOf(s, u, kind) ==
    /\ s.state = Told(u.phase) \/ Mistaken(kind, u, s)
    /\ s.progress \subseteq {u.done}
    /\ s.tool = IF Unreached(kind, u) THEN {} ELSE {u.hot}
    /\ s.bed = IF Unreached(kind, u) THEN {} ELSE IF kind = "moonraker" /\ u.bed = {} THEN {u.hot} ELSE u.bed

\* Every answer is well-formed and true of its printer.
LEMMA AnswersAreTrue ==
  ASSUME NEW u \in PrinterUnit, NEW kind \in Spoken(u.server), NEW came \in BOOLEAN,
         NEW f \in AtMostOne({"ESP3D", "OctoPrint", "Moonraker compat", "Moonraker"}),
         NEW s, s = StatusOf(kind, u, came, f)
  PROVE  s \in Snapshot /\ TrueOf(s, u, kind)
<1>1. /\ u.phase \in {"idle", "printing", "paused", "complete", "cancelled", "failed"} /\ u.done \in 0..Total /\ u.says \in BOOLEAN
      /\ u.hot \in Heat /\ u.bed \in AtMostOne(Heat) /\ u.server \in Server
  BY DEF PrinterUnit
<1>2. CASE kind = "esp3d"
  <2>1. u.server = "esp3d"
    BY <1>1, <1>2 DEF Spoken, Server
  <2>2. s = Esp3dStatus(u, came, f)
    BY <1>2 DEF StatusOf
  <2>5. PICK st, tl, bd, pg :
             /\ st = IF came /\ u.phase \in Active THEN (IF u.phase = "paused" /\ u.says THEN "Paused" ELSE "Printing") ELSE "Idle"
             /\ tl = {u.hot}
             /\ bd = u.bed
             /\ pg = IF came /\ u.phase \in Active THEN {u.done} ELSE {}
    OBVIOUS
  <2>6. s = [state |-> st, tool |-> tl, bed |-> bd, progress |-> pg, firmware |-> f]
    BY <2>2, <2>5, Esp3dAnswer, Zenon
  <2>7. /\ s = [state |-> s.state, tool |-> s.tool, bed |-> s.bed, progress |-> s.progress, firmware |-> s.firmware]
        /\ s.state = st /\ s.tool = tl /\ s.bed = bd /\ s.progress = pg /\ s.firmware = f
    BY ONLY <2>6
  <2>3. /\ s = [state |-> s.state, tool |-> s.tool, bed |-> s.bed, progress |-> s.progress, firmware |-> s.firmware]
        /\ s.state = (IF came /\ u.phase \in Active THEN (IF u.phase = "paused" /\ u.says THEN "Paused" ELSE "Printing") ELSE "Idle")
        /\ s.tool = {u.hot} /\ s.bed = u.bed /\ s.firmware = f
        /\ s.progress = IF came /\ u.phase \in Active THEN {u.done} ELSE {}
    BY <2>5, <2>7, Zenon
  <2>4. s \in Snapshot
    BY <1>1, <2>3 DEF Snapshot, State
  <2>8. s.state = Told(u.phase) \/ Mistaken(kind, u, s)
    BY ONLY <1>1, <1>2, <2>3 DEF Active, Told, Mistaken, OctoPrintApi
  <2>9. ~Unreached(kind, u)
    BY ONLY <1>2 DEF Unreached, OctoPrintApi
  <2>10. /\ s.bed = u.bed /\ kind # "moonraker"
    BY ONLY <1>2, <2>3
  <2>11. s.progress \subseteq {u.done} /\ s.tool = IF Unreached(kind, u) THEN {} ELSE {u.hot}
    BY ONLY <2>3, <2>9
  <2>12. TrueOf(s, u, kind)
    BY ONLY <1>2, <2>8, <2>9, <2>10, <2>11 DEF TrueOf
  <2> QED BY <2>4, <2>12
<1>3. CASE kind = "moonraker"
  <2>1. u.server = "moonraker"
    BY <1>1, <1>3 DEF Spoken, Server
  <2>2. s = MoonrakerStatus(MoonrakerReply(u), f)
    BY <1>3 DEF StatusOf
  <2>5. PICK st, tl, bd, pg :
             /\ st = CASE u.phase = "idle" -> "Idle" [] u.phase = "printing" -> "Printing" [] u.phase = "paused" -> "Paused" [] u.phase = "complete" -> "Completed" [] OTHER -> "Error"
             /\ tl = {u.hot}
             /\ bd = IF u.bed = {} THEN {u.hot} ELSE u.bed
             /\ pg = {u.done}
    OBVIOUS
  <2>6. s = [state |-> st, tool |-> tl, bed |-> bd, progress |-> pg, firmware |-> f]
    BY <2>2, <2>5, MoonrakerAnswer, Zenon
  <2>7. /\ s = [state |-> s.state, tool |-> s.tool, bed |-> s.bed, progress |-> s.progress, firmware |-> s.firmware]
        /\ s.state = st /\ s.tool = tl /\ s.bed = bd /\ s.progress = pg /\ s.firmware = f
    BY ONLY <2>6
  <2>3. /\ s = [state |-> s.state, tool |-> s.tool, bed |-> s.bed, progress |-> s.progress, firmware |-> s.firmware]
        /\ s.state = CASE u.phase = "idle" -> "Idle" [] u.phase = "printing" -> "Printing" [] u.phase = "paused" -> "Paused"
                        [] u.phase = "complete" -> "Completed" [] OTHER -> "Error"
        /\ s.tool = {u.hot} /\ s.bed = (IF u.bed = {} THEN {u.hot} ELSE u.bed) /\ s.firmware = f
        /\ s.progress = {u.done}
    BY <2>5, <2>7, Zenon
  <2>4. s \in Snapshot
    BY <1>1, <2>3 DEF Snapshot, State
  <2>8. s.state = Told(u.phase) \/ Mistaken(kind, u, s)
    BY ONLY <1>1, <1>3, <2>3 DEF Active, Told, Mistaken, OctoPrintApi
  <2>9. ~Unreached(kind, u)
    BY ONLY <1>3 DEF Unreached, OctoPrintApi
  <2>10. /\ s.bed = IF u.bed = {} THEN {u.hot} ELSE u.bed
    BY ONLY <1>3, <2>3
  <2>11. s.progress \subseteq {u.done} /\ s.tool = IF Unreached(kind, u) THEN {} ELSE {u.hot}
    BY ONLY <2>3, <2>9
  <2>12. TrueOf(s, u, kind)
    BY ONLY <1>3, <2>8, <2>9, <2>10, <2>11 DEF TrueOf
  <2> QED BY <2>4, <2>12
<1>4. CASE kind \in {"octoprint", "moonraker-compat"}
  <2>1. u.server \in {"octoprint", "moonraker"}
    BY <1>1, <1>4 DEF Spoken, Server
  <2>2. s = OctoPrintStatus(u, came, f)
    BY <1>4 DEF StatusOf
  <2>5. PICK st, tl, bd, pg :
             /\ st = CASE u.phase = "printing" -> "Printing" [] u.phase = "paused" -> "Paused" [] u.phase = "failed" -> "Error" [] OTHER -> "Idle"
             /\ tl = IF u.phase = "failed" THEN {} ELSE {u.hot}
             /\ bd = IF u.phase = "failed" THEN {} ELSE u.bed
             /\ pg = IF came /\ u.phase # "idle" THEN {u.done} ELSE {}
    OBVIOUS
  <2>6. s = [state |-> st, tool |-> tl, bed |-> bd, progress |-> pg, firmware |-> f]
    BY <2>2, <2>5, OctoPrintAnswer, Zenon
  <2>7. /\ s = [state |-> s.state, tool |-> s.tool, bed |-> s.bed, progress |-> s.progress, firmware |-> s.firmware]
        /\ s.state = st /\ s.tool = tl /\ s.bed = bd /\ s.progress = pg /\ s.firmware = f
    BY ONLY <2>6
  <2>3. /\ s = [state |-> s.state, tool |-> s.tool, bed |-> s.bed, progress |-> s.progress, firmware |-> s.firmware]
        /\ s.state = CASE u.phase = "printing" -> "Printing" [] u.phase = "paused" -> "Paused" [] u.phase = "failed" -> "Error" [] OTHER -> "Idle"
        /\ s.tool = (IF u.phase = "failed" THEN {} ELSE {u.hot}) /\ s.bed = (IF u.phase = "failed" THEN {} ELSE u.bed) /\ s.firmware = f
        /\ s.progress = IF came /\ u.phase # "idle" THEN {u.done} ELSE {}
    BY <2>5, <2>7, Zenon
  <2>4. s \in Snapshot
    BY <1>1, <2>3 DEF Snapshot, State
  <2>8. s.state = Told(u.phase) \/ Mistaken(kind, u, s)
    BY ONLY <1>1, <1>4, <2>3 DEF Active, Told, Mistaken, OctoPrintApi
  <2>9. Unreached(kind, u) <=> u.phase = "failed"
    BY ONLY <1>4 DEF Unreached, OctoPrintApi
  <2>10. /\ s.bed = (IF u.phase = "failed" THEN {} ELSE u.bed) /\ kind # "moonraker"
    BY ONLY <1>4, <2>3
  <2>11. s.progress \subseteq {u.done} /\ s.tool = IF Unreached(kind, u) THEN {} ELSE {u.hot}
    BY ONLY <2>3, <2>9
  <2>12. TrueOf(s, u, kind)
    BY ONLY <1>4, <2>8, <2>9, <2>10, <2>11 DEF TrueOf
  <2> QED BY <2>4, <2>12
<1> QED BY <1>1, <1>2, <1>3, <1>4 DEF Spoken, Server

\* The types follow from the invariant.
LEMMA StatusTyped == StatusInv => StatusTypeOK
<1> SUFFICES ASSUME StatusInv PROVE StatusTypeOK
  OBVIOUS
<1>1. shown \in AtMostOne(Snapshot)
  <2>1. ASSUME NEW s, shown = {s} PROVE s \in Snapshot
    <3>1. PICK c \in client, came \in BOOLEAN, f \in AtMostOne({"ESP3D", "OctoPrint", "Moonraker compat", "Moonraker"}) :
            s = StatusOf(c.kind, unit, came, f)
      BY <2>1 DEF StatusInv, ShownIsAnswer
    <3>2. unit \in PrinterUnit /\ c.kind \in Spoken(unit.server)
      BY DEF StatusInv
    <3> QED BY <3>1, <3>2, AnswersAreTrue
  <2> QED BY <2>1 DEF StatusInv
<1> QED BY <1>1 DEF StatusInv, StatusTypeOK

\* No printer is watched at first.
LEMMA StatusInitially == StatusInit => StatusInv
<1> SUFFICES ASSUME StatusInit PROVE StatusInv
  OBVIOUS
<1>1. unit \in PrinterUnit /\ unit.phase = "idle"
  BY StatusAssumption DEF StatusInit, PrinterUnit
<1> QED BY <1>1 DEF StatusInit, StatusInv, ShownIsAnswer, Active

\* The invariant is kept by whatever the printer does, for as long as it speaks
\* the protocol it spoke.
LEMMA PrinterChanges ==
  ASSUME StatusInv, NEW u \in PrinterUnit, Becomes(u), u.server = unit.server, u.phase \in Active => u.done < Total,
         log' = log \/ log' = <<>>
  PROVE  StatusInv'
<1>1. log' \in Seq(Reading)
  <2>1. <<>> \in Seq(Reading)
    OBVIOUS
  <2> QED BY <2>1 DEF StatusInv
<1> QED BY <1>1 DEF StatusInv, ShownIsAnswer, Becomes

\* What is shown stays an answer if nothing that it tells of changes.
LEMMA AnswerStays ==
  ASSUME ShownIsAnswer, UNCHANGED <<unit, client, shown>>
  PROVE  ShownIsAnswer'
<1>1. unit' = unit /\ client' = client /\ shown' = shown
  OBVIOUS
<1> QED BY <1>1, ZenonT(40) DEF ShownIsAnswer

\* Every call and everything the printer does keeps the invariant.
LEMMA StatusStep == StatusInv /\ [StatusNext]_statusVars => StatusInv'
<1> SUFFICES ASSUME StatusInv, [StatusNext]_statusVars PROVE StatusInv'
  OBVIOUS
<1>1. /\ unit \in PrinterUnit /\ unit.done \in 0..Total /\ Total \in Nat \ {0}
      /\ unit.phase \in Active => unit.done < Total
  BY StatusAssumption DEF StatusInv, PrinterUnit
<1>2. CASE Starts
  <2> DEFINE u == [unit EXCEPT !.phase = "printing", !.done = 0]
  <2>1. 0 \in 0..Total /\ 0 < Total
    BY <1>1
  <2>2. u \in PrinterUnit /\ u.server = unit.server /\ u.done = 0
    BY <1>1, <2>1 DEF PrinterUnit
  <2> HIDE DEF u
  <2>3. Becomes(u) /\ log' = <<>>
    BY <1>2 DEF Starts, u
  <2> QED BY <2>1, <2>2, <2>3, PrinterChanges
<1>3. CASE Advances
  <2> DEFINE u == [unit EXCEPT !.done = unit.done + 1, !.phase = IF unit.done + 1 = Total THEN "complete" ELSE "printing"]
  <2>1. unit.done + 1 \in 0..Total
    BY <1>1, <1>3 DEF Advances, Active
  <2>2. u \in PrinterUnit /\ u.server = unit.server /\ u.done = unit.done + 1 /\ u.phase = IF unit.done + 1 = Total THEN "complete" ELSE "printing"
    BY <1>1, <2>1 DEF PrinterUnit
  <2>3. u.phase \in Active => u.done < Total
    BY <1>1, <2>1, <2>2 DEF Active
  <2> HIDE DEF u
  <2>4. Becomes(u) /\ log' = log
    BY <1>3 DEF Advances, u
  <2> QED BY <2>2, <2>3, <2>4, PrinterChanges
<1>4. CASE Fails
  <2>1. [unit EXCEPT !.phase = "failed"] \in PrinterUnit
    BY <1>1 DEF PrinterUnit
  <2> QED BY <1>1, <1>4, <2>1, PrinterChanges DEF Fails, PrinterUnit, Active
<1>5. ASSUME NEW t \in Heat, Heats(t) PROVE StatusInv'
  <2>1. [unit EXCEPT !.hot = t] \in PrinterUnit
    BY <1>1 DEF PrinterUnit
  <2> QED BY <1>1, <1>5, <2>1, PrinterChanges DEF Heats, PrinterUnit, Active
<1>6. CASE MakeClient
  <2>1. PICK c \in Spoken(unit.server) : client' = {NewClient(c)}
    <3>1. CASE Discover
      <4>1. PICK failing \in SUBSET ServiceTypes : \E found \in Scan({[name |-> "printer", type |-> unit.server]}, failing).printers :
                client' = {NewClient(ToTarget(found).protocol)}
        BY <3>1 DEF Discover
      <4>2. Scan({[name |-> "printer", type |-> unit.server]}, failing).printers \subseteq {[name |-> "printer", type |-> unit.server]}
        BY DEF Scan
      <4>3. client' = {NewClient(ToTarget([name |-> "printer", type |-> unit.server]).protocol)}
        BY <4>1, <4>2
      <4>4. ToTarget([name |-> "printer", type |-> unit.server]).protocol = unit.server
        BY DEF ToTarget
      <4> QED BY <4>3, <4>4 DEF Spoken
    <3>2. CASE Configure
      BY <3>2 DEF Configure
    <3> QED BY <1>6, <3>1, <3>2 DEF MakeClient
  <2>2. c \in Protocol
    BY <1>1 DEF Spoken, Protocol, PrinterUnit, Server
  <2>3. NewClient(c) \in Client /\ NewClient(c).kind = c
    BY <2>2 DEF NewClient, Client, Protocol
  <2>4. shown = {} /\ UNCHANGED <<unit, shown, log>>
    BY <1>6 DEF MakeClient, StatusInv, ShownIsAnswer
  <2> QED BY <2>1, <2>3, <2>4 DEF StatusInv, ShownIsAnswer
<1>7. CASE TestConnection
  <2>1. PICK c \in client : client' = {[c EXCEPT !.connected = TRUE, !.firmware = {FirmwareOf(c.kind)}]}
    BY <1>7 DEF TestConnection
  <2>2. c \in Client /\ client = {c} /\ c.kind \in Protocol
    BY DEF StatusInv, Client
  <2> DEFINE d == [c EXCEPT !.connected = TRUE, !.firmware = {FirmwareOf(c.kind)}]
  <2>3. FirmwareOf(c.kind) \in {"ESP3D", "OctoPrint", "Moonraker compat", "Moonraker"}
    BY <2>2 DEF FirmwareOf, Protocol
  <2>4. d \in Client /\ d.kind = c.kind
    BY <2>2, <2>3 DEF Client
  <2>5. UNCHANGED <<unit, shown, log>> /\ client' = {d}
    BY <1>7, <2>1 DEF TestConnection
  <2> HIDE DEF d
  <2>6. ShownIsAnswer'
    <3>1. ASSUME NEW s \in shown, NEW e \in client, NEW came \in BOOLEAN, NEW f, s = StatusOf(e.kind, unit, came, f)
          PROVE  s = StatusOf(d.kind, unit', came, f)
      <4>1. e = c /\ unit' = unit
        BY <2>2, <2>5
      <4> QED BY <3>1, <4>1, <2>4, Zenon
    <3>2. ShownIsAnswer /\ shown' = shown
      BY <2>5 DEF StatusInv
    <3>3. ASSUME NEW s \in shown
          PROVE  \E b \in {d}, came \in BOOLEAN, f \in AtMostOne({"ESP3D", "OctoPrint", "Moonraker compat", "Moonraker"}) :
                    s = StatusOf(b.kind, unit', came, f)
      <4>1. PICK e \in client, came \in BOOLEAN, f \in AtMostOne({"ESP3D", "OctoPrint", "Moonraker compat", "Moonraker"}) :
                s = StatusOf(e.kind, unit, came, f)
        BY <3>2, Zenon DEF ShownIsAnswer
      <4>2. s = StatusOf(d.kind, unit', came, f)
        BY <3>1, <4>1, ZenonT(30)
      <4> QED BY <4>2, Zenon
    <3> HIDE DEF AtMostOne
    <3> QED BY <2>5, <3>2, <3>3, Zenon DEF ShownIsAnswer
  <2> QED BY <2>2, <2>4, <2>5, <2>6 DEF StatusInv
<1>8. CASE Poll
  <2>1. PICK c \in client, came \in BOOLEAN : shown' = {StatusOf(c.kind, unit, came, c.firmware)}
    BY <1>8 DEF Poll
  <2>2. c.firmware \in AtMostOne({"ESP3D", "OctoPrint", "Moonraker compat", "Moonraker"})
    BY DEF StatusInv, Client
  <2>3. UNCHANGED <<unit, client, log>>
    BY <1>8 DEF Poll
  <2>4. ShownIsAnswer'
    BY <2>1, <2>2, <2>3 DEF ShownIsAnswer
  <2> QED BY <2>1, <2>3, <2>4 DEF StatusInv
<1>9. ASSUME NEW from \in SUBSET Active, NEW to \in {"paused", "printing", "cancelled"}, Control(from, to) PROVE StatusInv'
  <2>1. [unit EXCEPT !.phase = to] \in PrinterUnit
    BY <1>1, <1>9 DEF PrinterUnit
  <2>2. unit.done < Total
    BY <1>1, <1>9 DEF Control
  <2> QED BY <1>1, <1>9, <2>1, <2>2, PrinterChanges DEF Control, PrinterUnit
<1>10. CASE Observe
  <2>1. PICK s \in shown : log' = Append(log, Observation(s, unit.done))
    BY <1>10 DEF Observe
  <2>2. s \in Snapshot
    BY StatusTyped DEF StatusTypeOK
  <2>3. OrElse(s.progress, 0) \in 0..Total
    <3>1. s.progress = {} \/ \E x \in 0..Total : s.progress = {x}
      BY <2>2 DEF Snapshot
    <3> QED BY <1>1, <3>1 DEF OrElse
  <2>4. Observation(s, unit.done) \in Reading
    BY <1>1, <2>2, <2>3 DEF Observation, Snapshot, Reading
  <2>5. log' \in Seq(Reading)
    BY <2>1, <2>4 DEF StatusInv
  <2>6. UNCHANGED <<unit, client, shown>>
    BY <1>10 DEF Observe
  <2> QED BY <2>5, <2>6, AnswerStays DEF StatusInv
<1>11. CASE UNCHANGED statusVars
  BY <1>11, AnswerStays DEF statusVars, StatusInv
<1>12. CASE Pause \/ Resume \/ Cancel
  BY <1>9, <1>12 DEF Pause, Resume, Cancel, Active
<1> QED BY <1>2, <1>3, <1>4, <1>5, <1>6, <1>7, <1>8, <1>10, <1>11, <1>12 DEF StatusNext, PrinterMoves

\* What is shown is the printer's phase or one of the mistakes about it, and a
\* reading is of its own heater but for the bed that is missing.
LEMMA StatusesHold == StatusInv => StateIsTrue /\ ReadingsAreOwn
<1> SUFFICES ASSUME StatusInv, NEW s \in shown, NEW d \in client PROVE TrueOf(s, unit, d.kind)
  BY Zenon DEF StateIsTrue, ReadingsAreOwn, TrueOf
<1>1. PICK c \in client, came \in BOOLEAN, f \in AtMostOne({"ESP3D", "OctoPrint", "Moonraker compat", "Moonraker"}) :
        s = StatusOf(c.kind, unit, came, f)
  BY DEF StatusInv, ShownIsAnswer
<1>2. unit \in PrinterUnit /\ c.kind \in Spoken(unit.server) /\ client = {c}
  BY DEF StatusInv
<1>3. PICK kind \in Spoken(unit.server) : kind = c.kind
  BY <1>2
<1>4. s = StatusOf(kind, unit, came, f)
  BY <1>1, <1>3
<1>5. d.kind = kind
  BY <1>2, <1>3
<1>6. unit \in PrinterUnit /\ kind \in Spoken(unit.server) /\ came \in BOOLEAN
  BY <1>2
<1>7. TrueOf(s, unit, kind)
  BY <1>4, <1>6, AnswersAreTrue, Zenon
<1> QED BY ONLY <1>5, <1>7

\* A set made of one number at most for each place is finite.
LEMMA UnionOfSingles ==
  ASSUME NEW n \in Nat, NEW F, \A i \in 1..n : F[i] = {} \/ \E x \in Int : F[i] = {x}
  PROVE  IsFiniteSet(UNION {F[i] : i \in 1..n}) /\ UNION {F[i] : i \in 1..n} \subseteq Int
<1> DEFINE D == {i \in 1..n : F[i] # {}}
           U == UNION {F[i] : i \in 1..n}
           h == [i \in D |-> CHOOSE x : x \in F[i]]
<1>1. IsFiniteSet(D)
  <2>1. D \in SUBSET (1..n) /\ IsFiniteSet(1..n)
    BY FS_Interval
  <2> HIDE DEF D
  <2> QED BY <2>1, FS_Subset
<1>2. U \subseteq Int
  OBVIOUS
<1>3. \A i \in D : F[i] = {h[i]}
  OBVIOUS
<1>4. h \in Surjection(D, U)
  <2>1. h \in [D -> U]
    BY <1>3
  <2>2. \A x \in U : \E i \in D : x = h[i]
    BY <1>3
  <2> HIDE DEF h, D, U
  <2> QED BY <2>1, <2>2 DEF Surjection
<1>5. IsFiniteSet(U)
  <2> HIDE DEF h, D, U
  <2> QED BY <1>1, <1>4, FS_Surjection
<1> QED BY <1>2, <1>5

\* The readings of a printer, and how far they are from the ambient temperature,
\* are finite sets of numbers.
LEMMA SmallSets ==
  ASSUME NEW a \in AtMostOne(Heat), NEW b \in AtMostOne(Heat)
  PROVE  /\ IsFiniteSet(a \cup b) /\ a \cup b \subseteq Nat
         /\ IsFiniteSet({Difference(t, Ambient) : t \in a \cup b}) /\ {Difference(t, Ambient) : t \in a \cup b} \subseteq Nat
<1>0. Heat \subseteq Nat /\ Ambient \in Nat
  BY StatusAssumption
<1>1. IsFiniteSet(a) /\ IsFiniteSet(b)
  BY FS_EmptySet, FS_Singleton
<1>2. IsFiniteSet(a \cup b)
  BY <1>1, FS_Union
<1> DEFINE A == {Difference(t, Ambient) : t \in a}
           B == {Difference(t, Ambient) : t \in b}
<1>3. IsFiniteSet(A) /\ IsFiniteSet(B)
  <2>1. (A = {} \/ \E x : A = {x}) /\ (B = {} \/ \E x : B = {x})
    OBVIOUS
  <2>2. \A x : IsFiniteSet({x})
    BY FS_Singleton
  <2>3. IsFiniteSet({})
    BY FS_EmptySet
  <2> HIDE DEF A, B
  <2> QED BY <2>1, <2>2, <2>3
<1>4. {Difference(t, Ambient) : t \in a \cup b} = A \cup B
  OBVIOUS
<1>5. IsFiniteSet(A \cup B)
  <2> HIDE DEF A, B
  <2> QED BY <1>3, FS_Union
<1>6. a \cup b \subseteq Nat
  BY <1>0
<1>7. \A t \in a \cup b : Difference(t, Ambient) \in Nat
  <2>1. \A t \in Nat : Difference(t, Ambient) \in Nat
    BY <1>0 DEF Difference
  <2> QED BY <1>6, <2>1
<1> QED BY <1>2, <1>4, <1>5, <1>6, <1>7

\* The greatest of a set of numbers, if there is one.
LEMMA GreatestIs ==
  ASSUME NEW S, IsFiniteSet(S), S \subseteq Nat
  PROVE  \/ S = {} /\ Greatest(S) = {}
         \/ \E m \in S : Greatest(S) = {m} /\ \A y \in S : y <= m
<1>1. CASE S = {}
  BY <1>1 DEF Greatest
<1>2. CASE S # {}
  <2>1. S \subseteq Int
    OBVIOUS
  <2>2. Max(S) \in S /\ \A y \in S : y <= Max(S)
    BY <1>2, <2>1, GreatestOf
  <2> QED BY <1>2, <2>2 DEF Greatest
<1> QED BY <1>1, <1>2

Weight(o) == IF o.z > 1 THEN o.z ELSE 1

\* The displacement of a reading is that of its hottest part.
LEMMA DisplacementIs ==
  ASSUME NEW o \in Reading
  PROVE  \/ o.tool \cup o.bed = {} /\ Displacement(o) = {}
         \/ \E t \in o.tool \cup o.bed :
               /\ Displacement(o) = {Weight(o) * Difference(t, Ambient)}
               /\ Weight(o) * Difference(t, Ambient) \in Nat
               /\ \A s \in o.tool \cup o.bed : Weight(o) * Difference(s, Ambient) <= Weight(o) * Difference(t, Ambient)
<1>1. o.tool \in AtMostOne(Heat) /\ o.bed \in AtMostOne(Heat) /\ Weight(o) \in Nat
  <2>1. o.z \in 0..Total /\ o.tool \in AtMostOne(Heat) /\ o.bed \in AtMostOne(Heat)
    BY DEF Reading
  <2> QED BY <2>1, StatusAssumption DEF Weight
<1>2. IsFiniteSet(Warming(o)) /\ Warming(o) \subseteq Nat
  BY <1>1, SmallSets DEF Warming
<1>3. Displacement(o) = {Weight(o) * d : d \in Greatest(Warming(o))}
  BY DEF Displacement, Weight
<1>4. CASE Warming(o) = {}
  <2>1. Greatest(Warming(o)) = {}
    BY <1>4 DEF Greatest
  <2>2. o.tool \cup o.bed = {}
    BY <1>4 DEF Warming
  <2> QED BY <1>3, <2>1, <2>2
<1>5. ASSUME NEW m \in Warming(o), Greatest(Warming(o)) = {m}, \A y \in Warming(o) : y <= m
      PROVE  \E t \in o.tool \cup o.bed :
               /\ Displacement(o) = {Weight(o) * Difference(t, Ambient)}
               /\ Weight(o) * Difference(t, Ambient) \in Nat
               /\ \A s \in o.tool \cup o.bed : Weight(o) * Difference(s, Ambient) <= Weight(o) * Difference(t, Ambient)
  <2>1. PICK t \in o.tool \cup o.bed : m = Difference(t, Ambient)
    BY DEF Warming
  <2>2. Displacement(o) = {Weight(o) * m}
    BY <1>3, <1>5
  <2>3. m \in Nat
    BY <1>2
  <2>4. \A w \in Nat, x \in Nat, y \in Nat : x <= y => w * x <= w * y /\ w * y \in Nat
    OBVIOUS
  <2>5. ASSUME NEW s \in o.tool \cup o.bed PROVE Weight(o) * Difference(s, Ambient) <= Weight(o) * m
    <3>1. Difference(s, Ambient) \in Warming(o)
      BY DEF Warming
    <3>2. Difference(s, Ambient) \in Nat /\ Difference(s, Ambient) <= m
      BY <1>2, <1>5, <3>1
    <3> QED BY <1>1, <2>3, <2>4, <3>2
  <2>6. Weight(o) * m \in Nat
    BY <1>1, <2>3, <2>4
  <2> QED BY <2>1, <2>2, <2>5, <2>6
<1>6. Warming(o) = {} \/ \E m \in Warming(o) : Greatest(Warming(o)) = {m} /\ \A y \in Warming(o) : y <= m
  BY <1>2, GreatestIs
<1> QED BY <1>4, <1>5, <1>6

\* What a report notices.
LEMMA WarpNoticed == StatusInv => WarpIsNoticed
<1> SUFFICES ASSUME StatusInv PROVE WarpIsNoticed
  OBVIOUS
<1>0. Limit \in Nat /\ Ambient \in Nat /\ Total \in Nat
  BY StatusAssumption
<1>1. PICK n \in Nat : log \in [1..n -> Reading] /\ Len(log) = n /\ DOMAIN log = 1..n
  BY DEF StatusInv
<1> DEFINE F == [i \in 1..n |-> Displacement(log[i])]
           U == UNION {F[i] : i \in 1..n}
           global == Max({0} \cup U)
<1>2. IsFiniteSet({0} \cup U) /\ {0} \cup U \subseteq Int
  <2>1. \A i \in 1..n : F[i] = {} \/ \E x \in Int : F[i] = {x}
    BY <1>1, DisplacementIs
  <2>2. IsFiniteSet(U) /\ U \subseteq Int
    <3> HIDE DEF F
    <3> QED BY <2>1, UnionOfSingles
  <2>3. IsFiniteSet({0})
    BY FS_Singleton
  <2> HIDE DEF U
  <2>4. IsFiniteSet({0} \cup U)
    BY <2>2, <2>3, FS_Union
  <2> QED BY <2>2, <2>4
<1>3. global \in {0} \cup U /\ \A y \in {0} \cup U : y <= global
  <2> HIDE DEF U
  <2> QED BY <1>2, GreatestOf
<1>4. DeviationReport(log).exceeds = (global > Limit)
  <2>1. U = UNION {Displacement(log[i]) : i \in DOMAIN log}
    BY <1>1
  <2> HIDE DEF U
  <2> QED BY <2>1 DEF DeviationReport
<1>5. ASSUME NEW i \in DOMAIN log
      PROVE  (IF log[i].z = 0 THEN 1 ELSE log[i].z) = Weight(log[i]) /\ log[i] \in Reading
  <2>1. log[i] \in Reading /\ log[i].z \in 0..Total
    BY <1>1 DEF Reading
  <2> QED BY <1>0, <2>1 DEF Weight
<1>6. ASSUME global > Limit
      PROVE  \E i \in DOMAIN log : \E t \in log[i].tool \cup log[i].bed :
                Limit < Difference(t, Ambient) * (IF log[i].z = 0 THEN 1 ELSE log[i].z)
  <2>1. global \in U
    <3>1. global # 0
      <4> HIDE DEF global
      <4> QED BY <1>0, <1>6
    <3> HIDE DEF U
    <3> QED BY <1>3, <3>1
  <2>2. PICK i \in DOMAIN log : global \in Displacement(log[i])
    BY <1>1, <2>1
  <2>3. log[i] \in Reading
    BY <1>5
  <2>4. PICK t \in log[i].tool \cup log[i].bed : global = Weight(log[i]) * Difference(t, Ambient)
    BY <2>2, <2>3, DisplacementIs
  <2>5. Weight(log[i]) \in Nat /\ Difference(t, Ambient) \in Nat
    <3>1. log[i].z \in 0..Total /\ t \in Nat
      BY <2>3, <1>0, StatusAssumption DEF Reading
    <3> QED BY <1>0, <3>1 DEF Weight, Difference
  <2>6. \A w, d \in Nat : w * d = d * w
    OBVIOUS
  <2>7. Limit < Difference(t, Ambient) * Weight(log[i])
    BY <1>6, <2>4, <2>5, <2>6
  <2> QED BY <1>5, <2>7
<1>7. ASSUME NEW i \in DOMAIN log, NEW s \in log[i].tool \cup log[i].bed,
             Limit < Difference(s, Ambient) * (IF log[i].z = 0 THEN 1 ELSE log[i].z)
      PROVE  global > Limit
  <2>1. log[i] \in Reading
    BY <1>5
  <2>2. PICK t \in log[i].tool \cup log[i].bed :
               /\ Displacement(log[i]) = {Weight(log[i]) * Difference(t, Ambient)}
               /\ Weight(log[i]) * Difference(t, Ambient) \in Nat
               /\ Weight(log[i]) * Difference(s, Ambient) <= Weight(log[i]) * Difference(t, Ambient)
    BY <2>1, DisplacementIs
  <2>3. Weight(log[i]) * Difference(t, Ambient) \in U
    BY <1>1, <2>2
  <2>4. Weight(log[i]) \in Nat /\ Difference(s, Ambient) \in Nat
    <3>1. log[i].z \in 0..Total /\ s \in Nat
      BY <2>1, <1>0, StatusAssumption DEF Reading
    <3> QED BY <1>0, <3>1 DEF Weight, Difference
  <2>5. \A w, d \in Nat : w * d = d * w /\ w * d \in Nat
    OBVIOUS
  <2>6. Limit < Weight(log[i]) * Difference(s, Ambient) /\ Weight(log[i]) * Difference(s, Ambient) \in Nat
    BY <1>5, <1>7, <2>4, <2>5
  <2>7. Weight(log[i]) * Difference(t, Ambient) <= global /\ global \in Int
    BY <1>2, <1>3, <2>3
  <2> HIDE DEF global
  <2> QED BY <1>0, <2>2, <2>6, <2>7
<1>8. ASSUME NEW z \in 0..Total, NEW f \in TemperatureField(log, z)
      PROVE  f[2] > 0 /\ f[1] \in 0..f[2]
  <2> DEFINE last == log[Len(log)]
             G == [i \in 1..n |-> Greatest(log[i].tool \cup log[i].bed)]
             temps == UNION {G[i] : i \in 1..n}
             hottest == Max({0, Ambient + 1} \cup temps)
             current == Greatest(last.tool \cup last.bed)
             scale == (hottest - Ambient) * last.z
  <2>1. CASE log = <<>> \/ last.z = 0
    <3>1. TemperatureField(log, z) = {<<0, 1>>}
      BY <2>1 DEF TemperatureField
    <3> QED BY <3>1
  <2>2. CASE ~(log = <<>> \/ last.z = 0)
    <3>1. n > 0 /\ last \in Reading
      BY <1>1, <2>2
    <3>2. last.z \in Nat /\ last.z > 0 /\ last.tool \in AtMostOne(Heat) /\ last.bed \in AtMostOne(Heat)
      <4>1. last.z \in 0..Total /\ last.z # 0 /\ last.tool \in AtMostOne(Heat) /\ last.bed \in AtMostOne(Heat)
        BY <2>2, <3>1 DEF Reading
      <4> QED BY <1>0, <4>1
    <3>3. \A i \in 1..n : G[i] = {} \/ \E x \in Int : G[i] = {x}
      <4>1. ASSUME NEW i \in 1..n PROVE G[i] = {} \/ \E x \in Int : G[i] = {x}
        <5>1. log[i].tool \in AtMostOne(Heat) /\ log[i].bed \in AtMostOne(Heat)
          BY <1>1 DEF Reading
        <5>2. IsFiniteSet(log[i].tool \cup log[i].bed) /\ log[i].tool \cup log[i].bed \subseteq Nat
          BY <5>1, SmallSets
        <5> QED BY <5>2, GreatestIs, SMTT(30)
      <4> QED BY <4>1
    <3>4. IsFiniteSet(temps) /\ temps \subseteq Int
      <4> HIDE DEF G
      <4> QED BY <3>3, UnionOfSingles
    <3>5. hottest \in Int /\ Ambient + 1 <= hottest
      <4>1. IsFiniteSet({0} \cup {Ambient + 1})
        BY FS_Singleton, FS_Union
      <4>2. IsFiniteSet({0, Ambient + 1}) /\ {0, Ambient + 1} = {0} \cup {Ambient + 1}
        <5>1. {0, Ambient + 1} = {0} \cup {Ambient + 1}
          OBVIOUS
        <5> QED BY <4>1, <5>1
      <4>3. IsFiniteSet({0, Ambient + 1} \cup temps) /\ {0, Ambient + 1} \cup temps \subseteq Int
        <5> HIDE DEF temps
        <5>1. IsFiniteSet({0, Ambient + 1} \cup temps)
          BY <3>4, <4>2, FS_Union
        <5> QED BY <1>0, <3>4, <5>1
      <4> HIDE DEF temps
      <4>4. Max({0, Ambient + 1} \cup temps) \in Int /\ \A y \in {0, Ambient + 1} \cup temps : y <= Max({0, Ambient + 1} \cup temps)
        BY <4>3, GreatestOf
      <4> QED BY <4>4
    <3>6. scale \in Int /\ scale > 0
      <4>1. \A a, b \in Int : a > 0 /\ b > 0 => a * b \in Int /\ a * b > 0
        OBVIOUS
      <4> HIDE DEF hottest, last
      <4>2. hottest - Ambient \in Int /\ hottest - Ambient > 0
        BY <1>0, <3>5
      <4> QED BY <3>2, <4>1, <4>2
    <3>7. TemperatureField(log, z) = {<<Bounded((t - Ambient) * Bounded(z, 0, last.z), 0, scale), scale>> : t \in current}
      <4>1. temps = UNION {Greatest(log[i].tool \cup log[i].bed) : i \in DOMAIN log}
        BY <1>1
      <4> HIDE DEF temps
      <4> QED BY <2>2, <4>1, Zenon DEF TemperatureField
    <3>8. PICK t \in current : f = <<Bounded((t - Ambient) * Bounded(z, 0, last.z), 0, scale), scale>>
      BY <3>7
    <3>9. t \in Nat
      <4>1. IsFiniteSet(last.tool \cup last.bed) /\ last.tool \cup last.bed \subseteq Nat
        <5> HIDE DEF last
        <5> QED BY <3>2, SmallSets
      <4> HIDE DEF last
      <4> QED BY <4>1, GreatestIs
    <3>10. PICK q : q = (t - Ambient) * Bounded(z, 0, last.z)
      OBVIOUS
    <3>11. q \in Int
      <4>1. Bounded(z, 0, last.z) \in Int
        <5> HIDE DEF last
        <5> QED BY <1>0, <3>2 DEF Bounded
      <4> HIDE DEF last
      <4> QED BY <1>0, <3>9, <3>10, <4>1
    <3>12. f[1] = Bounded(q, 0, scale) /\ f[2] = scale
      <4> HIDE DEF scale, last
      <4> QED BY <3>8, <3>10
    <3> HIDE DEF scale
    <3>13. Bounded(q, 0, scale) \in 0..scale
      BY <3>6, <3>11 DEF Bounded
    <3> QED BY <3>6, <3>12, <3>13
  <2> QED BY <2>1, <2>2
<1> HIDE DEF global
<1> QED BY <1>4, <1>6, <1>7, <1>8 DEF WarpIsNoticed

\* A correction goes against the deviation that it corrects, within its bounds.
LEMMA CorrectionsDoHelp == StatusInv => CorrectionsHelp
<1> SUFFICES ASSUME StatusInv, NEW s \in shown, NEW t \in s.tool, NEW w \in Widths
             PROVE  LET c == Correction(w, t) IN
                    /\ c.flow \in 500..1500 /\ c.offset \in -100..100
                    /\ (c.flow - 1000) * (w - Nominal) <= 0 /\ c.offset * (t - Setpoint) <= 0
                    /\ c.flow = 1000 <=> w = Nominal
  BY Zenon DEF CorrectionsHelp
<1>1. s \in Snapshot
  BY StatusTyped DEF StatusTypeOK
<1>2. w \in Nat /\ t \in Nat /\ Nominal \in Nat /\ Setpoint \in Nat
  BY <1>1, StatusAssumption DEF Snapshot
<1>10. PICK u, v \in Int : u = 1000 - 5 * (w - Nominal) /\ v = Setpoint - t
  BY ONLY <1>2
<1>11. u \in Int /\ v \in Int
  OBVIOUS
<1>3. PICK flow, offset \in Int : /\ flow = IF u < 500 THEN 500 ELSE IF u > 1500 THEN 1500 ELSE u
                                 /\ offset = IF v < -100 THEN -100 ELSE IF v > 100 THEN 100 ELSE v
  BY ONLY <1>11
<1>12. flow \in Int /\ offset \in Int
  OBVIOUS
<1>4. /\ flow \in 500..1500 /\ offset \in -100..100 /\ (flow = 1000 <=> w = Nominal)
      /\ (w >= Nominal => flow <= 1000) /\ (w <= Nominal => flow >= 1000)
      /\ (t >= Setpoint => offset <= 0) /\ (t <= Setpoint => offset >= 0)
  <2>1. /\ flow \in 500..1500 /\ (flow = 1000 <=> u = 1000)
        /\ (u >= 1000 => flow >= 1000) /\ (u <= 1000 => flow <= 1000)
    BY ONLY <1>3, <1>11, <1>12
  <2>2. offset \in -100..100 /\ (v >= 0 => offset >= 0) /\ (v <= 0 => offset <= 0)
    BY ONLY <1>3, <1>11, <1>12
  <2>3. /\ u = 1000 <=> w = Nominal
        /\ (u >= 1000 <=> w <= Nominal) /\ (u <= 1000 <=> w >= Nominal)
        /\ (v >= 0 <=> t <= Setpoint) /\ (v <= 0 <=> t >= Setpoint)
    BY ONLY <1>2, <1>10
  <2> QED BY ONLY <2>1, <2>2, <2>3
<1>5. \A a, b \in Int : (a >= 0 => b <= 0) /\ (a <= 0 => b >= 0) => b * a <= 0
  OBVIOUS
<1>6. (flow - 1000) * (w - Nominal) <= 0 /\ offset * (t - Setpoint) <= 0
  <2>1. /\ (flow - 1000) \in Int /\ (w - Nominal) \in Int
        /\ (w - Nominal >= 0 => flow - 1000 <= 0) /\ (w - Nominal <= 0 => flow - 1000 >= 0)
    BY <1>2, <1>3, <1>4
  <2>2. /\ (t - Setpoint) \in Int /\ (t - Setpoint >= 0 => offset <= 0) /\ (t - Setpoint <= 0 => offset >= 0)
    BY <1>2, <1>3, <1>4
  <2> QED BY <1>3, <1>5, <2>1, <2>2
<1>7. Correction(w, t) = [flow |-> flow, offset |-> offset]
  BY <1>3, <1>10 DEF Correction, Bounded
<1> QED BY <1>4, <1>6, <1>7

\* What is shown of a printer is its phase, its progress and its heaters', in each
\* of the protocols and whichever of its answers is lost, but for the five mistakes
\* about the phase that Mistaken lists (a lost M27 shown as idle and a cancelled
\* print shown as failed among them) and the nozzle's reading that native Moonraker
\* shows for a bed that is missing; reports and corrections follow the readings: for
\* any temperatures, widths and prints (client.rs and the three clients,
\* telemetry.rs, feedback.rs).
THEOREM PrintersWatched == StatusSpec => []PrintersAreWatched
<1>1. StatusInit => StatusInv
  BY StatusInitially
<1>2. StatusInv /\ [StatusNext]_statusVars => StatusInv'
  BY StatusStep
<1>3. StatusInv => PrintersAreWatched
  BY StatusTyped, StatusesHold, WarpNoticed, CorrectionsDoHelp DEF PrintersAreWatched
<1> QED BY <1>1, <1>2, <1>3, PTL DEF StatusSpec

--------------------------------------------------------------------------
(* The scene on the screen (scene.rs, renderer.rs, culling.rs).             *)

\* A point of space has three coordinates.
LEMMA PointIs ==
  ASSUME NEW a \in Point3
  PROVE  a = <<a[1], a[2], a[3]>> /\ a[1] \in Int /\ a[2] \in Int /\ a[3] \in Int /\ Len(a) = 3
<1>1. PICK x, y, z \in Int : a = <<x, y, z>>
  BY DEF Point3
<1> QED BY <1>1

\* Three coordinates are a point.
LEMMA TripleIsPoint == \A x, y, z \in Int : <<x, y, z>> \in Point3
BY DEF Point3

\* What the operators on vectors do in space, coordinate by coordinate.
LEMMA PointSums ==
  ASSUME NEW a \in Point3, NEW b \in Point3
  PROVE  /\ Plus(a, b) = <<a[1] + b[1], a[2] + b[2], a[3] + b[3]>> /\ Plus(a, b) \in Point3
         /\ Minus(a, b) = <<a[1] - b[1], a[2] - b[2], a[3] - b[3]>> /\ Minus(a, b) \in Point3
         /\ Dot(a, b) = a[1] * b[1] + a[2] * b[2] + a[3] * b[3]
<1>1. /\ Len(a) = 3 /\ a[1] \in Int /\ a[2] \in Int /\ a[3] \in Int
      /\ b[1] \in Int /\ b[2] \in Int /\ b[3] \in Int
  BY PointIs
<1>2. Len(a) # 2
  BY <1>1
<1>3. /\ Plus(a, b) = <<a[1] + b[1], a[2] + b[2], a[3] + b[3]>>
      /\ Minus(a, b) = <<a[1] - b[1], a[2] - b[2], a[3] - b[3]>>
      /\ Dot(a, b) = a[1] * b[1] + a[2] * b[2] + a[3] * b[3]
  BY <1>2 DEF Plus, Minus, Dot
<1>4. /\ a[1] + b[1] \in Int /\ a[2] + b[2] \in Int /\ a[3] + b[3] \in Int
      /\ a[1] - b[1] \in Int /\ a[2] - b[2] \in Int /\ a[3] - b[3] \in Int
  BY <1>1
<1> QED BY ONLY <1>3, <1>4, TripleIsPoint

\* A multiple of a point is a point.
LEMMA PointTimes ==
  ASSUME NEW a \in Point3, NEW k \in Int
  PROVE  Times(a, k) = <<a[1] * k, a[2] * k, a[3] * k>> /\ Times(a, k) \in Point3
<1>1. Len(a) = 3 /\ a[1] \in Int /\ a[2] \in Int /\ a[3] \in Int
  BY PointIs
<1>2. Len(a) # 2
  BY <1>1
<1>3. Times(a, k) = <<a[1] * k, a[2] * k, a[3] * k>>
  BY <1>2 DEF Times
<1>4. \A x \in Int : x * k \in Int
  OBVIOUS
<1> QED BY <1>1, <1>3, <1>4, TripleIsPoint

Projections == {"Perspective", "Orthographic"}
Cameras == [yaw : 0..3, target : Point3, distance : Int, projection : Projections, half : Int, aspect : {1, 2}]

\* The directions of the camera: it is level, and looks along an axis.
LEMMA Frame ==
  ASSUME camera \in Cameras
  PROVE  Away \in Point3 /\
         \E f, g \in {-1, 0, 1} : /\ f = 0 \/ g = 0
                                  /\ Forward = <<f, 0, g>> /\ Right = <<-g, 0, f>> /\ Up = <<0, 1, 0>>
<1>1. camera.yaw \in 0..3
  BY DEF Cameras
<1>2. PICK a, c \in {-1, 0, 1} : ((a = 0 /\ c # 0) \/ (a # 0 /\ c = 0)) /\ Away = <<a, 0, c>>
  <2>1. CASE camera.yaw = 0
    <3>1. Away = <<0, 0, 1>>
      BY <2>1 DEF Away
    <3> WITNESS 0 \in {-1, 0, 1}, 1 \in {-1, 0, 1}
    <3> QED BY <3>1
  <2>2. CASE camera.yaw = 1
    <3>1. Away = <<1, 0, 0>>
      BY <2>2 DEF Away
    <3> WITNESS 1 \in {-1, 0, 1}, 0 \in {-1, 0, 1}
    <3> QED BY <3>1
  <2>3. CASE camera.yaw = 2
    <3>1. Away = <<0, 0, -1>>
      BY <2>3 DEF Away
    <3> WITNESS 0 \in {-1, 0, 1}, -1 \in {-1, 0, 1}
    <3> QED BY <3>1
  <2>4. CASE camera.yaw = 3
    <3>1. Away = <<-1, 0, 0>>
      BY <2>4 DEF Away
    <3> WITNESS -1 \in {-1, 0, 1}, 0 \in {-1, 0, 1}
    <3> QED BY <3>1
  <2> QED BY <1>1, <2>1, <2>2, <2>3, <2>4
<1>3. Forward = <<a * (-1), 0 * (-1), c * (-1)>>
  <2>1. <<a, 0, c>> \in Point3
    BY TripleIsPoint
  <2>2. <<a, 0, c>>[1] = a /\ <<a, 0, c>>[2] = 0 /\ <<a, 0, c>>[3] = c
    OBVIOUS
  <2>3. PICK v \in Point3 : v = <<a, 0, c>>
    BY <2>1
  <2>4. -1 \in Int
    OBVIOUS
  <2>5. Times(v, -1) = <<v[1] * (-1), v[2] * (-1), v[3] * (-1)>>
    BY <2>4, PointTimes
  <2> QED BY <1>2, <2>2, <2>3, <2>5 DEF Forward
<1>4. PICK f, g \in {-1, 0, 1} : f = -a /\ g = -c
  <2>1. -a \in {-1, 0, 1} /\ -c \in {-1, 0, 1}
    BY <1>2
  <2> QED BY <2>1
<1>5. Forward = <<f, 0, g>>
  <2>1. a * (-1) = f /\ 0 * (-1) = 0 /\ c * (-1) = g
    BY <1>2, <1>4
  <2> QED BY ONLY <1>3, <2>1
<1>6. Right = <<-g, 0, f>>
  <2>1. <<f, 0, g>>[1] = f /\ <<f, 0, g>>[2] = 0 /\ <<f, 0, g>>[3] = g
    OBVIOUS
  <2>2. <<0, 1, 0>>[1] = 0 /\ <<0, 1, 0>>[2] = 1 /\ <<0, 1, 0>>[3] = 0
    OBVIOUS
  <2>3. Right = <<0 * 0 - g * 1, g * 0 - f * 0, f * 1 - 0 * 0>>
    BY <1>5, <2>1, <2>2 DEF Right, Cross
  <2>4. 0 * 0 - g * 1 = -g /\ g * 0 - f * 0 = 0 /\ f * 1 - 0 * 0 = f
    BY <1>4
  <2> QED BY ONLY <2>3, <2>4
<1>7. Up = <<0, 1, 0>>
  <2>1. <<f, 0, g>>[1] = f /\ <<f, 0, g>>[2] = 0 /\ <<f, 0, g>>[3] = g
    OBVIOUS
  <2>2. <<-g, 0, f>>[1] = -g /\ <<-g, 0, f>>[2] = 0 /\ <<-g, 0, f>>[3] = f
    OBVIOUS
  <2>3. Up = <<0 * g - f * 0, f * f - (-g) * g, (-g) * 0 - 0 * f>>
    BY <1>5, <1>6, <2>1, <2>2 DEF Up, Cross
  <2>4. 0 * g - f * 0 = 0 /\ f * f - (-g) * g = 1 /\ (-g) * 0 - 0 * f = 0
    BY <1>2, <1>4
  <2> QED BY ONLY <2>3, <2>4
<1>8. Away \in Point3
  BY <1>2, TripleIsPoint
<1> QED BY <1>2, <1>4, <1>5, <1>6, <1>7, <1>8

\* A form that is linear in the coordinates of a point, but for a constant.
LinearBy(L, k, a, b, c) == \A p \in Point3 : L[p] = k + a * p[1] + b * p[2] + c * p[3]
Linear(L) == \E k, a, b, c \in Int : LinearBy(L, k, a, b, c)

\* Sums and multiples of such forms are such forms.
LEMMA LinearForms ==
  ASSUME NEW L, NEW M, Linear(L), Linear(M), NEW m \in Int, NEW n \in Int
  PROVE  Linear([p \in Point3 |-> m * L[p] + M[p] + n])
<1>1. PICK k, a, b, c \in Int : \A p \in Point3 : L[p] = k + a * p[1] + b * p[2] + c * p[3]
  BY DEF Linear, LinearBy
<1>2. PICK j, d, e, f \in Int : \A p \in Point3 : M[p] = j + d * p[1] + e * p[2] + f * p[3]
  BY DEF Linear, LinearBy
<1>3. PICK q, x, y, z \in Int : q = m * k + j + n /\ x = m * a + d /\ y = m * b + e /\ z = m * c + f
  OBVIOUS
<1>4. ASSUME NEW p \in Point3
      PROVE  m * L[p] + M[p] + n = q + x * p[1] + y * p[2] + z * p[3]
  <2>1. PICK r, s, t \in Int : r = p[1] /\ s = p[2] /\ t = p[3]
    BY PointIs
  <2>2. m * (k + a * r + b * s + c * t) + (j + d * r + e * s + f * t) + n
          = (m * k + j + n) + (m * a + d) * r + (m * b + e) * s + (m * c + f) * t
    OBVIOUS
  <2> QED BY <1>1, <1>2, <1>3, <2>1, <2>2
<1>5. \A p \in Point3 : [r \in Point3 |-> m * L[r] + M[r] + n][p] = q + x * p[1] + y * p[2] + z * p[3]
  BY <1>4
<1>6. PICK N : N = [p \in Point3 |-> m * L[p] + M[p] + n]
  OBVIOUS
<1>7. LinearBy(N, q, x, y, z)
  BY ONLY <1>5, <1>6 DEF LinearBy
<1>8. Linear(N)
  BY <1>3, <1>7 DEF Linear
<1> QED BY <1>6, <1>8

\* Between two numbers, a multiple is no more than at the one that its sign picks.
LEMMA EndIsMore ==
  ASSUME NEW k \in Int, NEW low \in Int, NEW high \in Int, NEW x \in low..high, NEW y, y = IF k >= 0 THEN high ELSE low
  PROVE  k * x <= k * y
<1>1. CASE k >= 0
  <2>1. PICK d \in Nat : high = x + d
    <3>1. high - x \in Nat /\ high = x + (high - x)
      OBVIOUS
    <3> QED BY <3>1
  <2>2. k * (x + d) = k * x + k * d /\ k * d >= 0 /\ k * x \in Int
    BY <1>1
  <2> QED BY <1>1, <2>1, <2>2
<1>2. CASE k < 0
  <2>1. PICK d \in Nat : x = low + d
    <3>1. x - low \in Nat /\ x = low + (x - low)
      OBVIOUS
    <3> QED BY <3>1
  <2>2. PICK m \in Nat : k = -m
    <3>1. -k \in Nat /\ k = -(-k)
      BY <1>2
    <3> QED BY <3>1
  <2>3. (-m) * (low + d) = (-m) * low - m * d /\ m * d >= 0 /\ (-m) * low \in Int
    OBVIOUS
  <2>4. y = low
    BY <1>2
  <2> QED BY <2>1, <2>2, <2>3, <2>4
<1> QED BY <1>1, <1>2

Boxes == [min : Point3, max : Point3]

AtPoint(k, u, v, w, q) == k + u * q[1] + v * q[2] + w * q[3]
Picks(b, u, v, w, q)   == \E n : n = <<u, v, w>> /\ q = Positive(b, n)

\* A linear form is as much at the corner that its signs pick as at a point of the box.
LEMMA CornerIsMore ==
  ASSUME NEW k \in Int, NEW u \in Int, NEW v \in Int, NEW w \in Int, NEW b \in Boxes, NEW p \in PointsOf(b), NEW q, Picks(b, u, v, w, q)
  PROVE  p \in Point3 /\ q \in Point3 /\ AtPoint(k, u, v, w, p) \in Int /\ AtPoint(k, u, v, w, q) >= AtPoint(k, u, v, w, p)
<1>1. PICK n : n = <<u, v, w>> /\ q = Positive(b, n)
  BY DEF Picks
<1>2. PICK lo, hi \in Point3 : lo = b.min /\ hi = b.max
  BY DEF Boxes
<1>3. /\ lo[1] \in Int /\ lo[2] \in Int /\ lo[3] \in Int
      /\ hi[1] \in Int /\ hi[2] \in Int /\ hi[3] \in Int
  BY PointIs
<1>4. PICK x \in lo[1]..hi[1], y \in lo[2]..hi[2], z \in lo[3]..hi[3] : p = <<x, y, z>>
  BY <1>2 DEF PointsOf
<1>5. x \in Int /\ y \in Int /\ z \in Int
  BY <1>3
<1>6. PICK x2 \in Int : x2 = IF u >= 0 THEN hi[1] ELSE lo[1]
  BY <1>3
<1>7. PICK y2 \in Int : y2 = IF v >= 0 THEN hi[2] ELSE lo[2]
  BY <1>3
<1>8. PICK z2 \in Int : z2 = IF w >= 0 THEN hi[3] ELSE lo[3]
  BY <1>3
<1>9. u * x <= u * x2 /\ v * y <= v * y2 /\ w * z <= w * z2
  BY <1>3, <1>5, <1>6, <1>7, <1>8, EndIsMore
<1>10. q = <<x2, y2, z2>>
  <2>1. n[1] = u /\ n[2] = v /\ n[3] = w
    BY <1>1
  <2> QED BY <1>1, <1>2, <1>6, <1>7, <1>8, <2>1 DEF Positive
<1>11. p \in Point3 /\ q \in Point3
  BY <1>4, <1>5, <1>10, TripleIsPoint
<1>12. p[1] = x /\ p[2] = y /\ p[3] = z /\ q[1] = x2 /\ q[2] = y2 /\ q[3] = z2
  BY <1>4, <1>10
<1>13. PICK a, c, e, f, g, h \in Int : a = u * x /\ c = v * y /\ e = w * z /\ f = u * x2 /\ g = v * y2 /\ h = w * z2
  BY <1>5, <1>6, <1>7, <1>8
<1>14. k + f + g + h >= k + a + c + e /\ k + a + c + e \in Int
  BY <1>9, <1>13
<1> QED BY <1>11, <1>12, <1>13, <1>14 DEF AtPoint

\* How far a point is ahead of the camera, aside and above.
Ahead(p) == Dot(Minus(p, Eye), Forward)
Aside(p) == Dot(Minus(p, Eye), Right)
Above(p) == Dot(Minus(p, Eye), Up)

\* A form that has the values of a linear one is linear.
LEMMA LinearToo ==
  ASSUME NEW L, NEW M, Linear(L), \A p \in Point3 : M[p] = L[p]
  PROVE  Linear(M)
<1>1. PICK k, a, b, c \in Int : LinearBy(L, k, a, b, c)
  BY DEF Linear
<1>2. LinearBy(M, k, a, b, c)
  BY <1>1 DEF LinearBy
<1> QED BY <1>2 DEF Linear

\* So is one that is always the same.
LEMMA ConstantIsLinear ==
  ASSUME NEW n \in Int
  PROVE  Linear([p \in Point3 |-> n])
<1>1. \A p \in Point3 : [r \in Point3 |-> n][p] = n + 0 * p[1] + 0 * p[2] + 0 * p[3]
  <2>1. ASSUME NEW p \in Point3 PROVE n = n + 0 * p[1] + 0 * p[2] + 0 * p[3]
    BY PointIs
  <2> QED BY <2>1
<1>2. PICK N : N = [p \in Point3 |-> n]
  OBVIOUS
<1>3. LinearBy(N, n, 0, 0, 0)
  BY <1>1, <1>2 DEF LinearBy
<1> QED BY <1>2, <1>3 DEF Linear

\* Where the camera is, and what it measures.
LEMMA Directions ==
  ASSUME camera \in Cameras
  PROVE  /\ \A p \in Point3 : Ahead(p) \in Int /\ Aside(p) \in Int /\ Above(p) \in Int
         /\ Linear([p \in Point3 |-> Ahead(p)])
         /\ Linear([p \in Point3 |-> Aside(p)])
         /\ Linear([p \in Point3 |-> Above(p)])
<1>1. PICK e \in Point3 : e = Eye
  <2>1. Away \in Point3 /\ camera.target \in Point3 /\ camera.distance \in Int
    BY Frame DEF Cameras
  <2>2. Times(Away, camera.distance) \in Point3
    BY <2>1, PointTimes
  <2>3. Eye \in Point3
    BY <2>1, <2>2, PointSums DEF Eye
  <2> QED BY <2>3
<1>2. PICK f \in {-1, 0, 1}, g \in {-1, 0, 1} : Forward = <<f, 0, g>> /\ Right = <<-g, 0, f>> /\ Up = <<0, 1, 0>>
  BY Frame
<1>3. PICK e1, e2, e3 \in Int : e1 = e[1] /\ e2 = e[2] /\ e3 = e[3]
  BY PointIs
<1>4. ASSUME NEW p \in Point3
      PROVE  /\ Ahead(p) = (-(f * e1) - g * e3) + f * p[1] + 0 * p[2] + g * p[3]
             /\ Aside(p) = (g * e1 - f * e3) + (-g) * p[1] + 0 * p[2] + f * p[3]
             /\ Above(p) = -e2 + 0 * p[1] + 1 * p[2] + 0 * p[3]
             /\ Ahead(p) \in Int /\ Aside(p) \in Int /\ Above(p) \in Int
  <2>0. PICK x, y, z \in Int : x = p[1] /\ y = p[2] /\ z = p[3]
    BY PointIs
  <2>1. PICK v \in Point3 : v = Minus(p, e) /\ v[1] = x - e1 /\ v[2] = y - e2 /\ v[3] = z - e3
    <3>1. Minus(p, e) = <<x - e1, y - e2, z - e3>> /\ Minus(p, e) \in Point3
      BY <1>3, <2>0, PointSums
    <3>2. PICK v : v = Minus(p, e)
      OBVIOUS
    <3>3. v \in Point3 /\ v[1] = x - e1 /\ v[2] = y - e2 /\ v[3] = z - e3
      BY <3>1, <3>2
    <3> QED BY <3>2, <3>3
  <2>2. <<f, 0, g>> \in Point3 /\ <<-g, 0, f>> \in Point3 /\ <<0, 1, 0>> \in Point3
    BY TripleIsPoint
  <2>3. Ahead(p) = (x - e1) * f + (y - e2) * 0 + (z - e3) * g
    <3>1. <<f, 0, g>>[1] = f /\ <<f, 0, g>>[2] = 0 /\ <<f, 0, g>>[3] = g
      OBVIOUS
    <3>2. Dot(v, <<f, 0, g>>) = v[1] * <<f, 0, g>>[1] + v[2] * <<f, 0, g>>[2] + v[3] * <<f, 0, g>>[3]
      BY <2>2, PointSums
    <3> QED BY <1>1, <1>2, <2>1, <3>1, <3>2 DEF Ahead
  <2>4. Aside(p) = (x - e1) * (-g) + (y - e2) * 0 + (z - e3) * f
    <3>1. <<-g, 0, f>>[1] = -g /\ <<-g, 0, f>>[2] = 0 /\ <<-g, 0, f>>[3] = f
      OBVIOUS
    <3>2. Dot(v, <<-g, 0, f>>) = v[1] * <<-g, 0, f>>[1] + v[2] * <<-g, 0, f>>[2] + v[3] * <<-g, 0, f>>[3]
      BY <2>2, PointSums
    <3> QED BY <1>1, <1>2, <2>1, <3>1, <3>2 DEF Aside
  <2>5. Above(p) = (x - e1) * 0 + (y - e2) * 1 + (z - e3) * 0
    <3>1. <<0, 1, 0>>[1] = 0 /\ <<0, 1, 0>>[2] = 1 /\ <<0, 1, 0>>[3] = 0
      OBVIOUS
    <3>2. Dot(v, <<0, 1, 0>>) = v[1] * <<0, 1, 0>>[1] + v[2] * <<0, 1, 0>>[2] + v[3] * <<0, 1, 0>>[3]
      BY <2>2, PointSums
    <3> QED BY <1>1, <1>2, <2>1, <3>1, <3>2 DEF Above
  <2>6. /\ (x - e1) * f + (y - e2) * 0 + (z - e3) * g = (-(f * e1) - g * e3) + f * x + 0 * y + g * z
        /\ (x - e1) * (-g) + (y - e2) * 0 + (z - e3) * f = (g * e1 - f * e3) + (-g) * x + 0 * y + f * z
        /\ (x - e1) * 0 + (y - e2) * 1 + (z - e3) * 0 = -e2 + 0 * x + 1 * y + 0 * z
        /\ (x - e1) * f + (y - e2) * 0 + (z - e3) * g \in Int
        /\ (x - e1) * (-g) + (y - e2) * 0 + (z - e3) * f \in Int
        /\ (x - e1) * 0 + (y - e2) * 1 + (z - e3) * 0 \in Int
    OBVIOUS
  <2> QED BY ONLY <2>0, <2>3, <2>4, <2>5, <2>6
<1>5. PICK L1, L2, L3 : L1 = [p \in Point3 |-> Ahead(p)] /\ L2 = [p \in Point3 |-> Aside(p)] /\ L3 = [p \in Point3 |-> Above(p)]
  OBVIOUS
<1>6. PICK n1, n2, n3, ng \in Int : n1 = -(f * e1) - g * e3 /\ n2 = g * e1 - f * e3 /\ n3 = -e2 /\ ng = -g
  <2>1. -(f * e1) - g * e3 \in Int /\ g * e1 - f * e3 \in Int /\ -e2 \in Int /\ -g \in Int
    OBVIOUS
  <2> QED BY ONLY <2>1, Zenon
<1>7. LinearBy(L1, n1, f, 0, g) /\ LinearBy(L2, n2, ng, 0, f) /\ LinearBy(L3, n3, 0, 1, 0)
  <2>1. ASSUME NEW p \in Point3
        PROVE  /\ L1[p] = n1 + f * p[1] + 0 * p[2] + g * p[3]
               /\ L2[p] = n2 + ng * p[1] + 0 * p[2] + f * p[3]
               /\ L3[p] = n3 + 0 * p[1] + 1 * p[2] + 0 * p[3]
    <3>1. /\ Ahead(p) = (-(f * e1) - g * e3) + f * p[1] + 0 * p[2] + g * p[3]
          /\ Aside(p) = (g * e1 - f * e3) + (-g) * p[1] + 0 * p[2] + f * p[3]
          /\ Above(p) = -e2 + 0 * p[1] + 1 * p[2] + 0 * p[3]
      BY <1>4
    <3>2. L1[p] = Ahead(p) /\ L2[p] = Aside(p) /\ L3[p] = Above(p)
      BY <1>5
    <3> QED BY ONLY <1>6, <3>1, <3>2
  <2> QED BY <2>1 DEF LinearBy
<1>8. f \in Int /\ g \in Int /\ 0 \in Int /\ 1 \in Int
  OBVIOUS
<1>9. Linear(L1) /\ Linear(L2) /\ Linear(L3)
  BY <1>7, <1>8 DEF Linear
<1>10. \A p \in Point3 : Ahead(p) \in Int /\ Aside(p) \in Int /\ Above(p) \in Int
  BY <1>4
<1> QED BY <1>5, <1>9, <1>10

\* What the planes of the frustum measure, in both projections.
LEMMA PlanesAre ==
  ASSUME NEW p
  PROVE  \E h, w, n : /\ h = (IF camera.projection = "Orthographic" THEN camera.half ELSE Ahead(p))
                      /\ w = h * camera.aspect
                      /\ n = (IF camera.projection = "Orthographic" THEN Ahead(p) + Far - 2 * Near
                              ELSE Ahead(p) * (2 * Far - Near) - Near * Far)
                      /\ Planes(p) = <<w + Aside(p), w - Aside(p), h + Above(p), h - Above(p), n, Far - Ahead(p)>>
BY DEF Planes, Ahead, Aside, Above

\* Each plane is linear in the point.
LEMMA PlanesAreLinear ==
  ASSUME camera \in Cameras, NEW i \in 1..6
  PROVE  Linear([p \in Point3 |-> Planes(p)[i]])
<1>1. PICK D, R, U, Z : /\ D = [p \in Point3 |-> Ahead(p)] /\ R = [p \in Point3 |-> Aside(p)]
                        /\ U = [p \in Point3 |-> Above(p)] /\ Z = [p \in Point3 |-> 0]
  OBVIOUS
<1>2. Linear(D) /\ Linear(R) /\ Linear(U) /\ Linear(Z)
  <2>1. 0 \in Int
    OBVIOUS
  <2>2. Linear([p \in Point3 |-> 0])
    BY <2>1, ConstantIsLinear
  <2>3. Linear([p \in Point3 |-> Ahead(p)]) /\ Linear([p \in Point3 |-> Aside(p)]) /\ Linear([p \in Point3 |-> Above(p)])
    BY Directions
  <2> QED BY ONLY <1>1, <2>2, <2>3
<1>3. \A p \in Point3 : Ahead(p) \in Int /\ Aside(p) \in Int /\ Above(p) \in Int
  BY Directions
<1>4. PICK half \in Int, aspect \in Int : half = camera.half /\ aspect = camera.aspect
  BY DEF Cameras
<1>5. PICK H : /\ H = [p \in Point3 |-> IF camera.projection = "Orthographic" THEN half ELSE Ahead(p)]
  OBVIOUS
<1>6. Linear(H)
  <2>1. CASE camera.projection = "Orthographic"
    <3>1. H = [p \in Point3 |-> half]
      BY <1>5, <2>1
    <3> QED BY <3>1, ConstantIsLinear
  <2>2. CASE camera.projection # "Orthographic"
    <3>1. H = D
      BY <1>1, <1>5, <2>2
    <3> QED BY <1>2, <3>1
  <2> QED BY <2>1, <2>2
<1>7. PICK S, V : S = [p \in Point3 |-> (-1) * R[p] + Z[p] + 0] /\ V = [p \in Point3 |-> (-1) * U[p] + Z[p] + 0]
  OBVIOUS
<1>8. Linear(S) /\ Linear(V)
  <2>1. -1 \in Int /\ 0 \in Int
    OBVIOUS
  <2> QED BY <1>2, <1>7, <2>1, LinearForms
<1>9. PICK N \in Int, F \in Int : N = Near /\ F = Far
  BY SceneAssumption
<1>10. PICK m, n \in Int :
          IF camera.projection = "Orthographic" THEN m = 1 /\ n = F - 2 * N ELSE m = 2 * F - N /\ n = -(N * F)
  <2>1. 1 \in Int /\ F - 2 * N \in Int /\ 2 * F - N \in Int /\ -(N * F) \in Int
    OBVIOUS
  <2> QED BY ONLY <2>1
<1>11. PICK L : L = << [p \in Point3 |-> aspect * H[p] + R[p] + 0], [p \in Point3 |-> aspect * H[p] + S[p] + 0],
                      [p \in Point3 |-> 1 * H[p] + U[p] + 0], [p \in Point3 |-> 1 * H[p] + V[p] + 0],
                      [p \in Point3 |-> m * D[p] + Z[p] + n], [p \in Point3 |-> (-1) * D[p] + Z[p] + F] >>
  OBVIOUS
<1>12. Linear(L[i])
  <2>1. -1 \in Int /\ 0 \in Int /\ 1 \in Int
    OBVIOUS
  <2>2. /\ Linear([p \in Point3 |-> aspect * H[p] + R[p] + 0]) /\ Linear([p \in Point3 |-> aspect * H[p] + S[p] + 0])
        /\ Linear([p \in Point3 |-> 1 * H[p] + U[p] + 0]) /\ Linear([p \in Point3 |-> 1 * H[p] + V[p] + 0])
    BY <1>2, <1>6, <1>8, <2>1, LinearForms
  <2>3. Linear([p \in Point3 |-> m * D[p] + Z[p] + n]) /\ Linear([p \in Point3 |-> (-1) * D[p] + Z[p] + F])
    BY <1>2, <2>1, LinearForms
  <2>4. Linear(L[1]) /\ Linear(L[2]) /\ Linear(L[3]) /\ Linear(L[4]) /\ Linear(L[5]) /\ Linear(L[6])
    BY <1>11, <2>2, <2>3
  <2>5. i = 1 \/ i = 2 \/ i = 3 \/ i = 4 \/ i = 5 \/ i = 6
    OBVIOUS
  <2> QED BY ONLY <2>4, <2>5
<1>13. ASSUME NEW p \in Point3 PROVE Planes(p)[i] = L[i][p]
  <2>1. PICK d, r, u, z \in Int : d = Ahead(p) /\ r = Aside(p) /\ u = Above(p) /\ z = 0
    BY <1>3
  <2>2. D[p] = d /\ R[p] = r /\ U[p] = u /\ Z[p] = 0
    BY <1>1, <2>1
  <2>3. S[p] = (-1) * r + 0 + 0 /\ V[p] = (-1) * u + 0 + 0
    BY <1>7, <2>2
  <2>4. PICK h \in Int : H[p] = h /\ h = (IF camera.projection = "Orthographic" THEN half ELSE d)
    BY <1>5, <2>1
  <2>5. PICK w, k : /\ w = h * aspect
                    /\ k = (IF camera.projection = "Orthographic" THEN d + F - 2 * N ELSE d * (2 * F - N) - N * F)
                    /\ Planes(p) = <<w + r, w - r, h + u, h - u, k, F - d>>
    BY <1>4, <1>9, <2>1, <2>4, PlanesAre
  <2>6. k = m * d + 0 + n
    BY <1>10, <2>5
  <2>7. L[1][p] = aspect * h + r + 0
    BY <1>11, <2>2, <2>4
  <2>8. L[2][p] = aspect * h + ((-1) * r + 0 + 0) + 0
    BY <1>11, <2>3, <2>4
  <2>9. L[3][p] = 1 * h + u + 0
    BY <1>11, <2>2, <2>4
  <2>10. L[4][p] = 1 * h + ((-1) * u + 0 + 0) + 0
    BY <1>11, <2>3, <2>4
  <2>11. L[5][p] = m * d + 0 + n
    BY <1>11, <2>2
  <2>12. L[6][p] = (-1) * d + 0 + F
    BY <1>11, <2>2
  <2>13. /\ Planes(p)[1] = w + r /\ Planes(p)[2] = w - r /\ Planes(p)[3] = h + u /\ Planes(p)[4] = h - u
         /\ Planes(p)[5] = k /\ Planes(p)[6] = F - d
    BY <2>5
  <2>14. /\ w + r = aspect * h + r + 0 /\ w - r = aspect * h + ((-1) * r + 0 + 0) + 0
         /\ h + u = 1 * h + u + 0 /\ h - u = 1 * h + ((-1) * u + 0 + 0) + 0
         /\ F - d = (-1) * d + 0 + F
    BY <2>5
  <2>15. i = 1 \/ i = 2 \/ i = 3 \/ i = 4 \/ i = 5 \/ i = 6
    OBVIOUS
  <2> QED BY ONLY <2>6, <2>7, <2>8, <2>9, <2>10, <2>11, <2>12, <2>13, <2>14, <2>15
<1>14. \A p \in Point3 : [q \in Point3 |-> Planes(q)[i]][p] = L[i][p]
  BY <1>13
<1> QED BY <1>12, <1>14, LinearToo

\* What is in view is inside of every plane.
LEMMA ViewIsInside ==
  ASSUME camera \in Cameras, NEW p \in Point3, InView(p)
  PROVE  \A i \in 1..6 : Planes(p)[i] >= 0
<1>1. PICK d, r, u \in Int : d = Ahead(p) /\ r = Aside(p) /\ u = Above(p)
  BY Directions
<1>2. PICK N \in Nat, F \in Nat : N = Near /\ F = Far /\ N <= F
  BY SceneAssumption
<1>3. PICK half \in Int, aspect \in {1, 2} : half = camera.half /\ aspect = camera.aspect
  BY DEF Cameras
<1>4. PICK h \in Int : h = (IF camera.projection = "Orthographic" THEN half ELSE d)
  OBVIOUS
<1>5. PICK w, k : /\ w = h * aspect
                  /\ k = (IF camera.projection = "Orthographic" THEN d + F - 2 * N ELSE d * (2 * F - N) - N * F)
                  /\ Planes(p) = <<w + r, w - r, h + u, h - u, k, F - d>>
  BY <1>1, <1>2, <1>3, <1>4, PlanesAre
<1>6. N <= d /\ d <= F /\ Abs(r) <= h * aspect /\ Abs(u) <= h
  BY <1>1, <1>2, <1>3, <1>4 DEF InView, Ahead, Aside, Above
<1>7. r <= w /\ -r <= w /\ u <= h /\ -u <= h /\ w \in Int
  <2>1. h * aspect \in Int
    OBVIOUS
  <2> QED BY <1>5, <1>6, <2>1 DEF Abs
<1>8. k >= 0 /\ k \in Int
  <2>1. CASE camera.projection = "Orthographic"
    BY <1>2, <1>5, <1>6, <2>1
  <2>2. CASE camera.projection # "Orthographic"
    <3>1. PICK s \in Nat, t \in Nat : F = N + s /\ d = N + t
      <4>1. F - N \in Nat /\ d - N \in Nat /\ F = N + (F - N) /\ d = N + (d - N)
        BY <1>2, <1>6
      <4> QED BY ONLY <4>1
    <3>2. (N + t) * (2 * (N + s) - N) - N * (N + s) = N * s + t * N + 2 * (t * s)
      OBVIOUS
    <3>3. N * s \in Nat /\ t * N \in Nat /\ t * s \in Nat
      OBVIOUS
    <3>4. N * s + t * N + 2 * (t * s) \in Nat
      BY ONLY <3>3
    <3> QED BY <1>5, <2>2, <3>1, <3>2, <3>4
  <2> QED BY <2>1, <2>2
<1>9. w + r >= 0 /\ w - r >= 0 /\ h + u >= 0 /\ h - u >= 0 /\ F - d >= 0
  BY <1>6, <1>7
<1>10. /\ Planes(p)[1] = w + r /\ Planes(p)[2] = w - r /\ Planes(p)[3] = h + u /\ Planes(p)[4] = h - u
       /\ Planes(p)[5] = k /\ Planes(p)[6] = F - d
  BY <1>5
<1>11. ASSUME NEW i \in 1..6 PROVE Planes(p)[i] >= 0
  <2>1. i = 1 \/ i = 2 \/ i = 3 \/ i = 4 \/ i = 5 \/ i = 6
    OBVIOUS
  <2> QED BY ONLY <1>8, <1>9, <1>10, <2>1
<1> QED BY <1>11

\* The normal of a plane is made of its factors.
LEMMA NormalsAre ==
  ASSUME camera \in Cameras, NEW i \in 1..6
  PROVE  \E k, u, v, w \in Int : /\ \A q \in Point3 : Planes(q)[i] = k + u * q[1] + v * q[2] + w * q[3]
                                 /\ Normals[i] = <<u, v, w>>
<1>1. PICK L : L = [q \in Point3 |-> Planes(q)[i]]
  OBVIOUS
<1>2. Linear(L)
  BY <1>1, PlanesAreLinear
<1>3. PICK k, u, v, w \in Int : LinearBy(L, k, u, v, w)
  BY <1>2 DEF Linear
<1>4. \A q \in Point3 : Planes(q)[i] = k + u * q[1] + v * q[2] + w * q[3]
  BY <1>1, <1>3 DEF LinearBy
<1>5. PICK o, x, y, z : o = <<0, 0, 0>> /\ x = <<1, 0, 0>> /\ y = <<0, 1, 0>> /\ z = <<0, 0, 1>>
  OBVIOUS
<1>6. o \in Point3 /\ x \in Point3 /\ y \in Point3 /\ z \in Point3
  BY <1>5, TripleIsPoint
<1>7. /\ Planes(o)[i] = k + u * o[1] + v * o[2] + w * o[3] /\ Planes(x)[i] = k + u * x[1] + v * x[2] + w * x[3]
      /\ Planes(y)[i] = k + u * y[1] + v * y[2] + w * y[3] /\ Planes(z)[i] = k + u * z[1] + v * z[2] + w * z[3]
  BY <1>4, <1>6
<1>8. /\ o[1] = 0 /\ o[2] = 0 /\ o[3] = 0 /\ x[1] = 1 /\ x[2] = 0 /\ x[3] = 0
      /\ y[1] = 0 /\ y[2] = 1 /\ y[3] = 0 /\ z[1] = 0 /\ z[2] = 0 /\ z[3] = 1
  BY <1>5
<1>9. Planes(o)[i] = k /\ Planes(x)[i] = k + u /\ Planes(y)[i] = k + v /\ Planes(z)[i] = k + w
  BY ONLY <1>7, <1>8, k \in Int, u \in Int, v \in Int, w \in Int
<1>10. Normals[i] = <<Planes(x)[i] - Planes(o)[i], Planes(y)[i] - Planes(o)[i], Planes(z)[i] - Planes(o)[i]>>
  BY Zenon, <1>5 DEF Normals
<1>11. k + u - k = u /\ k + v - k = v /\ k + w - k = w
  OBVIOUS
<1>12. Normals[i] = <<u, v, w>>
  BY ONLY <1>9, <1>10, <1>11
<1> QED BY <1>4, <1>12

\* A box with a point in view is not culled.
LEMMA SeenIsKept ==
  ASSUME camera \in Cameras, NEW b \in Boxes, NEW p \in PointsOf(b), InView(p)
  PROVE  IntersectsAabb(b)
<1>1. ASSUME NEW i \in 1..6 PROVE Planes(Positive(b, Normals[i]))[i] >= 0
  <2>1. PICK k, u, v, w \in Int : (\A q \in Point3 : Planes(q)[i] = AtPoint(k, u, v, w, q)) /\ Normals[i] = <<u, v, w>>
    BY NormalsAre DEF AtPoint
  <2>2. PICK q : q = Positive(b, Normals[i])
    OBVIOUS
  <2>3. Picks(b, u, v, w, q)
    BY <2>1, <2>2 DEF Picks
  <2>4. p \in Point3 /\ q \in Point3 /\ AtPoint(k, u, v, w, p) \in Int /\ AtPoint(k, u, v, w, q) >= AtPoint(k, u, v, w, p)
    BY <2>3, CornerIsMore
  <2>5. Planes(p)[i] >= 0
    BY <2>4, ViewIsInside
  <2>6. AtPoint(k, u, v, w, q) \in Int
    <3>1. q[1] \in Int /\ q[2] \in Int /\ q[3] \in Int
      BY <2>4, PointIs
    <3>2. PICK e, f, g \in Int : e = u * q[1] /\ f = v * q[2] /\ g = w * q[3]
      BY <3>1
    <3> QED BY <3>2 DEF AtPoint
  <2>7. Planes(p)[i] = AtPoint(k, u, v, w, p) /\ Planes(q)[i] = AtPoint(k, u, v, w, q)
    BY <2>1, <2>4
  <2>8. Planes(q)[i] >= 0
    BY ONLY <2>4, <2>5, <2>6, <2>7
  <2> QED BY <2>2, <2>8
<1> QED BY <1>1 DEF IntersectsAabb

TotalFold(f) ==
  CHOOSE iter : iter = [s \in SUBSET (DOMAIN f) |-> IF s = {} THEN 0 ELSE f[CHOOSE x \in s : TRUE] + iter[s \ {CHOOSE x \in s : TRUE}]]

\* SumFunction() is a fold over the domain.
LEMMA TotalIsAFold ==
  ASSUME NEW f
  PROVE  SumFunction(f) = TotalFold(f)[DOMAIN f]
BY Zenon DEF SumFunction, SumFunctionOnSet, FoldFunctionOnSet, MapThenFoldSet, TotalFold

\* Those of S with key k, and those with a key of some.
With(S, key, k) == {i \in S : key[i] = k}
WithOneOf(S, key, some) == {i \in S : key[i] \in some}

\* How many there are of each key adds up to how many there are.
LEMMA CountsAddUp ==
  ASSUME NEW S, IsFiniteSet(S), NEW key, NEW f, f = [k \in {key[i] : i \in S} |-> Cardinality(With(S, key, k))]
  PROVE  SumFunction(f) = Cardinality(S)
<1> DEFINE Body(g, s) == IF s = {} THEN 0 ELSE f[CHOOSE x \in s : TRUE] + g[s \ {CHOOSE x \in s : TRUE}]
<1>1. PICK K : K = {key[i] : i \in S} /\ K = DOMAIN f
  OBVIOUS
<1>2. \A some : IsFiniteSet(WithOneOf(S, key, some)) /\ Cardinality(WithOneOf(S, key, some)) \in Nat
  <2>1. ASSUME NEW some PROVE IsFiniteSet(WithOneOf(S, key, some)) /\ Cardinality(WithOneOf(S, key, some)) \in Nat
    <3>1. WithOneOf(S, key, some) \subseteq S
      BY DEF WithOneOf
    <3> QED BY <3>1, FS_Subset, FS_CardinalityType
  <2> QED BY <2>1
<1>3. ASSUME NEW s \in SUBSET K, NEW x \in s
      PROVE  f[x] \in Nat /\ Cardinality(WithOneOf(S, key, s)) = f[x] + Cardinality(WithOneOf(S, key, s \ {x}))
  <2>1. PICK a, b : a = With(S, key, x) /\ b = WithOneOf(S, key, s \ {x})
    OBVIOUS
  <2>2. WithOneOf(S, key, s) = a \cup b /\ a \cap b = {} /\ a \subseteq S
    BY <2>1 DEF With, WithOneOf
  <2>3. IsFiniteSet(a) /\ IsFiniteSet(b)
    BY <1>2, <2>1, <2>2, FS_Subset
  <2>4. Cardinality(a) \in Nat /\ Cardinality(b) \in Nat /\ Cardinality(a \cap b) = 0
    BY <2>2, <2>3, FS_CardinalityType, FS_EmptySet
  <2>5. Cardinality(a \cup b) = Cardinality(a) + Cardinality(b) - Cardinality(a \cap b)
    BY <2>3, FS_Union
  <2>6. f[x] = Cardinality(a)
    BY <1>1, <2>1
  <2> QED BY ONLY <2>1, <2>2, <2>4, <2>5, <2>6
<1>4. WithOneOf(S, key, {}) = {} /\ Cardinality({}) = 0
  BY FS_EmptySet DEF WithOneOf
<1>5. WithOneOf(S, key, K) = S
  BY <1>1 DEF WithOneOf
<1>6. PICK g : g = [s \in SUBSET K |-> Cardinality(WithOneOf(S, key, s))]
  OBVIOUS
<1>7. g = [s \in SUBSET K |-> Body(g, s)]
  <2>1. ASSUME NEW s \in SUBSET K PROVE g[s] = Body(g, s)
    <3>1. CASE s = {}
      BY <1>4, <1>6, <3>1
    <3>2. CASE s # {}
      <4>1. PICK x \in s : x = CHOOSE y \in s : TRUE
        BY <3>2
      <4>2. s \ {x} \in SUBSET K
        OBVIOUS
      <4>3. g[s] = f[x] + g[s \ {x}]
        BY <1>3, <1>6, <4>2
      <4> QED BY <3>2, <4>1, <4>3
    <3> QED BY <3>1, <3>2
  <2> HIDE DEF Body
  <2> QED BY <1>6, <2>1
<1>8. PICK h : h = TotalFold(f)
  OBVIOUS
<1>9. h = [s \in SUBSET K |-> Body(h, s)]
  <2>1. h = CHOOSE iter : iter = [s \in SUBSET K |-> Body(iter, s)]
    BY <1>1, <1>8, Zenon DEF TotalFold
  <2> HIDE DEF Body
  <2> QED BY <1>7, <2>1
<1> DEFINE Good == {n \in Nat : \A s \in SUBSET K : IsFiniteSet(s) /\ Cardinality(s) = n => h[s] = g[s]}
<1>10. 0 \in Good
  <2>1. ASSUME NEW s \in SUBSET K, IsFiniteSet(s), Cardinality(s) = 0 PROVE h[s] = g[s]
    <3>1. s = {}
      BY <2>1, FS_EmptySet
    <3> QED BY <1>7, <1>9, <3>1
  <2> QED BY <2>1
<1>11. ASSUME NEW n \in Nat, n \in Good PROVE n + 1 \in Good
  <2>1. ASSUME NEW s \in SUBSET K, IsFiniteSet(s), Cardinality(s) = n + 1 PROVE h[s] = g[s]
    <3>1. s # {}
      BY <2>1, FS_EmptySet
    <3>2. PICK x \in s : x = CHOOSE y \in s : TRUE
      BY <3>1
    <3>3. s \ {x} \in SUBSET K /\ IsFiniteSet(s \ {x}) /\ Cardinality(s \ {x}) = n
      <4>1. IsFiniteSet(s \ {x}) /\ Cardinality(s \ {x}) = Cardinality(s) - 1
        BY <2>1, FS_RemoveElement
      <4>2. Cardinality(s) - 1 = n
        BY <2>1
      <4> QED BY <4>1, <4>2
    <3>4. h[s \ {x}] = g[s \ {x}]
      BY <1>11, <3>3
    <3>5. h[s] = Body(h, s) /\ g[s] = Body(g, s)
      <4> HIDE DEF Body
      <4> QED BY <1>7, <1>9
    <3>6. h[s] = f[x] + h[s \ {x}] /\ g[s] = f[x] + g[s \ {x}]
      BY <3>1, <3>2, <3>5
    <3> QED BY ONLY <3>4, <3>6
  <2> QED BY <2>1
<1>12. \A n \in Nat : n \in Good
  <2> HIDE DEF Good
  <2>1. \A n \in Nat : n \in Good => n + 1 \in Good
    BY <1>11
  <2> QED BY <1>10, <2>1, InductionOverSet
<1>13. IsFiniteSet(K) /\ Cardinality(K) \in Nat
  <2>1. PICK o : o = [i \in S |-> key[i]]
    OBVIOUS
  <2>2. o \in Surjection(S, K)
    BY <1>1, <2>1 DEF Surjection
  <2> QED BY <2>2, FS_Surjection, FS_CardinalityType
<1>14. h[K] = g[K]
  BY <1>12, <1>13
<1> QED BY <1>1, <1>5, <1>6, <1>8, <1>14, TotalIsAFold

\* A sequence is a function on the first numbers.
LEMMA ListIsSeq ==
  ASSUME NEW S, NEW n \in Nat, NEW f \in [1..n -> S]
  PROVE  f \in Seq(S) /\ Len(f) = n
<1>1. f \in UNION {[1..k -> S] : k \in Nat}
  OBVIOUS
<1>2. f \in Seq(S)
  BY <1>1, SeqDef
<1>3. Len(f) \in Nat /\ DOMAIN f = 1..Len(f) /\ DOMAIN f = 1..n
  BY <1>2
<1> QED BY <1>2, <1>3

Singles(x) == [i \in DOMAIN x |-> <<x[i]>>]

\* Sequences of one element each, put together, are the sequence of those.
LEMMA FlattenSingles ==
  ASSUME NEW S, NEW n \in Nat, NEW x \in [1..n -> S]
  PROVE  x \in Seq(S) /\ FlattenSeq(Singles(x)) = x
<1>0. PICK s : s = Singles(x) /\ s = [i \in 1..n |-> <<x[i]>>]
  BY DEF Singles
<1>1. x \in Seq(S) /\ Len(x) = n
  BY ListIsSeq
<1>2. ASSUME NEW i \in 1..n PROVE <<x[i]>> \in Seq(S) /\ Len(<<x[i]>>) = 1 /\ <<x[i]>>[1] = x[i]
  OBVIOUS
<1>3. s \in Seq(Seq(S)) /\ Len(s) = n
  <2>1. PICK T : T = Seq(S)
    OBVIOUS
  <2>2. s \in [1..n -> T]
    BY <1>0, <1>2, <2>1
  <2>3. s \in Seq(T) /\ Len(s) = n
    BY <2>2, ListIsSeq
  <2> QED BY ONLY <2>1, <2>3
<1>4. PICK st : Runs(S, s, st)
  BY <1>3, FlattenRuns
<1>5. /\ st[0] = <<>> /\ FlattenSeq(s) = st[n]
      /\ \A i \in 1..n : st[i] = st[i - 1] \o s[i]
      /\ \A i \in 0..n : st[i] \in Seq(S)
  BY <1>3, <1>4 DEF Runs
<1> DEFINE Good == {i \in Nat : i <= n => Len(st[i]) = i /\ \A j \in 1..i : st[i][j] = x[j]}
<1>6. 0 \in Good
  BY <1>5
<1>7. ASSUME NEW i \in Nat, i \in Good PROVE i + 1 \in Good
  <2>1. ASSUME i + 1 <= n PROVE Len(st[i + 1]) = i + 1 /\ \A j \in 1..(i + 1) : st[i + 1][j] = x[j]
    <3>1. i + 1 \in 1..n /\ (i + 1) - 1 = i /\ i \in 0..n
      BY <2>1
    <3>2. PICK a \in Seq(S), b \in Seq(S) : a = st[i] /\ b = <<x[i + 1]>> /\ Len(b) = 1 /\ b[1] = x[i + 1]
      BY <1>0, <1>2, <1>5, <3>1
    <3>3. Len(a) = i /\ \A j \in 1..i : a[j] = x[j]
      BY <1>7, <2>1, <3>2
    <3>4. st[i + 1] = a \o b
      BY <1>0, <1>5, <3>1, <3>2
    <3>5. Len(a \o b) = i + 1 /\ \A j \in 1..(i + 1) : (a \o b)[j] = IF j <= i THEN a[j] ELSE b[j - i]
      BY <3>2, <3>3, ConcatProperties
    <3>6. ASSUME NEW j \in 1..(i + 1) PROVE st[i + 1][j] = x[j]
      <4>1. CASE j <= i
        BY <3>3, <3>4, <3>5, <4>1
      <4>2. CASE j = i + 1
        <5>1. j - i = 1 /\ ~(j <= i)
          BY <4>2
        <5>2. (a \o b)[j] = b[1]
          BY <3>5, <5>1
        <5> QED BY <3>2, <3>4, <4>2, <5>2
      <4> QED BY <4>1, <4>2
    <3> QED BY <3>4, <3>5, <3>6
  <2> QED BY <2>1
<1>8. \A i \in Nat : i \in Good
  <2> HIDE DEF Good
  <2>1. \A i \in Nat : i \in Good => i + 1 \in Good
    BY <1>7
  <2> QED BY <1>6, <2>1, InductionOverSet
<1>9. Len(st[n]) = n /\ \A j \in 1..n : st[n][j] = x[j]
  BY <1>8
<1>10. st[n] \in Seq(S)
  BY <1>5
<1>11. st[n] = x
  BY <1>1, <1>9, <1>10, SeqEqual
<1> QED BY <1>0, <1>1, <1>5, <1>11

Own(x) == IF x[1].mesh = 0 THEN <<>> ELSE <<[node |-> x[1].id, world |-> Plus(x[2], x[1].local), mesh |-> x[1].mesh]>>
Flat(f, level, x) ==
  Own(x) \o FlattenSeq([i \in DOMAIN x[1].children |-> f[level - 1][<<x[1].children[i], Plus(x[2], x[1].local)>>]])

\* flatten_node() is what its recursion says, on both levels.
LEMMA FlattenNodeIs ==
  FlattenNode = [level \in 0..1 |-> [x \in Nodes(level) \X Point3 |-> Flat(FlattenNode, level, x)]]
<1> DEFINE Body(f, level) == [x \in Nodes(level) \X Point3 |-> Flat(f, level, x)]
<1>1. FlattenNode = CHOOSE f : f = [level \in 0..1 |-> Body(f, level)]
  BY Zenon DEF FlattenNode, Flat, Own
<1> DEFINE g0 == [x \in Nodes(0) \X Point3 |-> Own(x) \o FlattenSeq(<<>>)]
           g == [level \in 0..1 |-> IF level = 0 THEN g0 ELSE Body([l \in 0..1 |-> g0], 1)]
<1>2. g[0] = g0 /\ g[1] = Body([l \in 0..1 |-> g0], 1) /\ DOMAIN g = 0..1
  <2> HIDE DEF g0, Body
  <2> QED OBVIOUS
<1>3. g0 = Body(g, 0)
  <2>1. ASSUME NEW x \in Nodes(0) \X Point3 PROVE Own(x) \o FlattenSeq(<<>>) = Flat(g, 0, x)
    <3>1. x[1].children = <<>>
      BY DEF Nodes
    <3>2. PICK e : e = [i \in DOMAIN x[1].children |-> g[0 - 1][<<x[1].children[i], Plus(x[2], x[1].local)>>]]
      OBVIOUS
    <3>3. e = <<>>
      <4>1. DOMAIN x[1].children = {}
        BY <3>1
      <4> HIDE DEF g
      <4> QED BY <3>2, <4>1
    <3> HIDE DEF g, g0
    <3> QED BY <3>2, <3>3 DEF Flat
  <2> HIDE DEF g
  <2> QED BY <2>1
<1>4. Body([l \in 0..1 |-> g0], 1) = Body(g, 1)
  <2>1. ASSUME NEW x \in Nodes(1) \X Point3 PROVE Flat([l \in 0..1 |-> g0], 1, x) = Flat(g, 1, x)
    <3>1. [l \in 0..1 |-> g0][1 - 1] = g[1 - 1]
      <4> HIDE DEF g, g0
      <4> QED BY <1>2
    <3>2. PICK a, b : a = g /\ b = [l \in 0..1 |-> g0]
      OBVIOUS
    <3>3. a[1 - 1] = b[1 - 1]
      BY ONLY <3>1, <3>2
    <3>4. Flat(b, 1, x) = Flat(a, 1, x)
      BY ONLY <3>3 DEF Flat
    <3> HIDE DEF g, g0
    <3> QED BY <3>2, <3>4
  <2> HIDE DEF g, g0
  <2> QED BY <2>1
<1>5. g = [level \in 0..1 |-> Body(g, level)]
  <2>1. ASSUME NEW level \in 0..1 PROVE g[level] = Body(g, level)
    <3>1. level = 0 \/ level = 1
      OBVIOUS
    <3> HIDE DEF g, g0, Body
    <3> QED BY <1>2, <1>3, <1>4, <3>1
  <2>2. g = [level \in 0..1 |-> g[level]]
    OBVIOUS
  <2> HIDE DEF g, g0, Body
  <2> QED BY <2>1, <2>2
<1>6. FlattenNode = [level \in 0..1 |-> Body(FlattenNode, level)]
  <2> HIDE DEF g, Body
  <2> QED BY <1>1, <1>5
<1> QED BY <1>6

Parted == [node : DOMAIN Extents, world : Point3, mesh : DOMAIN Extents]
Uniform == [world : Point3, highlight : {0, 1}]
Renderers == [meshes : Seq(Boxes), uniforms : Seq(Uniform), picks : Seq(Parted), highlighted : {NoNode} \cup DOMAIN Extents]

\* What is drawn, tested by a click and emphasised are the same parts.
Consistent(g) ==
  /\ Len(g.meshes) = Len(g.picks)
  /\ \A i \in DOMAIN g.picks : g.picks[i].mesh = i
  /\ g.uniforms = [i \in DOMAIN g.picks |->
                     [world |-> g.picks[i].world, highlight |-> IF g.picks[i].node = g.highlighted THEN 1 ELSE 0]]

SceneInv ==
  /\ assembly \in [DOMAIN Extents -> Point3]
  /\ camera \in Cameras
  /\ gpu \in Renderers
  /\ Consistent(gpu)

\* The parts are numbered.
LEMMA PartsAre ==
  \E n \in Nat : n = Len(Extents) /\ DOMAIN Extents = 1..n /\ \A p \in 1..n : Extents[p] \in Point3
<1>1. Extents \in Seq(Point3)
  BY SceneAssumption
<1>2. Len(Extents) \in Nat /\ DOMAIN Extents = 1..Len(Extents) /\ \A p \in 1..Len(Extents) : Extents[p] \in Point3
  BY <1>1
<1> QED BY ONLY <1>2

\* A box that moves is a box.
LEMMA MovedIsBox ==
  ASSUME NEW b \in Boxes, NEW by \in Point3
  PROVE  MovedBox(b, by) \in Boxes
<1>1. b.min \in Point3 /\ b.max \in Point3
  BY DEF Boxes
<1>2. Plus(b.min, by) \in Point3 /\ Plus(b.max, by) \in Point3
  BY <1>1, PointSums
<1> QED BY <1>2 DEF MovedBox, Box, Boxes

\* The scene of an assembly has a mesh and an item for each part.
LEMMA SceneIs ==
  ASSUME assembly \in [DOMAIN Extents -> Point3]
  PROVE  /\ SceneFromAssembly.meshes = [p \in DOMAIN Extents |-> SolidInAssembly(p)]
         /\ SceneFromAssembly.items = [p \in DOMAIN Extents |-> [node |-> p, world |-> assembly[p], mesh |-> p]]
<1>1. PICK n \in Nat : DOMAIN Extents = 1..n
  BY PartsAre
<1>2. PICK zero \in Point3 : zero = <<0, 0, 0>>
  <2>1. 0 \in Int
    OBVIOUS
  <2>2. <<0, 0, 0>> \in Point3
    BY ONLY <2>1, TripleIsPoint
  <2> QED BY <2>2
<1>3. PICK nodes : nodes = [p \in 1..n |-> [id |-> p, local |-> assembly[p], mesh |-> p, children |-> <<>>]]
  OBVIOUS
<1>4. PICK root : root = [id |-> 0, local |-> zero, mesh |-> 0, children |-> nodes]
  OBVIOUS
<1>5. \A p \in 1..n : assembly[p] \in Point3
  BY <1>1
<1>6. \A p \in 1..n : nodes[p] \in Nodes(0)
  BY <1>3, <1>5 DEF Nodes
<1>7. root \in Nodes(1)
  <2>1. PICK Leaves : Leaves = Nodes(0)
    OBVIOUS
  <2>2. nodes \in [1..n -> Leaves]
    BY <1>3, <1>6, <2>1
  <2>3. nodes \in Seq(Leaves)
    BY <2>2, ListIsSeq
  <2>4. Nodes(1) = [id : Nat, local : Point3, mesh : Nat, children : Seq(Leaves)]
    BY <2>1 DEF Nodes
  <2> QED BY <1>4, <2>3, <2>4
<1>8. \A p \in Point3 : Plus(zero, p) = p
  <2>1. ASSUME NEW p \in Point3 PROVE Plus(zero, p) = p
    <3>1. PICK x, y, z \in Int : x = p[1] /\ y = p[2] /\ z = p[3] /\ p = <<x, y, z>>
      BY PointIs
    <3>2. Plus(zero, p) = <<0 + x, 0 + y, 0 + z>>
      <4>1. zero[1] = 0 /\ zero[2] = 0 /\ zero[3] = 0
        BY <1>2
      <4> QED BY <3>1, <4>1, PointSums
    <3>3. 0 + x = x /\ 0 + y = y /\ 0 + z = z
      OBVIOUS
    <3> QED BY ONLY <3>1, <3>2, <3>3
  <2> QED BY <2>1
<1>9. PICK items : items = [p \in 1..n |-> [node |-> p, world |-> assembly[p], mesh |-> p]]
  OBVIOUS
<1>10. PICK singles : singles = [p \in 1..n |-> <<items[p]>>]
  OBVIOUS
<1>11. PICK walk : walk = FlattenNode
  OBVIOUS
<1>12. ASSUME NEW p \in 1..n PROVE walk[0][<<nodes[p], zero>>] = singles[p]
  <2>0. PICK x : x = <<nodes[p], zero>>
    OBVIOUS
  <2>1. x = <<nodes[p], zero>> /\ x[1] = nodes[p] /\ x[2] = zero
    BY <2>0
  <2>2. x \in Nodes(0) \X Point3
    BY <1>6, <2>1
  <2>3. walk[0][x] = Flat(walk, 0, x)
    BY <1>11, <2>2, FlattenNodeIs
  <2>4. nodes[p].mesh = p /\ p # 0 /\ nodes[p].id = p /\ nodes[p].local = assembly[p] /\ nodes[p].children = <<>>
    BY <1>3
  <2>5. Own(x) = <<items[p]>>
    BY <1>5, <1>8, <1>9, <2>1, <2>4 DEF Own
  <2>6. [i \in DOMAIN x[1].children |-> walk[0 - 1][<<x[1].children[i], Plus(x[2], x[1].local)>>]] = <<>>
    <3>1. DOMAIN x[1].children = {}
      BY <2>1, <2>4
    <3> QED BY <3>1
  <2>7. Flat(walk, 0, x) = <<items[p]>> \o FlattenSeq(<<>>)
    BY <2>5, <2>6 DEF Flat
  <2>8. FlattenSeq(<<>>) = <<>>
    BY DEF FlattenSeq
  <2>9. <<items[p]>> \o <<>> = <<items[p]>>
    <3>1. <<items[p]>> \in Seq({items[p]})
      OBVIOUS
    <3> QED BY <3>1, ConcatEmptySeq
  <2> QED BY <1>10, <2>1, <2>3, <2>7, <2>8, <2>9
<1>14. PICK S : items \in Seq(S) /\ FlattenSeq(singles) = items
  <2>1. PICK S : S = {items[p] : p \in 1..n}
    OBVIOUS
  <2>2. items \in [1..n -> S]
    BY <1>9, <2>1
  <2>3. items \in Seq(S) /\ FlattenSeq(singles) = items
    <3>1. singles = Singles(items)
      BY <1>9, <1>10 DEF Singles
    <3> QED BY <2>2, <3>1, FlattenSingles
  <2> QED BY <2>3
<1>13. walk[1][<<root, zero>>] = FlattenSeq(singles)
  <2>0. PICK x : x = <<root, zero>>
    OBVIOUS
  <2>1. x = <<root, zero>> /\ x[1] = root /\ x[2] = zero
    BY <2>0
  <2>2. x \in Nodes(1) \X Point3
    BY <1>7, <2>1
  <2>3. walk[1][x] = Flat(walk, 1, x)
    BY <1>11, <2>2, FlattenNodeIs
  <2>4. Own(x) = <<>> /\ x[1].children = nodes /\ Plus(x[2], x[1].local) = zero
    BY <1>4, <1>8, <2>1 DEF Own
  <2>5. PICK below : below = [i \in DOMAIN x[1].children |-> walk[1 - 1][<<x[1].children[i], Plus(x[2], x[1].local)>>]]
    OBVIOUS
  <2>6. below = singles
    <3>1. DOMAIN nodes = 1..n /\ 1 - 1 = 0
      BY <1>3
    <3>2. below = [i \in 1..n |-> walk[0][<<nodes[i], zero>>]]
      BY <2>4, <2>5, <3>1
    <3> QED BY <1>10, <1>12, <3>2
  <2>7. walk[1][x] = <<>> \o FlattenSeq(singles)
    BY <2>3, <2>4, <2>5, <2>6 DEF Flat
  <2> QED BY <1>14, <2>1, <2>7, ConcatEmptySeq
<1>15. /\ SceneFromAssembly.meshes = [p \in DOMAIN Extents |-> SolidInAssembly(p)]
       /\ SceneFromAssembly.items = FlattenNode[1][<<root, zero>>]
  <2> HIDE DEF SolidInAssembly
  <2> QED BY <1>1, <1>2, <1>3, <1>4 DEF SceneFromAssembly
<1> QED BY <1>1, <1>9, <1>11, <1>13, <1>14, <1>15

\* What is drawn has the same fields as what is written for it.
LEMMA UniformsAre ==
  ASSUME NEW picks \in Seq(Parted), NEW node
  PROVE  [i \in DOMAIN picks |-> [world |-> picks[i].world, highlight |-> IF picks[i].node = node THEN 1 ELSE 0]] \in Seq(Uniform)
<1>1. PICK n \in Nat : n = Len(picks) /\ DOMAIN picks = 1..n /\ \A i \in 1..n : picks[i] \in Parted
  <2>1. Len(picks) \in Nat /\ DOMAIN picks = 1..Len(picks) /\ \A i \in 1..Len(picks) : picks[i] \in Parted
    OBVIOUS
  <2> QED BY ONLY <2>1
<1>2. PICK u : u = [i \in DOMAIN picks |-> [world |-> picks[i].world, highlight |-> IF picks[i].node = node THEN 1 ELSE 0]]
  OBVIOUS
<1>3. \A i \in 1..n : picks[i].world \in Point3
  BY <1>1 DEF Parted
<1>4. u \in [1..n -> Uniform]
  BY <1>1, <1>2, <1>3 DEF Uniform
<1> QED BY <1>2, <1>4, ListIsSeq

\* The invariant holds at the start, when nothing is uploaded.
LEMMA SceneStarts == SceneInit => SceneInv
<1> SUFFICES ASSUME SceneInit PROVE SceneInv
  OBVIOUS
<1>1. <<0, 0, 0>> \in Point3
  <2>1. 0 \in Int
    OBVIOUS
  <2> QED BY ONLY <2>1, TripleIsPoint
<1>2. assembly \in [DOMAIN Extents -> Point3]
  BY <1>1 DEF SceneInit
<1>3. camera \in Cameras
  BY <1>1 DEF SceneInit, Cameras, Projections
<1>4. gpu = [meshes |-> <<>>, uniforms |-> <<>>, picks |-> <<>>, highlighted |-> NoNode]
  BY DEF SceneInit
<1>5. <<>> \in Seq(Boxes) /\ <<>> \in Seq(Uniform) /\ <<>> \in Seq(Parted)
  OBVIOUS
<1>6. gpu \in Renderers
  BY <1>4, <1>5 DEF Renderers
<1>7. Consistent(gpu)
  <2>1. DOMAIN gpu.picks = {}
    BY <1>4
  <2>2. gpu.uniforms = [i \in DOMAIN gpu.picks |->
                     [world |-> gpu.picks[i].world, highlight |-> IF gpu.picks[i].node = gpu.highlighted THEN 1 ELSE 0]]
    BY <1>4, <2>1
  <2>3. Len(gpu.meshes) = Len(gpu.picks)
    BY <1>4
  <2> QED BY <2>1, <2>2, <2>3 DEF Consistent
<1> QED BY <1>2, <1>3, <1>6, <1>7 DEF SceneInv

\* An upload writes the meshes, the uniforms and the pick list of one scene.
LEMMA UploadKeeps ==
  ASSUME SceneInv
  PROVE  Uploaded(SceneFromAssembly) \in Renderers /\ Consistent(Uploaded(SceneFromAssembly))
<1>1. assembly \in [DOMAIN Extents -> Point3]
  BY DEF SceneInv
<1>2. PICK n \in Nat : DOMAIN Extents = 1..n /\ \A p \in 1..n : Extents[p] \in Point3
  BY PartsAre
<1>3. PICK scene : scene = SceneFromAssembly
  OBVIOUS
<1>4. scene.meshes = [p \in 1..n |-> SolidInAssembly(p)] /\ scene.items = [p \in 1..n |-> [node |-> p, world |-> assembly[p], mesh |-> p]]
  BY <1>1, <1>2, <1>3, SceneIs
<1>5. ASSUME NEW p \in 1..n PROVE SolidInAssembly(p) \in Boxes
  <2>1. <<0, 0, 0>> \in Point3
    <3>1. 0 \in Int
      OBVIOUS
    <3> QED BY ONLY <3>1, TripleIsPoint
  <2>2. Box(<<0, 0, 0>>, Extents[p]) \in Boxes /\ assembly[p] \in Point3
    BY <1>1, <1>2, <2>1 DEF Box, Boxes
  <2> QED BY <2>2, MovedIsBox DEF SolidInAssembly
<1>6. scene.meshes \in Seq(Boxes) /\ Len(scene.meshes) = n
  <2>1. scene.meshes \in [1..n -> Boxes]
    BY <1>4, <1>5
  <2> QED BY <2>1, ListIsSeq
<1>7. \A p \in 1..n : assembly[p] \in Point3
  BY <1>1, <1>2
<1>8. scene.items \in Seq(Parted) /\ Len(scene.items) = n
  <2>1. scene.items \in [1..n -> Parted]
    BY <1>2, <1>4, <1>7 DEF Parted
  <2> QED BY <2>1, ListIsSeq
<1>9. DOMAIN scene.items = 1..n /\ \A i \in 1..n : scene.items[i].node = i /\ scene.items[i].mesh = i
  BY <1>4
<1>10. PICK u : u = [i \in DOMAIN scene.items |-> [world |-> scene.items[i].world, highlight |-> 0]]
  OBVIOUS
<1>11. u = [i \in DOMAIN scene.items |->
              [world |-> scene.items[i].world, highlight |-> IF scene.items[i].node = NoNode THEN 1 ELSE 0]]
  <2>1. \A i \in 1..n : scene.items[i].node # NoNode
    BY <1>9 DEF NoNode
  <2> QED BY <1>9, <1>10, <2>1
<1>12. u \in Seq(Uniform)
  BY <1>8, <1>11, UniformsAre
<1>13. PICK g : g = Uploaded(scene)
  OBVIOUS
<1>14. g = [meshes |-> scene.meshes, uniforms |-> u, picks |-> scene.items, highlighted |-> NoNode]
  BY <1>10, <1>13 DEF Uploaded
<1>15. g \in Renderers
  BY <1>6, <1>8, <1>12, <1>14 DEF Renderers
<1>16. Consistent(g)
  BY <1>6, <1>8, <1>9, <1>11, <1>14 DEF Consistent
<1> QED BY <1>3, <1>13, <1>15, <1>16

\* A selection rewrites the uniforms for the node it emphasises.
LEMMA SelectionKeeps ==
  ASSUME SceneInv, NEW node \in {NoNode} \cup DOMAIN Extents, SetHighlighted(node)
  PROVE  gpu' \in Renderers /\ Consistent(gpu')
<1>1. gpu \in Renderers /\ Consistent(gpu)
  BY DEF SceneInv
<1>2. PICK g, h, u : /\ g = gpu /\ h = gpu'
                     /\ u = [i \in DOMAIN gpu.picks |-> [world |-> gpu.picks[i].world, highlight |-> IF gpu.picks[i].node = node THEN 1 ELSE 0]]
  OBVIOUS
<1>3. h = [g EXCEPT !.highlighted = node, !.uniforms = u]
  BY <1>2 DEF SetHighlighted
<1>4. g \in Renderers /\ Consistent(g)
  BY <1>1, <1>2
<1>5. u \in Seq(Uniform)
  <2>1. g.picks \in Seq(Parted)
    BY <1>4 DEF Renderers
  <2> QED BY <1>2, <2>1, UniformsAre
<1>6. /\ h.meshes = g.meshes /\ h.picks = g.picks /\ h.highlighted = node /\ h.uniforms = u
      /\ h \in Renderers
  BY <1>3, <1>4, <1>5 DEF Renderers
<1>7. Consistent(h)
  BY <1>2, <1>4, <1>6 DEF Consistent
<1> QED BY <1>2, <1>6, <1>7

\* However the user moves the camera, it is one.
LEMMA LookKeeps ==
  ASSUME SceneInv, Orbit \/ ZoomIn \/ ZoomOut \/ Pan \/ ToggleProjection \/ Resize
  PROVE  camera' \in Cameras /\ assembly' = assembly /\ gpu' = gpu
<1>1. PICK c \in Cameras : c = camera
  BY DEF SceneInv
<1>2. /\ c.yaw \in 0..3 /\ c.target \in Point3 /\ c.distance \in Int /\ c.projection \in Projections
      /\ c.half \in Int /\ c.aspect \in {1, 2}
  BY DEF Cameras
<1>3. CASE Orbit
  <2>1. (c.yaw + 1) % 4 \in 0..3
    BY <1>2
  <2>2. camera' = [c EXCEPT !.yaw = (c.yaw + 1) % 4] /\ assembly' = assembly /\ gpu' = gpu
    BY <1>1, <1>3 DEF Orbit, Look
  <2> QED BY <2>1, <2>2 DEF Cameras
<1>4. ASSUME NEW m \in {1, 2}, NEW d \in {1, 2}, Zoom(<<m, d>>)
      PROVE  camera' \in Cameras /\ assembly' = assembly /\ gpu' = gpu
  <2>1. PICK x, y : x = (c.distance * m) \div d /\ y = (IF c.projection = "Orthographic" THEN (c.half * m) \div d ELSE c.half)
    OBVIOUS
  <2>2. x \in Int /\ y \in Int
    BY <1>2, <2>1
  <2>3. camera' = [c EXCEPT !.distance = x, !.half = y] /\ assembly' = assembly /\ gpu' = gpu
    BY <1>1, <1>4, <2>1 DEF Zoom, Look
  <2> QED BY <2>2, <2>3 DEF Cameras
<1>5. CASE ZoomIn
  BY <1>4, <1>5 DEF ZoomIn
<1>6. CASE ZoomOut
  BY <1>4, <1>6 DEF ZoomOut
<1>7. CASE Pan
  <2>1. PICK f \in {-1, 0, 1}, g \in {-1, 0, 1} : Right = <<-g, 0, f>> /\ Up = <<0, 1, 0>>
    BY <1>1, Frame
  <2>2. Right \in Point3 /\ Up \in Point3
    <3>1. -g \in Int /\ f \in Int /\ 0 \in Int /\ 1 \in Int
      OBVIOUS
    <3> QED BY ONLY <2>1, <3>1, TripleIsPoint
  <2>3. Plus(c.target, Plus(Right, Up)) \in Point3
    BY <1>2, <2>2, PointSums
  <2>4. camera' = [c EXCEPT !.target = Plus(c.target, Plus(Right, Up))] /\ assembly' = assembly /\ gpu' = gpu
    BY <1>1, <1>7 DEF Pan, Look
  <2> QED BY <2>3, <2>4 DEF Cameras
<1>8. CASE ToggleProjection
  <2>1. camera' = [c EXCEPT !.projection = IF c.projection = "Perspective" THEN "Orthographic" ELSE "Perspective"] /\ assembly' = assembly /\ gpu' = gpu
    BY <1>1, <1>8 DEF ToggleProjection, Look
  <2> QED BY <2>1 DEF Cameras, Projections
<1>9. CASE Resize
  <2>1. 3 - c.aspect \in {1, 2}
    BY <1>2
  <2>2. camera' = [c EXCEPT !.aspect = 3 - c.aspect] /\ assembly' = assembly /\ gpu' = gpu
    BY <1>1, <1>9 DEF Resize, Look
  <2> QED BY <2>1, <2>2 DEF Cameras
<1> QED BY <1>3, <1>5, <1>6, <1>7, <1>8, <1>9

\* Every step keeps the invariant.
LEMMA SceneSteps == SceneInv /\ [SceneNext]_sceneVars => SceneInv'
<1> SUFFICES ASSUME SceneInv, [SceneNext]_sceneVars PROVE SceneInv'
  OBVIOUS
<1>1. assembly \in [DOMAIN Extents -> Point3] /\ camera \in Cameras /\ gpu \in Renderers /\ Consistent(gpu)
  BY DEF SceneInv
<1>2. ASSUME NEW p \in DOMAIN Extents, NEW by \in Shifts, MovePartInScene(p, by) PROVE SceneInv'
  <2>1. assembly' = [assembly EXCEPT ![p] = Plus(assembly[p], by)] /\ camera' = camera /\ gpu' = gpu
    BY <1>2 DEF MovePartInScene
  <2>2. by \in Point3 /\ assembly[p] \in Point3
    BY <1>1, SceneAssumption
  <2>3. Plus(assembly[p], by) \in Point3
    BY <2>2, PointSums
  <2>4. assembly' \in [DOMAIN Extents -> Point3]
    BY <1>1, <2>1, <2>3
  <2> QED BY <1>1, <2>1, <2>4, Zenon DEF SceneInv
<1>3. CASE UploadAssembly
  <2>1. gpu' = Uploaded(SceneFromAssembly) /\ assembly' = assembly /\ camera' = camera
    BY <1>3 DEF UploadAssembly
  <2>2. gpu' \in Renderers /\ Consistent(gpu')
    BY <2>1, UploadKeeps
  <2> QED BY <1>1, <2>1, <2>2, Zenon DEF SceneInv
<1>4. ASSUME NEW node \in {NoNode} \cup DOMAIN Extents, SetHighlighted(node) PROVE SceneInv'
  <2>1. gpu' \in Renderers /\ Consistent(gpu')
    BY <1>4, SelectionKeeps
  <2>2. assembly' = assembly /\ camera' = camera
    BY <1>4 DEF SetHighlighted
  <2> QED BY <1>1, <2>1, <2>2, Zenon DEF SceneInv
<1>5. CASE Orbit \/ ZoomIn \/ ZoomOut \/ Pan \/ ToggleProjection \/ Resize
  <2>1. camera' \in Cameras /\ assembly' = assembly /\ gpu' = gpu
    BY <1>5, LookKeeps
  <2> QED BY <1>1, <2>1, Zenon DEF SceneInv
<1>6. ASSUME NEW at \in Cursors, Pick(at) PROVE SceneInv'
  <2>1. assembly' = assembly /\ camera' = camera /\ gpu' = gpu
    BY <1>6 DEF Pick
  <2> QED BY <1>1, <2>1, Zenon DEF SceneInv
<1>7. CASE UNCHANGED sceneVars
  <2>1. assembly' = assembly /\ camera' = camera /\ gpu' = gpu
    BY <1>7 DEF sceneVars
  <2> QED BY <1>1, <2>1, Zenon DEF SceneInv
<1> QED BY <1>2, <1>3, <1>4, <1>5, <1>6, <1>7 DEF SceneNext

\* What the invariant says is what the user sees.
LEMMA SelectionShows ==
  ASSUME SceneInv
  PROVE  SelectionIsShown
<1>1. /\ assembly \in [DOMAIN Extents -> Point3] /\ gpu \in Renderers
      /\ Len(gpu.meshes) = Len(gpu.picks) /\ \A i \in DOMAIN gpu.picks : gpu.picks[i].mesh = i
      /\ gpu.uniforms = [i \in DOMAIN gpu.picks |->
                           [world |-> gpu.picks[i].world, highlight |-> IF gpu.picks[i].node = gpu.highlighted THEN 1 ELSE 0]]
  BY DEF SceneInv, Consistent
<1>2. gpu.meshes \in Seq(Boxes) /\ gpu.uniforms \in Seq(Uniform) /\ gpu.picks \in Seq(Parted)
  BY <1>1 DEF Renderers
<1>3. PICK n \in Nat : n = Len(gpu.picks) /\ DOMAIN gpu.picks = 1..n /\ \A i \in 1..n : gpu.picks[i] \in Parted
  <2>1. Len(gpu.picks) \in Nat /\ DOMAIN gpu.picks = 1..Len(gpu.picks) /\ \A i \in 1..Len(gpu.picks) : gpu.picks[i] \in Parted
    BY <1>2
  <2> QED BY ONLY <2>1
<1>4. Len(gpu.uniforms) = n
  <2>1. gpu.uniforms \in [1..n -> Uniform]
    <3>1. DOMAIN gpu.uniforms = 1..n
      BY <1>1, <1>3
    <3>2. gpu.uniforms \in [1..Len(gpu.uniforms) -> Uniform] /\ DOMAIN gpu.uniforms = 1..Len(gpu.uniforms)
      BY <1>2, LenProperties
    <3> QED BY ONLY <3>1, <3>2
  <2> QED BY <2>1, ListIsSeq
<1>5. Min({Len(gpu.uniforms), Len(gpu.meshes)}) = n
  <2>1. {Len(gpu.uniforms), Len(gpu.meshes)} = {n} /\ n \in {n} /\ {n} \subseteq Int /\ \A y \in {n} : n <= y
    BY <1>1, <1>3, <1>4
  <2> QED BY ONLY <2>1, LeastOf
<1>6. DrawAll = [i \in 1..n |-> [box |-> MovedBox(gpu.meshes[i], gpu.uniforms[i].world), highlight |-> gpu.uniforms[i].highlight]]
  BY <1>5 DEF DrawAll
<1>7. Len(DrawAll) = n
  <2>1. PICK S : S = {DrawAll[i] : i \in 1..n}
    OBVIOUS
  <2>2. DrawAll \in [1..n -> S]
    BY <1>6, <2>1
  <2> QED BY <2>2, ListIsSeq
<1>8. ASSUME NEW i \in 1..n
      PROVE  DrawAll[i].box = Drawn(i) /\ DrawAll[i].highlight = IF gpu.picks[i].node = gpu.highlighted THEN 1 ELSE 0
  <2>1. gpu.picks[i].mesh = i /\ gpu.uniforms[i].world = gpu.picks[i].world
        /\ gpu.uniforms[i].highlight = IF gpu.picks[i].node = gpu.highlighted THEN 1 ELSE 0
    BY <1>1, <1>3
  <2> QED BY <1>6, <2>1 DEF Drawn
<1>9. \A m \in {gpu.picks[i].node : i \in DOMAIN gpu.picks} : m \in DOMAIN assembly
  BY <1>1, <1>3 DEF Parted
<1> QED BY <1>3, <1>7, <1>8, <1>9 DEF SelectionIsShown

\* Nothing in view is culled, and what is left is in one batch.
LEMMA CullingShows ==
  ASSUME SceneInv
  PROVE  CullingKeepsTheSeen
<1>1. camera \in Cameras /\ gpu \in Renderers /\ Len(gpu.meshes) = Len(gpu.picks) /\ \A i \in DOMAIN gpu.picks : gpu.picks[i].mesh = i
  BY DEF SceneInv, Consistent
<1>2. gpu.meshes \in Seq(Boxes) /\ gpu.picks \in Seq(Parted)
  BY <1>1 DEF Renderers
<1>3. PICK n \in Nat : n = Len(gpu.picks) /\ DOMAIN gpu.picks = 1..n /\ n = Len(gpu.meshes)
                       /\ \A i \in 1..n : gpu.picks[i] \in Parted /\ gpu.meshes[i] \in Boxes
  <2>1. Len(gpu.picks) \in Nat /\ DOMAIN gpu.picks = 1..Len(gpu.picks) /\ \A i \in 1..Len(gpu.picks) : gpu.picks[i] \in Parted
    BY <1>2
  <2>2. \A i \in 1..Len(gpu.meshes) : gpu.meshes[i] \in Boxes
    BY <1>2
  <2> QED BY ONLY <1>1, <2>1, <2>2
<1>4. PICK boxes : boxes = [i \in DOMAIN gpu.picks |-> Drawn(i)]
  OBVIOUS
<1>5. ASSUME NEW i \in 1..n PROVE boxes[i] \in Boxes
  <2>1. gpu.picks[i].mesh = i /\ gpu.picks[i].world \in Point3 /\ gpu.meshes[i] \in Boxes
    BY <1>1, <1>3 DEF Parted
  <2>2. MovedBox(gpu.meshes[i], gpu.picks[i].world) \in Boxes
    BY <2>1, MovedIsBox
  <2> QED BY <1>3, <1>4, <2>1, <2>2 DEF Drawn
<1>6. PICK kept : kept = {i \in DOMAIN boxes : IntersectsAabb(boxes[i])}
  OBVIOUS
<1>7. DOMAIN boxes = 1..n
  BY <1>3, <1>4
<1>8. ASSUME NEW i \in DOMAIN boxes, NEW p \in PointsOf(boxes[i]), InView(p) PROVE i \in kept
  BY <1>1, <1>5, <1>6, <1>7, <1>8, SeenIsKept
<1>9. IsFiniteSet(kept)
  <2>1. kept \subseteq 1..n /\ IsFiniteSet(1..n)
    BY <1>6, <1>7, FS_Interval
  <2> QED BY <2>1, FS_Subset
<1>10. PICK key : key = [i \in DOMAIN boxes |-> <<gpu.picks[i].mesh, SelectLod(boxes[i])>>]
  OBVIOUS
<1>11. CullAndBatch(boxes) = [k \in {key[i] : i \in kept} |-> Cardinality(With(kept, key, k))]
  <2>1. CullAndBatch(boxes) = [k \in {<<gpu.picks[i].mesh, SelectLod(boxes[i])>> : i \in kept} |->
                                 Cardinality({i \in kept : <<gpu.picks[i].mesh, SelectLod(boxes[i])>> = k})]
    BY <1>6, Zenon DEF CullAndBatch
  <2>2. \A i \in kept : key[i] = <<gpu.picks[i].mesh, SelectLod(boxes[i])>>
    BY <1>6, <1>10
  <2>3. {<<gpu.picks[i].mesh, SelectLod(boxes[i])>> : i \in kept} = {key[i] : i \in kept}
    BY <2>2
  <2>4. \A k : {i \in kept : <<gpu.picks[i].mesh, SelectLod(boxes[i])>> = k} = With(kept, key, k)
    BY <2>2 DEF With
  <2> QED BY ONLY <2>1, <2>3, <2>4
<1>12. SumFunction(CullAndBatch(boxes)) = Cardinality(kept)
  BY <1>9, <1>11, CountsAddUp
<1> QED BY <1>4, <1>6, <1>8, <1>12, Zenon DEF CullingKeepsTheSeen

\* After any moves, uploads, selections and turns of the camera, what the user
\* sees and what the renderer keeps agree (renderer.rs:322, culling.rs:118).
THEOREM SceneStaysShown == SceneSpec => []SceneIsShown
<1>1. SceneInv => SceneIsShown
  BY SelectionShows, CullingShows DEF SceneIsShown
<1> QED BY <1>1, SceneStarts, SceneSteps, PTL DEF SceneSpec
=============================================================================
