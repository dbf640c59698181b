----------------------------- MODULE Workspace ------------------------------
(* The platform (platform/src): accounts and sessions, organizations, teams   *)
(* and projects in a store, and the permission that a user has on a project.  *)
(*                                                                            *)
(* Text is a sequence of characters only where the code cuts it: a salt and   *)
(* the stored hash, at "$". An address is known by its lower-case form and    *)
(* by how it was written. Ids come from the caller, who gives fresh ones.     *)
EXTENDS Integers, Sequences, FiniteSets, SequencesExt

CONSTANTS
    User, Email,          \* ids of users; lower-case addresses
    Password, Salt,       \* passwords; salts, as sequences of characters
    Session, Org, Team,   \* ids
    Granted               \* the levels that are granted

\* Levels, in their order; None is no permission.
None == 0
Viewer == 1
Editor == 2
Owner == 3
Level == Viewer..Owner

ASSUME WorkspaceAssumption == Salt \subseteq Seq(STRING) /\ Granted \subseteq Level

VARIABLES
    users,     \* accounts: [email, hash]
    index,     \* the user of an address
    sessions,  \* the user of a session
    orgs,      \* per organization, its members
    teams,     \* [org, members]
    project,   \* the project: [org, default, user_grants, team_grants]
    secret     \* the password each user chose, nowhere in the program

accounts == <<users, index, sessions, secret>>
sharing == <<orgs, teams, project>>
workspaceVars == <<accounts, sharing>>

--------------------------------------------------------------------------
(* Accounts (auth.rs, storage.rs).                                          *)

Dollar == "$"
Spelling == [lower: Email, upper: BOOLEAN]

\* Addresses are looked up in lower case.
Lower(e) == e.lower

\* The salt is repeated or cut to a fixed length, here 2.
DeriveSalt(salt) ==
    LET input == IF salt = <<>> THEN <<"default">> ELSE salt
    IN  [i \in 1..2 |-> input[((i - 1) % Len(input)) + 1]]

Digest(password, salt) == <<password, DeriveSalt(salt)>>

\* "{salt}${hash}": text up to the digest, which has no "$" in it.
HashPassword(password, salt) == [text |-> Append(salt, Dollar), digest |-> Digest(password, salt)]

FirstDollar(text) == SelectInSeq(text, LAMBDA c : c = Dollar)

\* A mutation of SaltOf: the salt keeps its separator.
SaltOfWith(text) == SubSeq(text, 1, FirstDollar(text))

\* split_once('$'): the salt is what stands before the first "$".
SaltOf(text) == SubSeq(text, 1, FirstDollar(text) - 1)

VerifyPassword(password, stored) ==
    /\ FirstDollar(stored.text) = Len(stored.text)
    /\ stored.digest = Digest(password, SaltOf(stored.text))

UserByEmail(e) == {u \in DOMAIN users : Lower(e) \in DOMAIN index /\ index[Lower(e)] = u}

Put(f, key, value) == [k \in DOMAIN f \cup {key} |-> IF k = key THEN value ELSE f[k]]
Drop(f, key) == [k \in DOMAIN f \ {key} |-> f[k]]

\* Short passwords are rejected: Password has the acceptable ones.
SignUp(id, e, password, salt) ==
    /\ id \notin DOMAIN users
    /\ UserByEmail(e) = {}
    /\ users' = Put(users, id, [email |-> e, hash |-> HashPassword(password, salt)])
    /\ index' = Put(index, Lower(e), id)
    /\ secret' = Put(secret, id, password)
    /\ UNCHANGED <<sessions, sharing>>

LogIn(session, e, password) ==
    /\ session \notin DOMAIN sessions
    /\ \E u \in UserByEmail(e) :
          /\ VerifyPassword(password, users[u].hash)
          /\ sessions' = Put(sessions, session, u)
    /\ UNCHANGED <<users, index, secret, sharing>>

LogOut(session) == sessions' = Drop(sessions, session) /\ UNCHANGED <<users, index, secret, sharing>>

--------------------------------------------------------------------------
(* Organizations, teams and the project (org.rs, project.rs, lib.rs).       *)

\* A mutation of MaxLevel: the second of the two.
MaxLevelLast(a, b) == b

MaxLevel(a, b) == IF a >= b THEN a ELSE b

TeamsOfOrg(o) == {t \in DOMAIN teams : teams[t].org = o}

Grant(grants, id) == IF id \in DOMAIN grants THEN grants[id] ELSE None

\* No grant is not compared.
Higher(level, best) == IF level = None THEN best ELSE MaxLevel(best, level)
HighestOf(base, levels) == FoldSeq(Higher, base, levels)

\* effective_permission(): the grants that apply are visited in turn, the
\* user's, those of teams the user is in, and the default for members.
EffectivePermission(u, p, ts) ==
    LET byTeam == [i \in 1..Len(ts) |-> IF u \in teams[ts[i]].members THEN Grant(p.team_grants, ts[i]) ELSE None]
        byOrg  == IF u \in orgs[p.org] THEN p.default ELSE None
    IN  HighestOf(Grant(p.user_grants, u), Append(byTeam, byOrg))

\* permission_for(): the teams come in the order of a hash map.
PermissionFor(u) ==
    IF project = <<>> \/ project[1].org \notin DOMAIN orgs THEN None
    ELSE EffectivePermission(u, project[1], SetToSeq(TeamsOfOrg(project[1].org)))

CreateOrg(o, owner) ==
    /\ o \notin DOMAIN orgs
    /\ orgs' = Put(orgs, o, {owner})
    /\ UNCHANGED <<accounts, teams, project>>

SetMember(o, u) ==
    /\ o \in DOMAIN orgs
    /\ orgs' = [orgs EXCEPT ![o] = @ \cup {u}]
    /\ UNCHANGED <<accounts, teams, project>>

\* Teams and grants of the user stay as they are.
RemoveMember(o, u) ==
    /\ o \in DOMAIN orgs
    /\ orgs' = [orgs EXCEPT ![o] = @ \ {u}]
    /\ UNCHANGED <<accounts, teams, project>>

CreateTeam(t, o) ==
    /\ t \notin DOMAIN teams
    /\ teams' = Put(teams, t, [org |-> o, members |-> {}])
    /\ UNCHANGED <<accounts, orgs, project>>

\* Nobody asks whether the user is in the team's organization.
AddToTeam(t, u) ==
    /\ t \in DOMAIN teams
    /\ teams' = [teams EXCEPT ![t].members = @ \cup {u}]
    /\ UNCHANGED <<accounts, orgs, project>>

RemoveFromTeam(t, u) ==
    /\ t \in DOMAIN teams
    /\ teams' = [teams EXCEPT ![t].members = @ \ {u}]
    /\ UNCHANGED <<accounts, orgs, project>>

CreateProject(o, creator) ==
    /\ project = <<>>
    /\ project' = <<[org |-> o, default |-> None, user_grants |-> [u \in {creator} |-> Owner], team_grants |-> <<>>]>>
    /\ UNCHANGED <<accounts, orgs, teams>>

Change(p) == project # <<>> /\ project' = <<p>> /\ UNCHANGED <<accounts, orgs, teams>>

ShareWithUser(u, level) == Change([project[1] EXCEPT !.user_grants = Put(@, u, level)])
ShareWithTeam(t, level) == Change([project[1] EXCEPT !.team_grants = Put(@, t, level)])
UnshareUser(u) == Change([project[1] EXCEPT !.user_grants = Drop(@, u)])
UnshareTeam(t) == Change([project[1] EXCEPT !.team_grants = Drop(@, t)])
SetDefault(level) == Change([project[1] EXCEPT !.default = level])

--------------------------------------------------------------------------
WorkspaceInit ==
    /\ users = <<>> /\ index = <<>> /\ sessions = <<>> /\ secret = <<>>
    /\ orgs = <<>> /\ teams = <<>> /\ project = <<>>

AccountStep ==
    \/ \E id \in User, e \in Spelling, password \in Password, salt \in Salt : SignUp(id, e, password, salt)
    \/ \E s \in Session, e \in Spelling, password \in Password : LogIn(s, e, password)
    \/ \E s \in Session : LogOut(s)

SharingStep ==
    \/ \E o \in Org, u \in User : CreateOrg(o, u) \/ CreateProject(o, u)
    \/ \E o \in Org, u \in User : SetMember(o, u) \/ RemoveMember(o, u)
    \/ \E t \in Team, o \in Org : CreateTeam(t, o)
    \/ \E t \in Team, u \in User : AddToTeam(t, u) \/ RemoveFromTeam(t, u)
    \/ \E u \in User, level \in Granted : ShareWithUser(u, level)
    \/ \E t \in Team, level \in Granted : ShareWithTeam(t, level)
    \/ \E u \in User : UnshareUser(u)
    \/ \E t \in Team : UnshareTeam(t)
    \/ \E level \in Granted \cup {None} : SetDefault(level)

WorkspaceNext == AccountStep \/ SharingStep

WorkspaceSpec == WorkspaceInit /\ [][WorkspaceNext]_workspaceVars

--------------------------------------------------------------------------
(* Correctness.                                                             *)

\* Accounts, their addresses and their sessions belong together: an address
\* has one account, in whatever case it was written, and a session is one of
\* an account.
AccountsConsistent ==
    /\ \A u \in DOMAIN users : index[Lower(users[u].email)] = u
    /\ \A u, v \in DOMAIN users : users[u].email.lower = users[v].email.lower => u = v
    /\ \A s \in DOMAIN sessions : sessions[s] \in DOMAIN users

\* Whoever signed up can log in with the password chosen then, and with no
\* other one, whatever the salt (auth.rs:62, "callers may pass any stable,
\* non-secret string").
CredentialsWork ==
    \A u \in DOMAIN users, password \in Password :
        VerifyPassword(password, users[u].hash) <=> password = secret[u]

\* An account is one person's and stays it, through any spelling and any salt.
AccountsWork == AccountsConsistent /\ CredentialsWork

\* The permission is the highest of the grants that apply: to the user, to a
\* team of the project's organization with the user in it, and to members.
PermissionIsHighest ==
    project # <<>> /\ project[1].org \in DOMAIN orgs =>
        \A u \in User :
            LET p == project[1]
                applies == {Grant(p.user_grants, u)}
                           \cup {Grant(p.team_grants, t) : t \in {t \in DOMAIN teams : teams[t].org = p.org /\ u \in teams[t].members}}
                           \cup (IF u \in orgs[p.org] THEN {p.default} ELSE {})
            IN  PermissionFor(u) \in applies \cup {None} /\ \A level \in applies : level <= PermissionFor(u)
=============================================================================
