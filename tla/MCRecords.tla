----------------------------- MODULE MCRecords ------------------------------
(* Instances of what is kept about printers (the desktop application) and     *)
(* about people (the platform). The two share no state: a behaviour is one of *)
(* `machine`, and the other rests.                                            *)
EXTENDS SlicerSession, Workspace, TLC
CONSTANTS p1, p2, d1, h1, h2, u1, u2, t1, t2, o1, o2

VARIABLE machine

\* Two printers of one name are found: discoveredPrinterToTarget() gives both
\* the same id.
SameName == {[id |-> d1, host |-> h1], [id |-> d1, host |-> h2]}
KindOfHost == [h \in Host |-> IF h = h1 THEN "esp3d" ELSE "moonraker"]

TwoLevels == {Viewer, Owner}

\* Salts of one character and of two, and none with "$", which locks its account out.
PlainSalts == {<<"x">>, <<"x", "y">>}

vars == <<machine, sessionVars, workspaceVars>>

Init ==
    /\ machine \in {"printers", "people"}
    /\ SessionInit /\ WorkspaceInit
    /\ machine = "printers" \/ (desk.file = <<>> /\ keyring)

Next ==
    \/ machine = "printers" /\ SessionNext /\ UNCHANGED <<machine, workspaceVars>>
    \/ machine = "people" /\ WorkspaceNext /\ UNCHANGED <<machine, sessionVars>>

Spec == Init /\ [][Next]_vars

--------------------------------------------------------------------------
(* Bounds.                                                                  *)

\* Two calls of the panels wait for their answers at most.
TwoCalls == Len(calls) <= 2

\* Ids are interchangeable: those numbered 1 are used first. The project is one
\* of the first organization, and the second has teams only.
InOrder ==
    /\ u2 \in DOMAIN users => u1 \in DOMAIN users
    /\ t2 \in DOMAIN teams => t1 \in DOMAIN teams
    /\ o2 \notin DOMAIN orgs
    /\ project # <<>> => project[1].org = o1

\* Accounts and organizations are tried apart, as no action touches both; and
\* the project has two grants at a time.
Apart == DOMAIN users = {} \/ (DOMAIN orgs \cup DOMAIN teams = {} /\ project = <<>>)

TwoGrants ==
    project # <<>> => Cardinality(DOMAIN project[1].user_grants) + Cardinality(DOMAIN project[1].team_grants) <= 2
=============================================================================
