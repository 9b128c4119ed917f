---------------------------- MODULE ReportSpaces ----------------------------
(***************************************************************************)
(* Reports and the spaces they are filed in.  A request validates against  *)
(* what it reads, and a later transaction writes: the two transactions     *)
(* that decide by a report's own row lock it, deleting a space does not    *)
(* lock what it looks at.                                                  *)
(***************************************************************************)
EXTENDS Naturals

CONSTANTS Reports, Spaces, NoSpace, Users  \* Users: requests at once

VARIABLES
    space,    \* of each space: "free", "kept" or "deleted"
    scope,    \* of each report: "free", "private", "public" or "deleted"
    filed,    \* the space each report is filed in
    ask       \* the request of each user

spaceVars == <<space, scope, filed, ask>>

NoAsk == [op |-> "none", at |-> "idle", report |-> {}, space |-> NoSpace, seen |-> "none"]
Kept(r) == scope[r] \in {"private", "public"}
Locked(r) == \E u \in Users : ask[u].at = "locked" /\ ask[u].report = r

Requests ==
    [op : {"none", "file", "private", "create", "delete"}, at : {"idle", "checked", "locked", "empty"},
     report : Reports \cup {{}}, space : Spaces \cup {NoSpace},
     seen : {"none", "private", "public", "unfiled", "filed"}]

\* Types of the rows and of the requests; one transaction has a report's row.
SpacesTypeOK ==
    /\ space \in [Spaces -> {"free", "kept", "deleted"}]
    /\ scope \in [Reports -> {"free", "private", "public", "deleted"}]
    /\ filed \in [Reports -> Spaces \cup {NoSpace}]
    /\ ask \in [Users -> Requests]
    /\ \A u, v \in Users :
          ask[u].at = "locked" /\ ask[v].at = "locked" /\ ask[u].report = ask[v].report => u = v

SpacesInit ==
    /\ space = [s \in Spaces |-> "free"] /\ scope = [r \in Reports |-> "free"]
    /\ filed = [r \in Reports |-> NoSpace]
    /\ ask = [u \in Users |-> NoAsk]
-----------------------------------------------------------------------------
Asks(u, op, r, s) ==
    /\ ask[u] = NoAsk
    /\ ask' = [ask EXCEPT ![u] = [NoAsk EXCEPT !.op = op, !.at = "checked", !.report = r, !.space = s]]
Ends(u) == ask' = [ask EXCEPT ![u] = NoAsk]
Rows == <<space, scope, filed>>

CreateSpace(s) ==
    /\ space[s] = "free"
    /\ space' = [space EXCEPT ![s] = "kept"]
    /\ UNCHANGED <<scope, filed, ask>>

\* resolve_report_space, and the check of the report the error message is from.
\* A clone takes the space of its source without looking for it.
Found == {NoSpace} \cup {s \in Spaces : space[s] = "kept"}
AskFile(u, r, s) ==
    /\ s \in Found /\ Kept(r) /\ (s # NoSpace => scope[r] = "public")
    /\ Asks(u, "file", r, s) /\ UNCHANGED Rows
AskPrivate(u, r) ==
    /\ Kept(r) /\ filed[r] = NoSpace
    /\ Asks(u, "private", r, NoSpace) /\ UNCHANGED Rows
AskCreate(u, r, s) ==
    /\ scope[r] = "free" /\ \A v \in Users : ask[v].op = "create" => ask[v].report # r
    /\ s \in Found \cup {filed[source] : source \in {q \in Reports : Kept(q)}}
    /\ Asks(u, "create", r, s) /\ UNCHANGED Rows
AskDelete(u, s) == space[s] = "kept" /\ Asks(u, "delete", {}, s) /\ UNCHANGED Rows

\* create_report: inside a space it is public, elsewhere a draft.
CreateReport(u) ==
    LET a == ask[u] IN
    /\ a.op = "create"
    /\ scope' = [scope EXCEPT ![a.report] = IF a.space = NoSpace THEN "private" ELSE "public"]
    /\ filed' = [filed EXCEPT ![a.report] = a.space]
    /\ Ends(u) /\ UNCHANGED space

\* What the row says decides the write.
Sees(u) ==
    LET a == ask[u] IN
    /\ a.op \in {"file", "private"} /\ a.at = "checked" /\ Kept(a.report)
    /\ ask' = [ask EXCEPT ![u].at = "locked",
                          ![u].seen = IF a.op = "file" THEN scope[a.report]
                                      ELSE IF filed[a.report] = NoSpace THEN "unfiled" ELSE "filed"]
    /\ UNCHANGED Rows
\* Mutant: the row is read without FOR UPDATE.
SeeUnlocked(u) == Sees(u)
\* _locked_report: nobody writes the row until this transaction ends.
SeeLocked(u) == ~Locked(ask[u].report) /\ Sees(u)

\* update_report_space: nothing private is filed.
FileReport(u) ==
    LET a == ask[u] IN
    /\ a.op = "file" /\ a.at = "locked"
    /\ a.space = NoSpace \/ a.seen = "public"
    /\ filed' = [filed EXCEPT ![a.report] = a.space]
    /\ Ends(u) /\ UNCHANGED <<space, scope>>
\* update_report_visibility: nothing filed is made private.
Unpublish(u) ==
    LET a == ask[u] IN
    /\ a.op = "private" /\ a.at = "locked" /\ a.seen = "unfiled"
    /\ scope' = [scope EXCEPT ![a.report] = "private"]
    /\ Ends(u) /\ UNCHANGED <<space, filed>>
Publish(r) ==
    /\ scope[r] = "private" /\ ~Locked(r)
    /\ scope' = [scope EXCEPT ![r] = "public"]
    /\ UNCHANGED <<space, filed, ask>>
DeleteReport(r) ==
    /\ Kept(r) /\ ~Locked(r)
    /\ scope' = [scope EXCEPT ![r] = "deleted"] /\ filed' = [filed EXCEPT ![r] = NoSpace]
    /\ UNCHANGED <<space, ask>>
\* A conflict, a row that is gone, or a request that dies.
Refuse(u) == ask[u] # NoAsk /\ Ends(u) /\ UNCHANGED Rows

\* delete_space: no report was in it when it looked ...
LookInside(u) ==
    /\ ask[u].op = "delete" /\ ask[u].at = "checked" /\ space[ask[u].space] = "kept"
    /\ \A r \in Reports : filed[r] # ask[u].space
    /\ ask' = [ask EXCEPT ![u].at = "empty"]
    /\ UNCHANGED Rows
\* ... and it goes.
DeleteSpace(u) ==
    /\ ask[u].op = "delete" /\ ask[u].at = "empty" /\ space[ask[u].space] = "kept"
    /\ space' = [space EXCEPT ![ask[u].space] = "deleted"]
    /\ Ends(u) /\ UNCHANGED <<scope, filed>>

SpacesNext ==
    \/ \E s \in Spaces : CreateSpace(s)
    \/ \E r \in Reports : Publish(r) \/ DeleteReport(r)
    \/ \E u \in Users :
        \/ \E r \in Reports : AskPrivate(u, r)
        \/ \E r \in Reports, s \in Spaces \cup {NoSpace} : AskFile(u, r, s) \/ AskCreate(u, r, s)
        \/ \E s \in Spaces : AskDelete(u, s)
        \/ CreateReport(u) \/ SeeLocked(u) \/ FileReport(u) \/ Unpublish(u) \/ Refuse(u)
        \/ LookInside(u) \/ DeleteSpace(u)

SpacesSpec == SpacesInit /\ [][SpacesNext]_spaceVars
-----------------------------------------------------------------------------
\* "A report filed in a space is public" (SPC-002), whatever requests file and
\* unpublish it at once. A private member would block the deletion of the space
\* for everyone who cannot see it.
MembersArePublic == \A r \in Reports : Kept(r) /\ filed[r] # NoSpace => scope[r] = "public"

\* delete_space: "a member report the caller cannot see still keeps the space
\* non-empty, so deleting cannot orphan it". The code does not keep it: a report
\* is filed, or created, in the space between the look and the deletion.
NoneOrphaned == \A r \in Reports : Kept(r) /\ filed[r] # NoSpace => space[filed[r]] = "kept"
=============================================================================
