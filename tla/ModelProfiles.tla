--------------------------- MODULE ModelProfiles ---------------------------
(***************************************************************************)
(* The model profiles administrators keep in the store, of which one is    *)
(* the default every chat without a choice of its own runs with.  Each     *)
(* mutation is one transaction of PostgreSQL at READ COMMITTED: its SELECT *)
(* FOR UPDATE waits for the rows the statement sees and reads them again   *)
(* once it holds them, but never sees a row inserted after it began.       *)
(***************************************************************************)
EXTENDS Naturals, FiniteSets

CONSTANTS Profiles, Admins     \* ids the store may generate; requests at once

VARIABLES
    stored, enabled, default,  \* the rows, and those with either flag set
    used,                      \* the ids handed out so far
    request                    \* the transaction of each administrator

profileVars == <<stored, enabled, default, used, request>>

NoRequest == [at |-> "idle", op |-> "none", id |-> {}, wants |-> {}, rows |-> {}, on |-> {}, def |-> {}]
Flags == {{}, {"enabled"}, {"default"}, {"enabled", "default"}}

Transactions ==
    [at : {"idle", "select", "write"}, op : {"none", "create", "update", "delete"},
     id : Profiles \cup {{}}, wants : Flags, rows : SUBSET Profiles,
     on : SUBSET Profiles, def : SUBSET Profiles]

\* Types of the rows and of the transactions; the flags are those of stored rows,
\* and the unique index holds.
ProfilesTypeOK ==
    /\ stored \subseteq used /\ used \subseteq Profiles
    /\ enabled \subseteq stored /\ default \subseteq stored /\ Cardinality(default) <= 1
    /\ request \in [Admins -> Transactions]
    /\ \A a \in Admins : request[a].rows \subseteq used

ProfilesInit ==
    /\ stored = {} /\ enabled = {} /\ default = {} /\ used = {}
    /\ request = [a \in Admins |-> NoRequest]
-----------------------------------------------------------------------------
\* The SELECT begins, over the rows committed by now. A new profile has an id
\* nobody else has.
BeginProfile(a, op, p, wants) ==
    /\ request[a] = NoRequest
    /\ IF op = "create" THEN p \notin used ELSE p \in stored
    /\ used' = used \cup {p}
    /\ request' = [request EXCEPT ![a] =
                     [NoRequest EXCEPT !.at = "select", !.op = op, !.id = p, !.wants = wants, !.rows = stored]]
    /\ UNCHANGED <<stored, enabled, default>>

LockedRows == UNION {request[a].rows : a \in {b \in Admins : request[b].at = "write"}}

Read(a) ==
    /\ request[a].at = "select"
    /\ LET rows == request[a].rows \cap stored IN
       request' = [request EXCEPT ![a] = [@ EXCEPT !.at = "write", !.rows = rows,
                                            !.on = rows \cap enabled, !.def = rows \cap default]]
    /\ UNCHANGED <<stored, enabled, default, used>>
\* Mutant: the rows are read without FOR UPDATE.
SelectUnlocked(a) == Read(a)
\* It has waited for whoever held one of its rows; deleted ones drop out.
Select(a) == request[a].rows \cap LockedRows = {} /\ Read(a)

\* The checks that refuse the change. The default may be given up only to
\* nobody: when the profile is disabled too and no other is enabled.
Others(a) == request[a].on \ {request[a].id}
Refused(a) ==
    LET q == request[a] IN
    CASE q.op = "create" -> q.wants = {"default"}
      [] q.op = "update" -> \/ q.id \notin q.rows \/ q.wants = {"default"}
                            \/ /\ q.id \in q.def /\ "default" \notin q.wants
                               /\ q.wants = {"enabled"} \/ Others(a) # {}
      [] q.op = "delete" -> \/ q.id \notin q.rows
                            \/ q.id \in q.def /\ Others(a) # {}

\* The first enabled profile is promoted; whoever was seen with the flag loses it.
TakesDefault(a) ==
    \/ "default" \in request[a].wants
    \/ "enabled" \in request[a].wants /\ Others(a) = {}
DefaultAfter(a) ==
    LET q == request[a] IN
    CASE q.op = "delete" -> default \ {q.id}
      [] TakesDefault(a) -> (default \ q.def) \cup {q.id}
      [] OTHER           -> default \ {q.id}

\* The writes and the commit, which uq_model_profiles_default lets pass.
CommitProfile(a) ==
    LET q == request[a]  gone == q.op = "delete" IN
    /\ q.at = "write" /\ ~Refused(a) /\ Cardinality(DefaultAfter(a)) <= 1
    /\ stored' = IF gone THEN stored \ {q.id} ELSE stored \cup {q.id}
    /\ enabled' = IF ~gone /\ "enabled" \in q.wants THEN enabled \cup {q.id} ELSE enabled \ {q.id}
    /\ default' = DefaultAfter(a)
    /\ request' = [request EXCEPT ![a] = NoRequest]
    /\ UNCHANGED used
\* Refused, or stopped by the index, by a name that is taken, or by its process.
RollbackProfile(a) ==
    /\ request[a].at # "idle"
    /\ request' = [request EXCEPT ![a] = NoRequest]
    /\ UNCHANGED <<stored, enabled, default, used>>

ProfilesNext ==
    \E a \in Admins :
        \/ \E p \in Profiles, w \in Flags : BeginProfile(a, "create", p, w) \/ BeginProfile(a, "update", p, w)
        \/ \E p \in Profiles : BeginProfile(a, "delete", p, {})
        \/ Select(a) \/ CommitProfile(a) \/ RollbackProfile(a)

ProfilesSpec == ProfilesInit /\ [][ProfilesNext]_profileVars
-----------------------------------------------------------------------------
\* "When any enabled profiles exist, exactly one is enabled and default" (STO-011):
\* without it every chat that follows the default is refused. The code does not
\* keep it: a profile created while the only other one is given up is not seen.
OneDefault == enabled = {} \/ (default # {} /\ default \subseteq enabled)

\* What the locks do keep: a change that saw every row leaves an enabled default.
SeenAllKeepsDefault ==
    [][\A a \in Admins :
         OneDefault /\ stored \subseteq request[a].rows /\ CommitProfile(a) => OneDefault']_profileVars
=============================================================================
