----------------------------- MODULE StoreProofs -----------------------------
(***************************************************************************)
(* Proofs about ReportSpaces, ModelProfiles, PluginPackages,               *)
(* GatewayAccess and ActionConfirmations, for any number of requests, tool *)
(* calls and confirmations at once: what overlapping requests may do to    *)
(* the rows, or to the cached token, that they share.                      *)
(***************************************************************************)
EXTENDS ReportSpaces, ModelProfiles, PluginPackages, GatewayAccess, ActionConfirmations,
        FiniteSetTheorems, TLAPS

-----------------------------------------------------------------------------
(* Reports and spaces.                                                     *)

\* What a request that has a report's row read there is still so.
ReadingHolds(u) ==
    LET a == ask[u] IN
    a.at = "locked" =>
        /\ a.report \in Reports /\ Kept(a.report)
        /\ \/ a.op = "file" /\ a.seen = scope[a.report]
           \/ /\ a.op = "private"
              /\ a.seen = IF filed[a.report] = NoSpace THEN "unfiled" ELSE "filed"

\* A report that is being created is nobody else's.
CreatesFree(u) ==
    ask[u].op = "create" =>
        /\ scope[ask[u].report] = "free" /\ ask[u].at = "checked"
        /\ \A v \in Users : ask[v].op = "create" /\ ask[v].report = ask[u].report => u = v

\* A request about a report names one.
NamesReport(u) == ask[u].op \in {"file", "private", "create"} => ask[u].report \in Reports

SpacesInv ==
    /\ SpacesTypeOK /\ MembersArePublic
    /\ \A u \in Users : ReadingHolds(u) /\ CreatesFree(u) /\ NamesReport(u)

\* The invariant holds of an empty store.
LEMMA SpacesInitial == SpacesInit => SpacesInv
BY DEF SpacesInit, SpacesInv, SpacesTypeOK, Requests, NoAsk, MembersArePublic, Kept,
       ReadingHolds, CreatesFree, NamesReport

\* A request that begins about a report nobody creates keeps it.
LEMMA AskKeeps ==
    ASSUME SpacesInv, NEW u \in Users, NEW op \in {"file", "private", "create", "delete"},
           NEW r \in Reports \cup {{}}, NEW s \in Spaces \cup {NoSpace},
           Asks(u, op, r, s), UNCHANGED Rows,
           op # "delete" => r \in Reports,
           op = "create" => /\ scope[r] = "free"
                            /\ \A v \in Users : ask[v].op = "create" => ask[v].report # r
    PROVE  SpacesInv'
<1> DEFINE a == [NoAsk EXCEPT !.op = op, !.at = "checked", !.report = r, !.space = s]
<1>1. /\ a \in Requests /\ a.op = op /\ a.at = "checked" /\ a.report = r
      /\ ask' = [ask EXCEPT ![u] = a] /\ space' = space /\ scope' = scope /\ filed' = filed
  BY DEF Asks, Requests, NoAsk, Rows
<1> HIDE DEF a
<1>2. /\ ask' \in [Users -> Requests] /\ ask'[u] = a
      /\ \A v \in Users \ {u} : ask'[v] = ask[v]
  BY <1>1 DEF SpacesInv, SpacesTypeOK
<1>3. SpacesTypeOK' /\ MembersArePublic'
  BY <1>1, <1>2 DEF SpacesInv, SpacesTypeOK, MembersArePublic, Kept
<1>4. ASSUME NEW v \in Users PROVE ReadingHolds(v)' /\ CreatesFree(v)' /\ NamesReport(v)'
  BY <1>1, <1>2 DEF SpacesInv, ReadingHolds, CreatesFree, NamesReport, Kept
<1> QED BY <1>3, <1>4 DEF SpacesInv

\* Every step keeps it.
LEMMA SpacesNextKeeps == SpacesInv /\ [SpacesNext]_spaceVars => SpacesInv'
<1> SUFFICES ASSUME SpacesInv, [SpacesNext]_spaceVars PROVE SpacesInv'
  OBVIOUS
<1> USE DEF SpacesInv, SpacesTypeOK, Requests, NoAsk, MembersArePublic, Kept,
            ReadingHolds, CreatesFree, NamesReport, Rows, Ends, Asks
<1>1. ASSUME NEW s \in Spaces, CreateSpace(s) PROVE SpacesInv'
  BY <1>1 DEF CreateSpace
<1>2. ASSUME NEW r \in Reports, Publish(r) PROVE SpacesInv'
  BY <1>2 DEF Publish, Locked
<1>3. ASSUME NEW r \in Reports, DeleteReport(r) PROVE SpacesInv'
  BY <1>3 DEF DeleteReport, Locked
<1>4. ASSUME NEW u \in Users,
             \/ \E r \in Reports : AskPrivate(u, r)
             \/ \E r \in Reports, s \in Spaces \cup {NoSpace} : AskFile(u, r, s) \/ AskCreate(u, r, s)
             \/ \E s \in Spaces : AskDelete(u, s)
      PROVE  SpacesInv'
  <2>1. ASSUME NEW r \in Reports, NEW s \in Spaces \cup {NoSpace}, AskFile(u, r, s) PROVE SpacesInv'
    BY <2>1, AskKeeps DEF AskFile
  <2>2. ASSUME NEW r \in Reports, NEW s \in Spaces \cup {NoSpace}, AskCreate(u, r, s) PROVE SpacesInv'
    BY <2>2, AskKeeps DEF AskCreate
  <2>3. ASSUME NEW r \in Reports, AskPrivate(u, r) PROVE SpacesInv'
    BY <2>3, AskKeeps DEF AskPrivate
  <2>4. ASSUME NEW s \in Spaces, AskDelete(u, s) PROVE SpacesInv'
    BY <2>4, AskKeeps DEF AskDelete
  <2> QED BY <1>4, <2>1, <2>2, <2>3, <2>4
<1>8. ASSUME NEW u \in Users, CreateReport(u) PROVE SpacesInv'
  BY <1>8 DEF CreateReport
<1>9. ASSUME NEW u \in Users, SeeLocked(u) PROVE SpacesInv'
  <2> DEFINE b == ask[u]
             seen == IF b.op = "file" THEN scope[b.report]
                     ELSE IF filed[b.report] = NoSpace THEN "unfiled" ELSE "filed"
             a == [b EXCEPT !.at = "locked", !.seen = seen]
  <2>1. /\ b.op \in {"file", "private"} /\ b.at = "checked" /\ b.report \in Reports
        /\ Kept(b.report) /\ ~Locked(b.report) /\ UNCHANGED Rows
    BY <1>9 DEF SeeLocked, Sees
  <2>2. a \in Requests /\ ask' = [ask EXCEPT ![u] = a]
    <3>1. ask' = [ask EXCEPT ![u] = a]
      BY <1>9, <2>1 DEF SeeLocked, Sees
    <3>2. seen \in {"private", "public", "unfiled", "filed"} /\ b \in Requests
      BY <2>1
    <3> HIDE DEF seen, b
    <3>3. a \in Requests
      BY <3>2
    <3> QED BY <3>1, <3>3
  <2>3. a.op = b.op /\ a.at = "locked" /\ a.report = b.report /\ a.seen = seen
    BY <2>1
  <2> HIDE DEF a
  <2>4. /\ ask' \in [Users -> Requests] /\ ask'[u] = a
        /\ \A v \in Users \ {u} : ask'[v] = ask[v]
    BY <2>2
  <2>5. SpacesTypeOK' /\ MembersArePublic'
    BY <2>1, <2>3, <2>4 DEF Locked
  <2>6. ASSUME NEW v \in Users PROVE ReadingHolds(v)' /\ CreatesFree(v)' /\ NamesReport(v)'
    BY <2>1, <2>3, <2>4, <2>6
  <2> QED BY <2>5, <2>6
<1>10. ASSUME NEW u \in Users, FileReport(u) PROVE SpacesInv'
  BY <1>10 DEF FileReport
<1>11. ASSUME NEW u \in Users, Unpublish(u) PROVE SpacesInv'
  BY <1>11 DEF Unpublish
<1>12. ASSUME NEW u \in Users, Refuse(u) PROVE SpacesInv'
  BY <1>12 DEF Refuse
<1>13. ASSUME NEW u \in Users, LookInside(u) \/ DeleteSpace(u) PROVE SpacesInv'
  BY <1>13 DEF LookInside, DeleteSpace
<1>14. CASE UNCHANGED spaceVars
  BY <1>14 DEF spaceVars
<1> QED BY <1>1, <1>2, <1>3, <1>4, <1>8, <1>9, <1>10, <1>11, <1>12, <1>13, <1>14 DEF SpacesNext

\* A report filed in a space is public, whatever requests file and unpublish it
\* at once.
THEOREM MembersStayPublic == SpacesSpec => [](SpacesTypeOK /\ MembersArePublic)
<1>1. SpacesInv => SpacesTypeOK /\ MembersArePublic
  BY DEF SpacesInv
<1> QED BY <1>1, SpacesInitial, SpacesNextKeeps, PTL DEF SpacesSpec
-----------------------------------------------------------------------------
(* Model profiles.                                                         *)

\* What a transaction read under its locks is still so, and no two hold a row.
LocksHold ==
    /\ \A a \in Admins : request[a].at = "write" =>
          /\ request[a].rows \subseteq stored
          /\ request[a].on = request[a].rows \cap enabled
          /\ request[a].def = request[a].rows \cap default
    /\ \A a, b \in Admins :
          request[a].at = "write" /\ request[b].at = "write" /\ a # b
             => request[a].rows \cap request[b].rows = {}

\* A profile being created is in nobody's rows, and in nobody else's request.
CreatesNew(a) ==
    request[a].op = "create" =>
        /\ request[a].id \in used \ stored
        /\ \A b \in Admins : request[a].id \notin request[b].rows
        /\ \A b \in Admins : request[b].op = "create" /\ request[b].id = request[a].id => a = b

\* A transaction in progress is one of the three, and a deletion wants no flag.
KnowsOp(a) ==
    request[a].at # "idle" =>
        /\ request[a].op # "none" /\ request[a].id \in Profiles
        /\ request[a].op = "delete" => request[a].wants = {}

ProfilesInv ==
    /\ ProfilesTypeOK /\ LocksHold
    /\ \A a \in Admins : CreatesNew(a) /\ KnowsOp(a)

\* The invariant holds of an empty store.
LEMMA ProfilesInitial == ProfilesInit => ProfilesInv
<1> SUFFICES ASSUME ProfilesInit PROVE ProfilesInv
  OBVIOUS
<1>1. Cardinality({}) = 0
  BY FS_EmptySet
<1> QED BY <1>1 DEF ProfilesInit, ProfilesInv, ProfilesTypeOK, LocksHold, CreatesNew, KnowsOp,
                 NoRequest, Transactions, Flags

\* What a commit does to the flags of the rows it has and of those it has not.
LEMMA CommitTouchesItsRows ==
    ASSUME ProfilesInv, NEW a \in Admins, CommitProfile(a)
    PROVE  /\ request[a].id \in Profiles
           /\ request[a].op = "create" \/ request[a].id \in request[a].rows
           /\ DefaultAfter(a) \subseteq default \cup {request[a].id}
           /\ default \subseteq DefaultAfter(a) \cup request[a].rows \cup {request[a].id}
<1> USE DEF CommitProfile, ProfilesInv, ProfilesTypeOK, Transactions
<1>1. request[a].op \in {"create", "update", "delete"} /\ request[a].id \in Profiles
  BY DEF KnowsOp
<1>2. request[a].op = "create" \/ request[a].id \in request[a].rows
  BY <1>1 DEF Refused
<1>3. request[a].def \subseteq request[a].rows
  BY DEF LocksHold
<1>4. \/ DefaultAfter(a) = default \ {request[a].id}
      \/ DefaultAfter(a) = (default \ request[a].def) \cup {request[a].id}
  BY <1>1 DEF DefaultAfter
<1> QED BY <1>1, <1>2, <1>3, <1>4

\* Every step keeps it.
LEMMA ProfilesNextKeeps == ProfilesInv /\ [ProfilesNext]_profileVars => ProfilesInv'
<1> SUFFICES ASSUME ProfilesInv, [ProfilesNext]_profileVars PROVE ProfilesInv'
  OBVIOUS
<1> USE DEF ProfilesInv, ProfilesTypeOK, Transactions, NoRequest
<1>1. ASSUME NEW a \in Admins, NEW op \in {"create", "update", "delete"}, NEW p \in Profiles,
             NEW w \in Flags, op = "delete" => w = {}, BeginProfile(a, op, p, w)
      PROVE  ProfilesInv'
  <2>1. ProfilesTypeOK'
    BY <1>1 DEF BeginProfile
  <2>2. LocksHold'
    BY <1>1 DEF BeginProfile, LocksHold
  <2>3. \A b \in Admins : KnowsOp(b)'
    BY <1>1 DEF BeginProfile, KnowsOp
  <2>4. \A b \in Admins : CreatesNew(b)'
    BY <1>1 DEF BeginProfile, CreatesNew
  <2> QED BY <2>1, <2>2, <2>3, <2>4
<1>2. ASSUME NEW a \in Admins, Select(a) PROVE ProfilesInv'
  <2> DEFINE rows == request[a].rows \cap stored
             q == [request[a] EXCEPT !.at = "write", !.rows = rows, !.on = rows \cap enabled,
                                     !.def = rows \cap default]
  <2>1. ProfilesTypeOK'
    <3>1. /\ request' = [request EXCEPT ![a] = q]
          /\ UNCHANGED <<stored, enabled, default, used>>
      BY <1>2 DEF Select, Read
    <3>2. q \in Transactions
      OBVIOUS
    <3> QED BY <3>1, <3>2
  <2>2. LocksHold'
    BY <1>2 DEF Select, Read, LocksHold, LockedRows
  <2>3. \A b \in Admins : KnowsOp(b)' /\ CreatesNew(b)'
    BY <1>2 DEF Select, Read, KnowsOp, CreatesNew
  <2> QED BY <2>1, <2>2, <2>3
<1>3. ASSUME NEW a \in Admins, CommitProfile(a) PROVE ProfilesInv'
  <2> DEFINE p == request[a].id
  <2>1. /\ p \in used /\ (p \in stored \/ request[a].op = "create")
        /\ request[a].op = "create" \/ p \in request[a].rows
        /\ DefaultAfter(a) \subseteq default \cup {p}
        /\ default \subseteq DefaultAfter(a) \cup request[a].rows \cup {p}
    BY <1>3, CommitTouchesItsRows DEF LocksHold, CreatesNew, CommitProfile
  <2>2. /\ request' = [request EXCEPT ![a] = NoRequest] /\ request'[a] = NoRequest
        /\ NoRequest \in Transactions /\ \A b \in Admins \ {a} : request'[b] = request[b]
    BY <1>3 DEF CommitProfile, Flags
  <2>3. /\ used' = used /\ default' = DefaultAfter(a) /\ Cardinality(default') <= 1
        /\ \/ stored' = stored \cup {p} /\ enabled' \in {enabled \cup {p}, enabled \ {p}}
           \/ stored' = stored \ {p} /\ enabled' = enabled \ {p} /\ p \notin default'
    <3>1. CASE request[a].op = "delete"
      <4>1. DefaultAfter(a) = default \ {p}
        BY <1>3, <3>1 DEF DefaultAfter, TakesDefault, KnowsOp, CommitProfile
      <4> QED BY <1>3, <3>1, <4>1 DEF CommitProfile
    <3>2. CASE request[a].op # "delete"
      BY <1>3, <3>2 DEF CommitProfile
    <3> QED BY <3>1, <3>2
  <2>4. ProfilesTypeOK'
    BY <2>1, <2>2, <2>3
  <2>5. ASSUME NEW b \in Admins PROVE KnowsOp(b)' /\ CreatesNew(b)'
    BY <1>3, <2>1, <2>2, <2>3, <2>5 DEF KnowsOp, CreatesNew, CommitProfile
  <2>6. LocksHold'
    <3>1. \A b \in Admins \ {a} : request[b].at = "write" =>
             /\ p \notin request[b].rows /\ request[a].rows \cap request[b].rows = {}
      BY <1>3, <2>1 DEF LocksHold, CreatesNew, CommitProfile
    <3>2. ASSUME NEW b \in Admins, request'[b].at = "write"
          PROVE  /\ request[b].rows \subseteq stored'
                 /\ request[b].rows \cap enabled' = request[b].rows \cap enabled
                 /\ request[b].rows \cap default' = request[b].rows \cap default
      BY <2>1, <2>2, <2>3, <3>1, <3>2 DEF LocksHold
    <3> QED BY <2>2, <3>2 DEF LocksHold
  <2> QED BY <2>4, <2>5, <2>6
<1>4. ASSUME NEW a \in Admins, RollbackProfile(a) PROVE ProfilesInv'
  BY <1>4 DEF RollbackProfile, LocksHold, CreatesNew, KnowsOp, Flags
<1>5. CASE UNCHANGED profileVars
  BY <1>5 DEF profileVars, LocksHold, CreatesNew, KnowsOp
<1>6. {} \in Flags
  BY DEF Flags
<1>7. CASE \E a \in Admins, p \in Profiles, w \in Flags, op \in {"create", "update", "delete"} :
              (op = "delete" => w = {}) /\ BeginProfile(a, op, p, w)
  BY <1>1, <1>7
<1> QED BY <1>2, <1>3, <1>4, <1>5, <1>6, <1>7 DEF ProfilesNext

\* A change that saw every row leaves an enabled default.
THEOREM SeenAllKeeps == ProfilesSpec => []ProfilesTypeOK /\ SeenAllKeepsDefault
<1>1. ASSUME ProfilesInv, NEW a \in Admins, OneDefault, stored \subseteq request[a].rows, CommitProfile(a)
      PROVE  OneDefault'
  <2> DEFINE q == request[a]
  <2> USE DEF Flags
  <2>1. /\ q.op \in {"create", "update", "delete"} /\ q.wants \in Flags /\ q.at = "write"
        /\ (q.op = "delete" => q.wants = {}) /\ enabled \subseteq stored /\ default \subseteq stored
        /\ q.rows = stored /\ q.on = enabled /\ q.def = default
        /\ Others(a) = enabled \ {q.id} /\ ~Refused(a) /\ default' = DefaultAfter(a)
    <3>1. /\ ProfilesTypeOK /\ KnowsOp(a) /\ q \in Transactions /\ q.at = "write" /\ ~Refused(a)
          /\ default' = DefaultAfter(a)
      BY <1>1 DEF ProfilesInv, ProfilesTypeOK, CommitProfile
    <3>2. q.rows \subseteq stored /\ q.on = q.rows \cap enabled /\ q.def = q.rows \cap default
      BY <1>1, <3>1 DEF ProfilesInv, LocksHold
    <3>3. q.rows = stored /\ q.on = enabled /\ q.def = default
      BY <1>1, <3>1, <3>2 DEF ProfilesTypeOK
    <3> QED BY <3>1, <3>3 DEF ProfilesTypeOK, Transactions, KnowsOp, Others
  <2>2. CASE q.op = "delete"
    <3>1. default' = default \ {q.id} /\ enabled' = enabled \ {q.id}
      <4>1. DefaultAfter(a) = default \ {q.id}
        BY <2>1, <2>2 DEF DefaultAfter, TakesDefault
      <4> QED BY <1>1, <2>1, <2>2, <4>1 DEF CommitProfile
    <3>2. q.id \in default => enabled \ {q.id} = {}
      BY <2>1, <2>2 DEF Refused
    <3> QED BY <1>1, <3>1, <3>2 DEF OneDefault
  <2>3. CASE q.op # "delete" /\ TakesDefault(a)
    <3>1. default' = {q.id}
      BY <2>1, <2>3 DEF DefaultAfter
    <3>2. "enabled" \in q.wants
      BY <2>1, <2>3 DEF Refused, TakesDefault
    <3>3. q.id \in enabled'
      BY <1>1, <2>3, <3>2 DEF CommitProfile
    <3> QED BY <3>1, <3>3 DEF OneDefault
  <2>4. CASE q.op # "delete" /\ ~TakesDefault(a)
    <3>1. default' = default \ {q.id} /\ "default" \notin q.wants
      BY <2>1, <2>4 DEF DefaultAfter, TakesDefault
    <3>2. enabled' = IF "enabled" \in q.wants THEN enabled \cup {q.id} ELSE enabled \ {q.id}
      BY <1>1, <2>4 DEF CommitProfile
    <3>3. q.id \in default => q.wants # {"enabled"} /\ enabled \ {q.id} = {}
      <4>1. CASE q.op = "create"
        BY <1>1, <2>1, <4>1 DEF ProfilesInv, CreatesNew
      <4>2. CASE q.op = "update"
        BY <2>1, <3>1, <4>2 DEF Refused
      <4> QED BY <2>1, <2>4, <4>1, <4>2
    <3>4. "enabled" \in q.wants => enabled \ {q.id} # {}
      BY <2>1, <2>4 DEF TakesDefault
    <3> QED BY <1>1, <2>1, <3>1, <3>2, <3>3, <3>4 DEF OneDefault
  <2> QED BY <2>1, <2>2, <2>3, <2>4
<1>2. ProfilesInv /\ [ProfilesNext]_profileVars
        => [\A a \in Admins :
              OneDefault /\ stored \subseteq request[a].rows /\ CommitProfile(a) => OneDefault']_profileVars
  BY <1>1
<1>3. ProfilesInv => ProfilesTypeOK
  BY DEF ProfilesInv
<1> QED BY <1>2, <1>3, ProfilesInitial, ProfilesNextKeeps, PTL DEF ProfilesSpec, SeenAllKeepsDefault
-----------------------------------------------------------------------------
(* Plugin packages.                                                        *)

\* A transaction that has the row of a plugin: a publication over a revision, or
\* a deletion.
Owns(w) ==
    \/ task[w].at \in {"removed", "collected"}
    \/ task[w].at = "based" /\ task[w].next > 1

\* A publication is one of an editor, or of an upload, and begins in some life.
KnowsBase(w) ==
    task[w].at \in {"staged", "screened", "based"} =>
        task[w].plugin \in Plugins /\ task[w].base # 0 /\ task[w].life <= lives[task[w].plugin]

\* Under the row's lock, the revision an editor saw is the current one.
BaseIsHead(w) ==
    LET t == task[w] IN
    t.at = "based" =>
        /\ t.next \in Revisions
        /\ t.base # Unbased /\ t.life = lives[t.plugin] => head[t.plugin] = t.base /\ t.next = t.base + 1

PluginsInv ==
    /\ PluginsTypeOK
    /\ \A w \in Writers : KnowsBase(w) /\ BaseIsHead(w) /\ (Owns(w) => task[w].plugin \in Plugins)
    /\ \A v, w \in Writers : Owns(v) /\ Owns(w) /\ task[v].plugin = task[w].plugin => v = w
    /\ \A w \in Writers : task[w].at = "listed" => task[w].plugin \in Plugins

\* The invariant holds of an empty store.
LEMMA PluginsInitial == PluginsInit => PluginsInv
BY PluginAssumption DEF PluginsInit, PluginsInv, PluginsTypeOK, Tasks, NoTask, Revisions,
   Owns, KnowsBase, BaseIsHead

\* What a request does by itself, without a write to the rows.
LEMMA RequestMoves ==
    ASSUME PluginsInv, NEW w \in Writers, NEW t \in Tasks, task' = [task EXCEPT ![w] = t],
           UNCHANGED Stored,
           t.at # "idle" => t.plugin \in Plugins,
           t.at \in {"staged", "screened", "based"} => t.base # 0 /\ t.life <= lives[t.plugin],
           t.at = "based" => /\ t.next \in Revisions
                             /\ t.base # Unbased => head[t.plugin] = t.base /\ t.next = t.base + 1,
           t.at \in {"removed", "collected"} \/ (t.at = "based" /\ t.next > 1)
              => (Owns(w) /\ task[w].plugin = t.plugin) \/ ~Owned(t.plugin)
    PROVE  PluginsInv'
<1>1. /\ task' \in [Writers -> Tasks] /\ task'[w] = t /\ \A v \in Writers \ {w} : task'[v] = task[v]
      /\ UNCHANGED <<head, content, blobs, lives>>
  BY DEF PluginsInv, PluginsTypeOK, Stored
<1>2. PluginsTypeOK'
  BY <1>1 DEF PluginsInv, PluginsTypeOK
<1>3. ASSUME NEW v \in Writers
      PROVE  /\ KnowsBase(v)' /\ BaseIsHead(v)' /\ (Owns(v)' => task'[v].plugin \in Plugins)
             /\ task'[v].at = "listed" => task'[v].plugin \in Plugins
  BY <1>1 DEF PluginsInv, KnowsBase, BaseIsHead, Owns
<1>4. ASSUME NEW u \in Writers, NEW v \in Writers, Owns(u)', Owns(v)', task'[u].plugin = task'[v].plugin
      PROVE  u = v
  BY <1>1, <1>4 DEF PluginsInv, Owns, Owned
<1> QED BY <1>2, <1>3, <1>4 DEF PluginsInv

\* Every step keeps the invariant.
LEMMA PluginsNextKeeps == PluginsInv /\ [PluginsNext]_pluginVars => PluginsInv'
<1> SUFFICES ASSUME PluginsInv, [PluginsNext]_pluginVars PROVE PluginsInv'
  OBVIOUS
<1>0. /\ MaxRevision \in Nat /\ Revisions = 1..MaxRevision /\ Unbased = MaxRevision + 1
      /\ \A w \in Writers : task[w] \in Tasks
      /\ head \in [Plugins -> 0..MaxRevision] /\ lives \in [Plugins -> Nat]
  BY PluginAssumption DEF Revisions, Unbased, PluginsInv, PluginsTypeOK
<1>1. ASSUME NEW w \in Writers, NEW p \in Plugins, NEW new \in (SUBSET Blobs) \ {{}}, Open(w, p, new)
      PROVE  PluginsInv'
  <2>1. PICK b \in {Unbased} \cup ({head[p]} \ {0}) :
           task' = [task EXCEPT ![w] = [NoTask EXCEPT !.op = "publish", !.at = "staged", !.plugin = p,
                                         !.base = b, !.life = lives[p], !.new = new]]
    BY <1>1 DEF Open
  <2> DEFINE t == [NoTask EXCEPT !.op = "publish", !.at = "staged", !.plugin = p,
                                 !.base = b, !.life = lives[p], !.new = new]
  <2>2. b \in 0..MaxRevision + 1 /\ b # 0 /\ lives[p] \in Nat
    BY <1>0
  <2>3. /\ t \in Tasks /\ t.at = "staged" /\ t.plugin = p /\ t.base = b /\ t.life = lives[p]
    <3>1. NoTask \in Tasks
      BY <1>0 DEF NoTask, Tasks
    <3> HIDE DEF NoTask
    <3> QED BY <2>2, <3>1 DEF Tasks
  <2>4. task' = [task EXCEPT ![w] = t] /\ UNCHANGED Stored
    BY <1>1, <2>1 DEF Open
  <2>5. p \in Plugins /\ lives[p] <= lives[p]
    BY <2>2
  <2> HIDE DEF t
  <2> QED BY <2>2, <2>3, <2>4, <2>5, RequestMoves
<1>2. ASSUME NEW w \in Writers, Screen(w) PROVE PluginsInv'
  <2> DEFINE t == [task[w] EXCEPT !.at = "screened"]
  <2>1. /\ t \in Tasks /\ t.at = "screened" /\ t.plugin = task[w].plugin /\ t.base = task[w].base
        /\ t.life = task[w].life /\ task' = [task EXCEPT ![w] = t] /\ UNCHANGED Stored
    BY <1>0, <1>2 DEF Screen, Turns, Tasks
  <2>2. t.plugin \in Plugins /\ t.base # 0 /\ t.life <= lives[t.plugin]
    BY <1>2, <2>1 DEF Screen, PluginsInv, KnowsBase
  <2> HIDE DEF t
  <2> QED BY <2>1, <2>2, RequestMoves
<1>3. ASSUME NEW w \in Writers, Lock(w) PROVE PluginsInv'
  <2> DEFINE n == head[task[w].plugin] + 1
             t == [task[w] EXCEPT !.at = "based", !.next = n, !.lacks = task[w].new \ blobs]
  <2>1. /\ task[w].plugin \in Plugins /\ task[w].base # 0 /\ task[w].life <= lives[task[w].plugin]
        /\ head[task[w].plugin] < MaxRevision /\ ~Owned(task[w].plugin)
        /\ (task[w].base # Unbased => head[task[w].plugin] = task[w].base)
    BY <1>3 DEF Lock, Lockable, Stale, PluginsInv, KnowsBase
  <2>2. n \in Revisions
    BY <1>0, <2>1
  <2>3. task' = [task EXCEPT ![w] = t] /\ UNCHANGED Stored
    BY <1>3 DEF Lock, Prepares
  <2>4. /\ t \in Tasks /\ t.at = "based" /\ t.plugin = task[w].plugin /\ t.base = task[w].base
        /\ t.life = task[w].life /\ t.next = n
    <3> HIDE DEF n
    <3>1. n \in 0..MaxRevision /\ task[w] \in Tasks
      BY <1>0, <2>2
    <3> QED BY <3>1 DEF Tasks
  <2> HIDE DEF t
  <2> QED BY <1>0, <2>1, <2>2, <2>3, <2>4, RequestMoves
<1>4. ASSUME NEW w \in Writers, Commit(w) PROVE PluginsInv'
  <2> DEFINE t == task[w]
  <2>1. /\ t.at = "based" /\ t.plugin \in Plugins /\ t.next \in Revisions /\ t \in Tasks
        /\ (t.next = 1 => head[t.plugin] = 0)
        /\ head' = [head EXCEPT ![t.plugin] = t.next]
        /\ content' = [content EXCEPT ![t.plugin][t.next] = t.new]
        /\ blobs' = blobs \cup t.lacks /\ lives' = lives
        /\ task' = [task EXCEPT ![w] = NoTask]
    BY <1>0, <1>4 DEF Commit, Quits, PluginsInv, KnowsBase, BaseIsHead
  <2>2. /\ NoTask \in Tasks /\ NoTask.at = "idle"
        /\ task' \in [Writers -> Tasks] /\ task'[w] = NoTask
        /\ \A v \in Writers \ {w} : task'[v] = task[v]
    BY <1>0, <2>1 DEF NoTask, Tasks, PluginsInv, PluginsTypeOK
  <2>3. PluginsTypeOK'
    BY <1>0, <2>1, <2>2 DEF PluginsInv, PluginsTypeOK, Tasks
  <2>4. ASSUME NEW v \in Writers \ {w}, task[v].at = "based", task[v].plugin = t.plugin,
               task[v].base # Unbased, task[v].life = lives[t.plugin]
        PROVE  FALSE
    <3>1. task[v].base # 0 /\ head[t.plugin] = task[v].base /\ task[v].next = task[v].base + 1
      BY <2>4 DEF PluginsInv, KnowsBase, BaseIsHead
    <3>2. Owns(v) /\ t.next > 1
      BY <1>0, <2>1, <2>4, <3>1 DEF Owns, Tasks
    <3> QED BY <2>1, <2>4, <3>2 DEF Owns, PluginsInv
  <2>5. ASSUME NEW v \in Writers
        PROVE  /\ KnowsBase(v)' /\ BaseIsHead(v)' /\ (Owns(v)' => task'[v].plugin \in Plugins)
               /\ task'[v].at = "listed" => task'[v].plugin \in Plugins
    <3>1. CASE v = w
      BY <2>2, <3>1 DEF KnowsBase, BaseIsHead, Owns
    <3>2. CASE v # w
      <4>1. KnowsBase(v)' /\ (Owns(v)' => task'[v].plugin \in Plugins)
            /\ (task'[v].at = "listed" => task'[v].plugin \in Plugins)
        BY <2>1, <2>2, <3>2 DEF PluginsInv, KnowsBase, Owns
      <4>2. BaseIsHead(v)'
        BY <1>0, <2>1, <2>2, <2>4, <3>2 DEF PluginsInv, KnowsBase, BaseIsHead
      <4> QED BY <4>1, <4>2
    <3> QED BY <3>1, <3>2
  <2>6. \A u, v \in Writers : Owns(u)' /\ Owns(v)' /\ task'[u].plugin = task'[v].plugin => u = v
    BY <2>2 DEF PluginsInv, Owns
  <2> QED BY <2>3, <2>5, <2>6 DEF PluginsInv
<1>5. ASSUME NEW w \in Writers, Abort(w) PROVE PluginsInv'
  <2>1. NoTask \in Tasks /\ NoTask.at = "idle"
    BY <1>0 DEF NoTask, Tasks
  <2>2. task' = [task EXCEPT ![w] = NoTask] /\ UNCHANGED Stored
    BY <1>5 DEF Abort, Quits
  <2> HIDE DEF NoTask
  <2> QED BY <2>1, <2>2, RequestMoves
<1>6. ASSUME NEW w \in Writers, NEW p \in Plugins, List(w, p) PROVE PluginsInv'
  <2> DEFINE rows == {n \in Revisions : content[p][n] # {}}
             lacks == UNION {content[p][n] : n \in Revisions}
             t == [NoTask EXCEPT !.op = "delete", !.at = "listed", !.plugin = p,
                                 !.rows = rows, !.lacks = lacks]
  <2>1. rows \subseteq Revisions /\ lacks \subseteq Blobs
    BY DEF PluginsInv, PluginsTypeOK
  <2>2. task' = [task EXCEPT ![w] = t] /\ UNCHANGED Stored
    BY <1>6 DEF List
  <2> HIDE DEF rows, lacks
  <2>3. t \in Tasks /\ t.at = "listed" /\ t.plugin = p
    <3>1. NoTask \in Tasks
      BY <1>0 DEF NoTask, Tasks
    <3> HIDE DEF NoTask
    <3> QED BY <2>1, <3>1 DEF Tasks
  <2> HIDE DEF t
  <2> QED BY <2>2, <2>3, RequestMoves
<1>7. ASSUME NEW w \in Writers, Remove(w) PROVE PluginsInv'
  <2> DEFINE t == [task[w] EXCEPT !.at = "removed"]
  <2>1. /\ t \in Tasks /\ t.at = "removed" /\ t.plugin = task[w].plugin
        /\ task' = [task EXCEPT ![w] = t] /\ UNCHANGED Stored
    BY <1>0, <1>7 DEF Remove, Turns, Tasks
  <2>2. t.plugin \in Plugins /\ ~Owned(t.plugin)
    BY <1>7, <2>1 DEF Remove, PluginsInv
  <2> HIDE DEF t
  <2> QED BY <2>1, <2>2, RequestMoves
<1>8. ASSUME NEW w \in Writers, Collect(w) PROVE PluginsInv'
  <2> DEFINE rest == task[w].lacks \ StillUsed(task[w].plugin, task[w].rows)
             t == [task[w] EXCEPT !.at = "collected", !.lacks = rest]
  <2>1. rest \subseteq Blobs /\ task' = [task EXCEPT ![w] = t] /\ UNCHANGED Stored
    BY <1>0, <1>8 DEF Collect, Tasks
  <2> HIDE DEF rest
  <2>2. t \in Tasks /\ t.at = "collected" /\ t.plugin = task[w].plugin
    BY <1>0, <2>1 DEF Tasks
  <2>3. Owns(w) /\ task[w].plugin \in Plugins
    BY <1>8 DEF Collect, Owns, PluginsInv
  <2> HIDE DEF t
  <2> QED BY <2>1, <2>2, <2>3, RequestMoves
<1>9. ASSUME NEW w \in Writers, CommitDelete(w) PROVE PluginsInv'
  <2> DEFINE p == task[w].plugin
  <2>1. /\ p \in Plugins /\ head' = [head EXCEPT ![p] = 0] /\ lives' = [lives EXCEPT ![p] = @ + 1]
        /\ content' = [content EXCEPT ![p] = [n \in Revisions |-> IF n \in task[w].rows THEN {} ELSE @[n]]]
        /\ blobs' = blobs \ task[w].lacks /\ task' = [task EXCEPT ![w] = NoTask]
    BY <1>9 DEF CommitDelete, Quits, PluginsInv, Owns
  <2>2. /\ NoTask \in Tasks /\ NoTask.at = "idle"
        /\ task' \in [Writers -> Tasks] /\ task'[w] = NoTask
        /\ \A v \in Writers \ {w} : task'[v] = task[v]
    BY <1>0, <2>1 DEF NoTask, Tasks, PluginsInv, PluginsTypeOK
  <2>3. PluginsTypeOK'
    BY <1>0, <2>1, <2>2 DEF PluginsInv, PluginsTypeOK
  <2>4. ASSUME NEW v \in Writers
        PROVE  /\ KnowsBase(v)' /\ BaseIsHead(v)' /\ (Owns(v)' => task'[v].plugin \in Plugins)
               /\ task'[v].at = "listed" => task'[v].plugin \in Plugins
    <3>1. CASE v = w
      BY <2>2, <3>1 DEF KnowsBase, BaseIsHead, Owns
    <3>2. CASE v # w
      <4>1. task[v] \in Tasks /\ task'[v] = task[v] /\ KnowsBase(v) /\ BaseIsHead(v)
        BY <1>0, <2>2, <3>2 DEF PluginsInv
      <4>2. \A q \in Plugins : lives[q] \in Nat /\ lives'[q] = IF q = p THEN lives[q] + 1 ELSE lives[q]
        BY <1>0, <2>1
      <4>3. KnowsBase(v)'
        BY <4>1, <4>2 DEF KnowsBase, Tasks
      <4>4. BaseIsHead(v)'
        <5>1. CASE task[v].plugin = p
          <6>1. task[v].at = "based" => task[v].life # lives'[p]
            BY <4>1, <4>2, <5>1 DEF KnowsBase, Tasks
          <6> QED BY <4>1, <5>1, <6>1 DEF BaseIsHead
        <5>2. CASE task[v].plugin # p
          BY <1>0, <2>1, <4>1, <4>2, <5>2 DEF KnowsBase, BaseIsHead, Tasks
        <5> QED BY <5>1, <5>2
      <4> QED BY <2>2, <3>2, <4>3, <4>4 DEF PluginsInv, Owns
    <3> QED BY <3>1, <3>2
  <2>5. \A u, v \in Writers : Owns(u)' /\ Owns(v)' /\ task'[u].plugin = task'[v].plugin => u = v
    BY <2>2 DEF PluginsInv, Owns
  <2> QED BY <2>3, <2>4, <2>5 DEF PluginsInv
<1>10. CASE UNCHANGED pluginVars
  BY <1>10 DEF pluginVars, PluginsInv, PluginsTypeOK, KnowsBase, BaseIsHead, Owns
<1> QED BY <1>1, <1>2, <1>3, <1>4, <1>5, <1>6, <1>7, <1>8, <1>9, <1>10 DEF PluginsNext

\* A revision does not change while its plugin lives, and an edit is published
\* over the revision its author has seen, in every life of a plugin.
THEOREM EditsBuild == PluginsSpec => []PluginsTypeOK /\ EditsBuildOnTheirBase
<1>1. ASSUME PluginsInv, PluginsNext, NEW p \in Plugins, NEW n \in Revisions,
             lives'[p] = lives[p], content[p][n] # {}
      PROVE  content'[p][n] = content[p][n]
  <2>1. CASE UNCHANGED content
    BY <2>1
  <2>2. ASSUME NEW w \in Writers, Commit(w) PROVE content'[p][n] = content[p][n]
    <3>1. /\ content' = [content EXCEPT ![task[w].plugin][task[w].next] = task[w].new]
          /\ content[task[w].plugin][task[w].next] = {}
          /\ content \in [Plugins -> [Revisions -> SUBSET Blobs]]
      BY <1>1, <2>2 DEF Commit, PluginsInv, PluginsTypeOK
    <3> QED BY <1>1, <3>1
  <2>3. ASSUME NEW w \in Writers, CommitDelete(w) PROVE content'[p][n] = content[p][n]
    <3>1. /\ content' = [content EXCEPT ![task[w].plugin] =
                            [m \in Revisions |-> IF m \in task[w].rows THEN {} ELSE @[m]]]
          /\ lives' = [lives EXCEPT ![task[w].plugin] = @ + 1] /\ lives \in [Plugins -> Nat]
          /\ content \in [Plugins -> [Revisions -> SUBSET Blobs]]
      BY <1>1, <2>3 DEF CommitDelete, PluginsInv, PluginsTypeOK
    <3>2. p # task[w].plugin
      BY <1>1, <3>1
    <3> QED BY <3>1, <3>2
  <2> QED BY <1>1, <2>1, <2>2, <2>3
          DEF PluginsNext, List, Open, Screen, Lock, Prepares, Abort, Remove, Collect, Stored
<1>2. ASSUME PluginsInv, NEW w \in Writers, Commit(w), task[w].base # Unbased,
             task[w].life = lives[task[w].plugin]
      PROVE  head[task[w].plugin] = task[w].base
  BY <1>2 DEF PluginsInv, BaseIsHead, Commit
<1>3. PluginsInv /\ [PluginsNext]_pluginVars
        => [\A p \in Plugins :
              /\ lives'[p] = lives[p] =>
                    \A n \in Revisions : content[p][n] # {} => content'[p][n] = content[p][n]
              /\ \A w \in Writers :
                    LET t == task[w] IN
                    t.plugin = p /\ t.base # Unbased /\ t.life = lives[p] /\ Commit(w)
                       => head[p] = t.base]_pluginVars
  BY <1>1, <1>2
<1>4. PluginsInv => PluginsTypeOK
  BY DEF PluginsInv
<1> QED BY <1>3, <1>4, PluginsInitial, PluginsNextKeeps, PTL DEF PluginsSpec, EditsBuildOnTheirBase
-----------------------------------------------------------------------------
(* The cached token of a gateway.                                          *)

\* There is no token to lose, or it is time for another.
MayLose == held = 0 \/ due

Calls == [at : {"idle", "token", "fetch", "send", "observed", "store", "forget", "done"},
          kind : {"tool", "list"}, token : Nat, stamp : Nat, status : Statuses]
FlagsOK == due \in BOOLEAN /\ access \in BOOLEAN
RowsOK ==
    /\ held \in Nat /\ issued \in Nat /\ bad \subseteq 1 .. issued
    /\ listing \in Nat /\ stamp \in Nat /\ refusal \in Nat
    /\ row \in [stamp : Nat, status : Statuses] /\ use \in [Uses -> Calls]

\* One call acquires a token at a time, and only when there is none to lose.
OneFetcher == \A u, v \in Uses : At(u, "fetch") /\ At(v, "fetch") => u = v
FetchInv == OneFetcher /\ (Fetching => MayLose)

GatewayInv == FlagsOK /\ RowsOK /\ FetchInv

\* The parts of the type invariant.
LEMMA GatewayTypes == GatewayTypeOK <=> FlagsOK /\ RowsOK
BY DEF GatewayTypeOK, FlagsOK, RowsOK, Calls

\* The invariant holds of an empty cache.
LEMMA GatewayInitial == GatewayInit => GatewayInv
<1> SUFFICES ASSUME GatewayInit PROVE GatewayInv
  OBVIOUS
<1>1. FlagsOK
  BY Zenon DEF GatewayInit, FlagsOK
<1>2. RowsOK
  BY DEF GatewayInit, RowsOK, NoUse, Calls, Statuses
<1>3. \A u \in Uses : ~At(u, "fetch")
  BY DEF GatewayInit, At, NoUse
<1> QED BY <1>1, <1>2, <1>3 DEF GatewayInv, FetchInv, OneFetcher, Fetching

\* What a step of one call does to what it shares, unless it goes to fetch.
LEMMA CallKeeps ==
    ASSUME RowsOK, OneFetcher, NEW u \in Uses, NEW c \in Calls, use' = [use EXCEPT ![u] = c],
           c.at # "fetch", held' \in Nat, issued' \in Nat, bad' \subseteq 1 .. issued',
           listing' \in Nat, stamp' \in Nat, refusal' \in Nat, row' \in [stamp : Nat, status : Statuses]
    PROVE  RowsOK' /\ OneFetcher' /\ (Fetching' => Fetching /\ ~At(u, "fetch"))
<1>1. /\ use' \in [Uses -> Calls] /\ use'[u] = c /\ \A v \in Uses \ {u} : use'[v] = use[v]
  BY DEF RowsOK
<1>2. RowsOK'
  BY <1>1 DEF RowsOK
<1>3. OneFetcher' /\ (Fetching' => Fetching /\ ~At(u, "fetch"))
  BY <1>1 DEF OneFetcher, Fetching, At
<1> QED BY <1>2, <1>3

\* What a step does to the cached token unless it acquires one: it leaves the
\* token, drops it, or marks it due.
TokenMoves == (held' = held /\ due' = due) \/ (held' = 0 /\ due' = FALSE) \/ (held' = held /\ due' = TRUE)

\* The flags keep their types, and what may be lost stays so unless a call has
\* acquired a token.
LEMMA TokensMove ==
    ASSUME GatewayInv, [GatewayNext]_gatewayVars
    PROVE  /\ FlagsOK'
           /\ MayLose => MayLose' \/ \E u \in Uses : Fetched(u)
<1>1. TokenMoves \/ \E u \in Uses : Fetched(u)
  <2>1. CASE UNCHANGED gatewayVars
    BY <2>1, Zenon DEF gatewayVars, tokenVars, TokenMoves
  <2>2. ASSUME NEW u \in Uses,
               \/ \E kind \in {"tool", "list"} : Starts(u, kind)
               \/ UseHeld(u) \/ Fetch(u) \/ Denied(u) \/ Accepted(u) \/ Unavailable(u) \/ Breaks(u)
               \/ Record(u) \/ Remember(u) \/ Forget(u) \/ Returns(u)
        PROVE  TokenMoves
    <3>1. UNCHANGED tokenVars
      BY <2>2, Zenon DEF Starts, UseHeld, Fetch, Denied, Accepted, Unavailable, Breaks, Record, Remember,
                         Forget, Returns
    <3> QED BY <3>1, Zenon DEF tokenVars, TokenMoves
  <2>3. ASSUME NEW u \in Uses, FetchFails(u) \/ Rejected(u) PROVE TokenMoves
    BY <2>3, Zenon DEF FetchFails, Rejected, DropRejected, TokenMoves
  <2>4. CASE Lapse
    BY <2>4, Zenon DEF Lapse, TokenMoves
  <2>5. CASE GatewayChanges
    BY <2>5, Zenon DEF GatewayChanges, TokenMoves
  <2> QED BY <2>1, <2>2, <2>3, <2>4, <2>5, Zenon DEF GatewayNext
<1>2. due' \in BOOLEAN
  BY <1>1, Zenon DEF GatewayInv, FlagsOK, TokenMoves, Fetched
<1>3. access' \in BOOLEAN
  <2>1. access' = access \/ access' = ~access
    BY Zenon DEF GatewayNext, gatewayVars, Starts, UseHeld, Fetch, Fetched, FetchFails, Rejected, Denied,
       Accepted, Unavailable, Breaks, Record, Remember, Forget, Returns, Lapse, GatewayChanges
  <2> QED BY <2>1, Zenon DEF GatewayInv, FlagsOK
<1>4. MayLose /\ TokenMoves => MayLose'
  BY Zenon DEF MayLose, TokenMoves
<1> QED BY <1>1, <1>2, <1>3, <1>4, Zenon DEF FlagsOK

\* Every step keeps the rows and the calls, and at most one call fetching.
LEMMA CallsMove ==
    ASSUME RowsOK, OneFetcher, [GatewayNext]_gatewayVars
    PROVE  /\ RowsOK' /\ OneFetcher' /\ (Fetching' => Fetching \/ \E u \in Uses : Fetch(u))
           /\ \A u \in Uses : Fetched(u) => ~Fetching'
<1>0. /\ held \in Nat /\ issued \in Nat /\ bad \subseteq 1 .. issued /\ listing \in Nat
      /\ stamp \in Nat /\ refusal \in Nat /\ row \in [stamp : Nat, status : Statuses]
      /\ use \in [Uses -> Calls]
  BY DEF RowsOK
<1> DEFINE Goal == RowsOK' /\ OneFetcher' /\ (Fetching' => Fetching \/ \E u \in Uses : Fetch(u))
<1>1. ASSUME NEW u \in Uses, NEW kind \in {"tool", "list"}, Starts(u, kind) PROVE Goal
  <2> DEFINE c == [use[u] EXCEPT !.at = "token", !.kind = kind]
  <2>1. c \in Calls /\ c.at = "token" /\ use' = [use EXCEPT ![u] = c]
    BY <1>0, <1>1 DEF Starts, Calls
  <2>2. UNCHANGED <<held, issued, bad, listing, row, stamp, refusal>>
    BY <1>1 DEF Starts, tokenVars
  <2> HIDE DEF c
  <2> QED BY <1>0, <2>1, <2>2, CallKeeps
<1>2. ASSUME NEW u \in Uses, UseHeld(u) PROVE Goal
  <2> DEFINE c == [use[u] EXCEPT !.at = "send", !.token = held]
  <2>1. c \in Calls /\ c.at = "send" /\ use' = [use EXCEPT ![u] = c]
    BY <1>0, <1>2 DEF UseHeld, Calls
  <2>2. UNCHANGED <<held, issued, bad, listing, row, stamp, refusal>>
    BY <1>2 DEF UseHeld, tokenVars
  <2> HIDE DEF c
  <2> QED BY <1>0, <2>1, <2>2, CallKeeps
<1>3. ASSUME NEW u \in Uses, Fetch(u) PROVE Goal
  <2>1. use' \in [Uses -> Calls] /\ \A v \in Uses \ {u} : use'[v] = use[v]
    BY <1>0, <1>3 DEF Fetch, Proceeds, Calls
  <2>2. UNCHANGED <<held, issued, bad, listing, row, stamp, refusal>> /\ ~Fetching
    BY <1>3 DEF Fetch, tokenVars
  <2> QED BY <1>3, <2>1, <2>2 DEF RowsOK, OneFetcher, Fetching, At
<1>4. ASSUME NEW u \in Uses, Fetched(u) PROVE Goal /\ ~Fetching'
  <2>1. PICK n \in Nat : n = issued + 1
    BY <1>0
  <2>2. /\ issued' = n /\ held' = n /\ UNCHANGED <<bad, listing, row, stamp, refusal>>
        /\ At(u, "fetch") /\ use' = [use EXCEPT ![u].at = "send", ![u].token = n]
    BY <1>4, <2>1, Zenon DEF Fetched
  <2> DEFINE c == [use[u] EXCEPT !.at = "send", !.token = n]
  <2>3. c \in Calls /\ c.at = "send" /\ use' = [use EXCEPT ![u] = c]
    BY <1>0, <2>2 DEF Calls
  <2>4. bad' \subseteq 1 .. issued'
    BY <1>0, <2>1, <2>2
  <2>5. \A v \in Uses \ {u} : ~At(v, "fetch")
    BY <2>2 DEF OneFetcher
  <2> HIDE DEF c
  <2>6. Goal
    BY <1>0, <2>2, <2>4, <2>3, CallKeeps
  <2>7. ~Fetching'
    BY <1>0, <2>3, <2>5 DEF Fetching, At
  <2> QED BY <2>6, <2>7
<1>5. ASSUME NEW u \in Uses, FetchFails(u) \/ Rejected(u) \/ Denied(u) \/ Accepted(u) \/ Unavailable(u)
      PROVE  Goal
  <2>1. PICK seen \in Statuses : Observes(u, seen)
    BY <1>5 DEF FetchFails, Rejected, Denied, Accepted, Unavailable, Statuses
  <2>2. PICK n \in Nat : n = stamp + 1
    BY <1>0
  <2>3. /\ stamp' = n
        /\ use' = [use EXCEPT ![u].at = "observed", ![u].stamp = n, ![u].status = seen]
    BY <2>1, <2>2, Zenon DEF Observes
  <2> DEFINE c == [use[u] EXCEPT !.at = "observed", !.stamp = n, !.status = seen]
  <2>4. c \in Calls /\ c.at = "observed" /\ use' = [use EXCEPT ![u] = c] /\ stamp' \in Nat
    BY <1>0, <2>2, <2>3 DEF Calls
  <2>5. held' \in {held, 0} /\ UNCHANGED <<issued, bad, row>>
    BY <1>5 DEF FetchFails, Rejected, DropRejected, Denied, Accepted, Unavailable, tokenVars
  <2>6. listing' \in {listing, 0} /\ refusal' \in {refusal, stamp'}
    BY <1>5 DEF FetchFails, Rejected, Denied, Accepted, Unavailable
  <2>7. held' \in Nat /\ listing' \in Nat /\ refusal' \in Nat /\ issued' \in Nat
        /\ bad' \subseteq 1 .. issued' /\ row' \in [stamp : Nat, status : Statuses]
    BY <1>0, <2>4, <2>5, <2>6
  <2> HIDE DEF c
  <2> QED BY <2>4, <2>7, CallKeeps
<1>6. ASSUME NEW u \in Uses, Record(u) PROVE Goal
  <2> DEFINE at == IF use[u].kind = "tool" \/ use[u].status = "unavailable" THEN "done"
                   ELSE IF use[u].status = "connected" THEN "store" ELSE "forget"
             c == [use[u] EXCEPT !.at = at]
  <2>1. c \in Calls /\ c.at # "fetch" /\ use' = [use EXCEPT ![u] = c]
    BY <1>0, <1>6 DEF Record, Proceeds, Calls
  <2>2. UNCHANGED <<held, issued, bad, listing, stamp, refusal>>
    BY <1>6 DEF Record, tokenVars
  <2>3. row' = row \/ (row' = [stamp |-> use[u].stamp, status |-> use[u].status] /\ At(u, "observed"))
    BY <1>6 DEF Record, At
  <2>4. row' \in [stamp : Nat, status : Statuses]
    BY <1>0, <2>3 DEF Calls
  <2> HIDE DEF c
  <2> QED BY <1>0, <2>1, <2>2, <2>4, CallKeeps
<1>7. ASSUME NEW u \in Uses, Breaks(u) \/ Remember(u) \/ Forget(u) \/ Returns(u) PROVE Goal
  <2>1. NoUse \in Calls /\ NoUse.at # "fetch" /\ use' = [use EXCEPT ![u] = NoUse]
    BY <1>7 DEF Breaks, Remember, Forget, Returns, Finishes, NoUse, Calls, Statuses
  <2>2. UNCHANGED <<held, issued, bad, row, stamp, refusal>>
    BY <1>7 DEF Breaks, Remember, Forget, Returns, tokenVars
  <2>3. listing' \in Nat
    BY <1>0, <1>7 DEF Breaks, Remember, Forget, Returns, Calls
  <2> HIDE DEF NoUse
  <2> QED BY <1>0, <2>1, <2>2, <2>3, CallKeeps
<1>8. ASSUME Lapse PROVE Goal
  <2>1. UNCHANGED <<held, issued, bad, row, stamp, refusal, use>> /\ listing' \in {listing, 0}
    BY <1>8 DEF Lapse
  <2> QED BY <2>1 DEF RowsOK, OneFetcher, Fetching, At
<1>9. ASSUME GatewayChanges PROVE Goal
  <2>1. /\ UNCHANGED <<held, issued, listing, row, stamp, refusal, use>>
        /\ bad' = bad \/ \E t \in 1 .. issued : bad' = bad \cup {t}
    BY <1>9 DEF GatewayChanges
  <2> QED BY <2>1 DEF RowsOK, OneFetcher, Fetching, At
<1>10. ASSUME UNCHANGED gatewayVars PROVE Goal
  BY <1>10 DEF gatewayVars, tokenVars, RowsOK, OneFetcher, Fetching, At
<1> QED BY <1>1, <1>2, <1>3, <1>4, <1>5, <1>6, <1>7, <1>8, <1>9, <1>10 DEF GatewayNext

\* Every step keeps the invariant.
LEMMA GatewayNextKeeps == GatewayInv /\ [GatewayNext]_gatewayVars => GatewayInv'
<1> SUFFICES ASSUME GatewayInv, [GatewayNext]_gatewayVars PROVE GatewayInv'
  OBVIOUS
<1>1. /\ RowsOK' /\ OneFetcher' /\ (Fetching' => Fetching \/ \E u \in Uses : Fetch(u))
      /\ \A u \in Uses : Fetched(u) => ~Fetching'
  BY CallsMove DEF GatewayInv, FetchInv
<1>2. FlagsOK' /\ (MayLose => MayLose' \/ \E u \in Uses : Fetched(u))
  BY TokensMove
<1>3. (\E u \in Uses : Fetch(u)) => MayLose
  BY Zenon DEF Fetch, MayLose
<1> QED BY <1>1, <1>2, <1>3 DEF GatewayInv, FetchInv

\* A token that is accepted and not due is kept, whichever calls come back late,
\* and no delayed write of the status replaces a newer observation.
THEOREM GoodTokenStays == GatewaySpec => []GatewayTypeOK /\ GoodTokenIsKept
<1>1. ASSUME GatewayInv, GatewayNext, held # 0, held \notin bad, ~due PROVE held' = held
  <2>1. ~MayLose
    BY <1>1, Zenon DEF MayLose
  <2>2. \A u \in Uses : ~At(u, "fetch")
    BY <1>1, <2>1 DEF GatewayInv, FetchInv, Fetching
  <2>3. ASSUME NEW u \in Uses, Rejected(u) PROVE held' = held
    BY <1>1, <2>3, Zenon DEF Rejected, DropRejected
  <2>4. (\E u \in Uses : Rejected(u)) \/ held' = held
    BY <1>1, <2>2, Zenon
    DEF GatewayNext, Starts, UseHeld, Fetch, Fetched, FetchFails, Denied, Accepted, Unavailable, Breaks,
        Record, Remember, Forget, Returns, Lapse, GatewayChanges, tokenVars
  <2> QED BY <2>3, <2>4
<1>2. ASSUME GatewayInv, GatewayNext PROVE row'.stamp >= row.stamp
  <2>0. row \in [stamp : Nat, status : Statuses] /\ use \in [Uses -> Calls] /\ row.stamp \in Nat
    BY <1>2 DEF GatewayInv, RowsOK
  <2>1. row' = row \/ \E u \in Uses : Record(u)
    BY <1>2, Zenon
    DEF GatewayNext, Starts, UseHeld, Fetch, Fetched, FetchFails, Rejected, Denied, Accepted,
        Unavailable, Breaks, Remember, Forget, Returns, Lapse, GatewayChanges
  <2>2. ASSUME NEW u \in Uses, Record(u) PROVE row'.stamp >= row.stamp
    <3>1. \/ row' = IF row.stamp < use[u].stamp THEN [stamp |-> use[u].stamp, status |-> use[u].status]
                    ELSE row
          \/ row' = row
      BY <2>2 DEF Record
    <3> QED BY <2>0, <3>1 DEF Calls
  <2> QED BY <2>0, <2>1, <2>2
<1>3. GatewayInv /\ [GatewayNext]_gatewayVars
        => [/\ held # 0 /\ held \notin bad /\ ~due => held' = held
            /\ row'.stamp >= row.stamp]_gatewayVars
  BY <1>1, <1>2
<1>4. GatewayInv => GatewayTypeOK
  BY GatewayTypes DEF GatewayInv
<1> QED BY <1>3, <1>4, GatewayInitial, GatewayNextKeeps, PTL DEF GatewaySpec, GoodTokenIsKept

-----------------------------------------------------------------------------
(* Action confirmations.                                                   *)
Pending == {i \in Ids : status[i] = "pending"}

\* The bound on ids is met: there is one left for every call in flight.
IdsLeft == Cardinality(InFlight) <= Cardinality(Free)

\* An approval is spent before the tool runs under it, and by one call.
SpentOnce ==
    \A i \in Ids :
        /\ status[i] # "executed" => ran[i] = 0 /\ Runners(i) = {}
        /\ ran[i] <= 1 /\ (ran[i] > 0 => Runners(i) = {})
        /\ \A k, m \in Runners(i) : k = m

\* The unique index.
PendingUnique == \A i, j \in Pending : i = j

\* Calls that may still add a prompt, whatever is denied meanwhile: they found no
\* denial, or counted few enough.
Passing ==
    {k \in Callers :
        \/ call[k].pc \in {"insert", "recheck", "clear"}
        \/ call[k].pc = "dedup" /\ (call[k].row = NoId \/ call[k].retry)
        \/ call[k].pc = "count" /\ call[k].row = NoId}

\* Each denial was a prompt, and each prompt was a call that had passed.
PromptsPaid ==
    Denials + Cardinality(Pending) + Cardinality(Passing) <= Retries + 1 + Cardinality(Callers)

ConfirmationInv == TypeOK /\ IdsLeft /\ SpentOnce /\ PendingUnique /\ PromptsPaid

-----------------------------------------------------------------------------
(* Lemmas about the sets that are counted.                                 *)

\* Calls, ids and prompts are finitely many.
LEMMA CountedFinite ==
    /\ IsFiniteSet(InFlight) /\ IsFiniteSet(Free) /\ IsFiniteSet(Pending) /\ IsFiniteSet(Passing)
    /\ Cardinality(InFlight) \in Nat /\ Cardinality(Free) \in Nat
    /\ Cardinality(Pending) \in Nat /\ Cardinality(Passing) \in Nat
    /\ Cardinality(Callers) \in Nat /\ Cardinality(Passing) <= Cardinality(Callers)
    /\ live \subseteq Ids => /\ IsFiniteSet(Live("denied")) /\ Denials \in Nat
<1>1. /\ InFlight \subseteq Callers /\ Passing \subseteq Callers
      /\ Free \subseteq Ids /\ Pending \subseteq Ids
  BY DEF InFlight, Passing, Free, Pending
<1>2. live \subseteq Ids => Live("denied") \subseteq Ids
  BY DEF Live
<1> QED BY <1>1, <1>2, ConfirmationAssumption, FS_Subset, FS_CardinalityType DEF Denials

\* There is an id for a call that is about to store its confirmation.
LEMMA NewIdIsFree ==
    ASSUME IdsLeft, NEW k \in InFlight
    PROVE  NewId \in Ids /\ status[NewId] = "free"
<1>1. Free # {}
  <2>1. Cardinality(InFlight) # 0
    BY CountedFinite, FS_EmptySet
  <2>2. Cardinality(Free) # 0
    BY <2>1, CountedFinite DEF IdsLeft
  <2> QED BY <2>2, CountedFinite, FS_EmptySet
<1> QED BY <1>1 DEF Free, NewId

-----------------------------------------------------------------------------
(* Types.                                                                  *)

\* The steps of a tool call in terms of its record.
LEMMA CallMoves ==
    ASSUME TypeOK, NEW k \in Callers, NEW c \in Called,
           call' = [call EXCEPT ![k] = c]
    PROVE  /\ call' \in [Callers -> Called] /\ call'[k] = c
           /\ \A m \in Callers \ {k} : call'[m] = call[m]
BY DEF TypeOK

\* A request that is over is a well-typed one.
LEMMA RestedTypes == Rested \in Called /\ Rested.pc = "done" /\ Rested.row = NoId
BY DEF Rested, Called, CallPoint

\* A call goes on to p, with grant i.
MovesTo(k, p, i) ==
    \E c \in Called : /\ call' = [call EXCEPT ![k] = c]
                      /\ c.pc = p /\ c.row = i /\ c.retry = call[k].retry

\* A call goes on to another point; the grant it found changes only with Find.
LEMMA GoesStep ==
    ASSUME TypeOK, NEW k \in Callers, NEW p \in CallPoint,
           \/ Goes(k, p)
           \/ p = "insert" /\ call' = [call EXCEPT ![k].pc = "insert", ![k].second = TRUE]
    PROVE  MovesTo(k, p, call[k].row)
<1>0. call[k] \in Called /\ call \in [Callers -> Called]
  BY DEF TypeOK
<1>1. CASE Goes(k, p)
  <2> DEFINE c == [call[k] EXCEPT !.pc = p]
  <2>1. c \in Called /\ c.pc = p /\ c.row = call[k].row /\ c.retry = call[k].retry
    BY <1>0 DEF Called
  <2> QED BY <1>0, <1>1, <2>1 DEF Goes, MovesTo
<1>2. CASE p = "insert" /\ call' = [call EXCEPT ![k].pc = "insert", ![k].second = TRUE]
  <2> DEFINE c == [call[k] EXCEPT !.pc = p, !.second = TRUE]
  <2>1. c \in Called /\ c.pc = p /\ c.row = call[k].row /\ c.retry = call[k].retry
    BY <1>0 DEF Called
  <2>2. call' = [call EXCEPT ![k] = c]
    BY <1>0, <1>2
  <2> QED BY <2>1, <2>2 DEF MovesTo
<1> QED BY <1>1, <1>2

\* A step that takes grant i with it moves the call and nothing else of it.
LEMMA FoundStep ==
    ASSUME TypeOK, NEW k \in Callers, NEW p \in CallPoint, NEW i \in Ids,
           call' = [call EXCEPT ![k].pc = p, ![k].row = i]
    PROVE  MovesTo(k, p, i)
<1>0. call[k] \in Called /\ call \in [Callers -> Called]
  BY DEF TypeOK
<1> DEFINE c == [call[k] EXCEPT !.pc = p, !.row = i]
<1>1. c \in Called /\ c.pc = p /\ c.row = i /\ c.retry = call[k].retry
  BY <1>0 DEF Called
<1>2. call' = [call EXCEPT ![k] = c]
  BY <1>0
<1> QED BY <1>1, <1>2 DEF MovesTo

-----------------------------------------------------------------------------
(* What the steps do to the counts.                                        *)

\* The primed sets are finite as well.
LEMMA CountedFiniteNext ==
    /\ IsFiniteSet(InFlight') /\ IsFiniteSet(Free') /\ IsFiniteSet(Pending') /\ IsFiniteSet(Passing')
    /\ Cardinality(InFlight') \in Nat /\ Cardinality(Free') \in Nat
    /\ Cardinality(Pending') \in Nat /\ Cardinality(Passing') \in Nat
    /\ Cardinality(Passing') <= Cardinality(Callers)
    /\ live' \subseteq Ids => /\ IsFiniteSet(Live("denied")') /\ Denials' \in Nat
<1>1. /\ InFlight' \subseteq Callers /\ Passing' \subseteq Callers
      /\ Free' \subseteq Ids /\ Pending' \subseteq Ids
  BY DEF InFlight, Passing, Free, Pending
<1>2. live' \subseteq Ids => Live("denied")' \subseteq Ids
  BY DEF Live
<1> QED BY <1>1, <1>2, ConfirmationAssumption, FS_Subset, FS_CardinalityType DEF Denials

\* Nothing that is counted grows.
LEMMA PaidStays ==
    ASSUME PromptsPaid, live \subseteq Ids, Live("denied")' \subseteq Live("denied"),
           Pending' \subseteq Pending, Passing' \subseteq Passing
    PROVE  PromptsPaid'
<1>1. /\ Denials' <= Denials /\ Denials' \in Nat /\ Denials \in Nat
      /\ Cardinality(Pending') <= Cardinality(Pending)
      /\ Cardinality(Passing') <= Cardinality(Passing)
  BY CountedFinite, FS_Subset, FS_CardinalityType DEF Denials
<1> QED BY <1>1, CountedFinite, CountedFiniteNext, ConfirmationAssumption, SMT DEF PromptsPaid

\* A call passes while the denials are few.
LEMMA PaidPasses ==
    ASSUME PendingUnique, Denials <= Retries, live \subseteq Ids,
           UNCHANGED <<status, live>>
    PROVE  PromptsPaid'
<1>1. Denials' = Denials /\ Pending' = Pending
  BY DEF Denials, Live, Pending
<1>2. Cardinality(Pending) <= 1
  <2>1. CASE Pending = {}
    BY <2>1, FS_EmptySet
  <2>2. ASSUME NEW i \in Pending PROVE Cardinality(Pending) <= 1
    <3>1. Pending = {i}
      BY <2>2 DEF PendingUnique
    <3>2. Cardinality({i}) = 1
      BY FS_Singleton
    <3> QED BY <3>1, <3>2
  <2> QED BY <2>1, <2>2
<1> QED BY <1>1, <1>2, CountedFinite, CountedFiniteNext, ConfirmationAssumption, SMT DEF PromptsPaid

\* A call that only reads goes on: it runs nothing, and if it passes, the denials
\* were few or it had passed before.
LEMMA ReadStep ==
    ASSUME ConfirmationInv, NEW k \in InFlight, NEW c \in Called,
           call' = [call EXCEPT ![k] = c], UNCHANGED <<status, live, others, write, ran>>,
           c.pc # "running", k \in Passing' => k \in Passing \/ Denials <= Retries
    PROVE  ConfirmationInv'
<1>0. k \in Callers /\ TypeOK /\ live \subseteq Ids
  BY DEF ConfirmationInv, InFlight, TypeOK
<1>1. call' \in [Callers -> Called] /\ call'[k] = c /\ \A m \in Callers \ {k} : call'[m] = call[m]
  BY <1>0, CallMoves
<1>2. TypeOK'
  BY <1>0, <1>1 DEF TypeOK, Free
<1>3. IdsLeft'
  <2>1. InFlight' \subseteq InFlight /\ Free' = Free
    BY <1>0, <1>1 DEF InFlight, Free
  <2>2. Cardinality(InFlight') <= Cardinality(InFlight)
    BY <2>1, CountedFinite, FS_Subset
  <2> QED BY <2>1, <2>2, CountedFinite, CountedFiniteNext DEF ConfirmationInv, IdsLeft
<1>4. SpentOnce'
  <2>1. \A i \in Ids : Runners(i)' \subseteq Runners(i)
    BY <1>0, <1>1 DEF Runners
  <2> QED BY <2>1 DEF ConfirmationInv, SpentOnce
<1>5. PendingUnique' /\ Pending' = Pending /\ Live("denied")' = Live("denied")
  BY DEF ConfirmationInv, PendingUnique, Pending, Live
<1>6. PromptsPaid'
  <2>1. Passing' \subseteq Passing \cup {k}
    BY <1>0, <1>1 DEF Passing
  <2>2. CASE Passing' \subseteq Passing
    BY <1>0, <1>5, <2>2, PaidStays DEF ConfirmationInv
  <2>3. CASE Denials <= Retries
    BY <1>0, <2>3, PaidPasses DEF ConfirmationInv
  <2> QED BY <2>1, <2>2, <2>3
<1> QED BY <1>2, <1>3, <1>4, <1>5, <1>6 DEF ConfirmationInv

\* The statuses that a decision or an expiry changes: no id is freed, nothing
\* becomes pending, and nothing is spent.
LEMMA StatusStep ==
    ASSUME ConfirmationInv, UNCHANGED <<call, ran>>, status' \in [Ids -> Status],
           \A i \in Ids : status'[i] # status[i] =>
               status[i] \notin {"free", "executed"} /\ status'[i] \notin {"free", "pending", "executed"},
           live' \subseteq live
    PROVE  /\ IdsLeft' /\ SpentOnce' /\ PendingUnique' /\ Pending' \subseteq Pending
           /\ live' \subseteq Ids \ Free'
<1>1. Free' = Free /\ Pending' \subseteq Pending
  BY DEF Free, Pending
<1>2. InFlight' = InFlight /\ \A i \in Ids : Runners(i)' = Runners(i)
  BY DEF InFlight, Runners
<1>3. SpentOnce'
  BY <1>2 DEF ConfirmationInv, SpentOnce
<1> QED BY <1>1, <1>2, <1>3 DEF ConfirmationInv, IdsLeft, PendingUnique, TypeOK

\* A confirmation is stored: the prompt is paid for by the call that passed.
LEMMA InsertStep ==
    ASSUME ConfirmationInv, NEW k \in Callers, Insert(k)
    PROVE  ConfirmationInv' /\ (status' # status => status[NewId] = "free" /\ NewId \in Ids)
<1>0. TypeOK /\ live \subseteq Ids /\ k \in InFlight /\ k \in Passing /\ call[k] \in Called
  BY DEF ConfirmationInv, InFlight, TypeOK, Insert, Passing
<1>1. CASE Indexed
  <2>0. Goes(k, "recheck") /\ "recheck" \in CallPoint
    BY <1>1 DEF Insert, CallPoint
  <2>1. PICK c \in Called : call' = [call EXCEPT ![k] = c] /\ c.pc = "recheck"
    BY <1>0, <2>0, GoesStep DEF MovesTo
  <2> QED BY <1>0, <1>1, <2>1, ReadStep DEF Insert
<1>2. CASE ~Indexed
  <2> DEFINE n == NewId
  <2>1. n \in Ids /\ status[n] = "free"
    BY <1>0, NewIdIsFree DEF ConfirmationInv
  <2>2. /\ status' = [status EXCEPT ![n] = "pending"] /\ live' = live \cup {n}
        /\ call' = [call EXCEPT ![k] = Rested] /\ UNCHANGED <<others, write, ran>>
    BY <1>2 DEF Insert, Answers
  <2> HIDE DEF n
  <2>3. call' \in [Callers -> Called] /\ call'[k] = Rested /\ Rested.pc = "done"
        /\ \A m \in Callers \ {k} : call'[m] = call[m]
    BY <1>0, <2>2, RestedTypes, CallMoves
  <2>4. TypeOK'
    BY <1>0, <2>1, <2>2, <2>3 DEF TypeOK, Status, Free
  <2>5. /\ InFlight' = InFlight \ {k} /\ Free' = Free \ {n} /\ n \in Free
        /\ Pending = {} /\ Pending' = {n} /\ Live("denied")' = Live("denied")
        /\ Passing' = Passing \ {k}
    <3>1. InFlight' = InFlight \ {k} /\ Passing' = Passing \ {k}
      BY <1>0, <2>3 DEF InFlight, Passing
    <3>2. Free' = Free \ {n} /\ n \in Free
      BY <1>0, <2>1, <2>2 DEF TypeOK, Free
    <3>3. Pending = {} /\ Pending' = {n} /\ Live("denied")' = Live("denied")
      BY <1>0, <1>2, <2>1, <2>2 DEF TypeOK, Pending, Indexed, Live
    <3> QED BY <3>1, <3>2, <3>3
  <2>6. IdsLeft'
    <3>1. Cardinality(InFlight') = Cardinality(InFlight) - 1
          /\ Cardinality(Free') = Cardinality(Free) - 1
      BY <1>0, <2>5, CountedFinite, FS_RemoveElement
    <3> QED BY <3>1, CountedFinite DEF ConfirmationInv, IdsLeft
  <2>7. SpentOnce'
    <3>1. \A i \in Ids : Runners(i)' \subseteq Runners(i)
      BY <1>0, <2>3 DEF Runners
    <3>2. \A i \in Ids : status'[i] # "executed" => status[i] # "executed"
      BY <1>0, <2>1, <2>2 DEF TypeOK
    <3> QED BY <2>2, <3>1, <3>2 DEF ConfirmationInv, SpentOnce
  <2>8. PendingUnique'
    BY <2>5 DEF PendingUnique
  <2>9. PromptsPaid'
    <3>1. Cardinality(Passing') = Cardinality(Passing) - 1 /\ Cardinality(Pending) = 0
      BY <1>0, <2>5, CountedFinite, FS_RemoveElement, FS_EmptySet
    <3>2. Cardinality({n}) = 1
      BY FS_Singleton
    <3>3. Cardinality(Pending') = 1 /\ Denials' = Denials /\ Denials \in Nat
      BY <1>0, <2>5, <3>2, CountedFinite DEF Denials
    <3> QED BY <3>1, <3>3, CountedFinite, ConfirmationAssumption, SMT
            DEF ConfirmationInv, PromptsPaid
  <2> QED BY <2>1, <2>4, <2>6, <2>7, <2>8, <2>9 DEF ConfirmationInv, n
<1> QED BY <1>1, <1>2

\* A call claims an approval: no other runs under it, or has.
LEMMA ClaimStep ==
    ASSUME ConfirmationInv, NEW k \in Callers, Claim(k)
    PROVE  ConfirmationInv'
<1>0. TypeOK /\ live \subseteq Ids /\ k \in InFlight /\ call[k] \in Called /\ k \notin Passing
  BY DEF ConfirmationInv, InFlight, TypeOK, Claim, Passing
<1>3. PICK i \in Ids \cup {NoId} : i = call[k].row
  BY <1>0 DEF Called
<1>1. CASE i \notin Live("approved")
  <2>0. Goes(k, "refetch") /\ "refetch" \in CallPoint /\ TypeOK
    BY <1>0, <1>1, <1>3 DEF Claim, CallPoint
  <2>1. PICK c \in Called : call' = [call EXCEPT ![k] = c] /\ c.pc = "refetch"
    BY <2>0, GoesStep DEF MovesTo
  <2>2. k \notin Passing'
    BY <1>0, <2>1, CallMoves DEF Passing
  <2> QED BY <1>0, <1>1, <1>3, <2>1, <2>2, ReadStep DEF Claim
<1>2. CASE i \in Live("approved")
  <2>1. i \in Ids /\ i \in live /\ status[i] = "approved"
    BY <1>0, <1>2 DEF Live
  <2>2. status' = [status EXCEPT ![i] = "executed"] /\ UNCHANGED <<live, others, write, ran>>
    BY <1>2, <1>3 DEF Claim
  <2>0. Goes(k, "running") /\ "running" \in CallPoint /\ TypeOK
    BY <1>0, <1>2, <1>3 DEF Claim, CallPoint
  <2>3. PICK c \in Called : call' = [call EXCEPT ![k] = c] /\ c.pc = "running" /\ c.row = i
    <3>1. MovesTo(k, "running", i)
      BY <1>3, <2>0, GoesStep
    <3> QED BY <3>1 DEF MovesTo
  <2>4. call' \in [Callers -> Called] /\ call'[k] = c /\ \A m \in Callers \ {k} : call'[m] = call[m]
    BY <1>0, <2>3, CallMoves
  <2>5. TypeOK'
    BY <1>0, <2>1, <2>2, <2>4 DEF TypeOK, Status, Free
  <2>6. InFlight' = InFlight /\ Free' = Free /\ Pending' = Pending
        /\ Live("denied")' = Live("denied") /\ Passing' \subseteq Passing
    <3>1. InFlight' = InFlight /\ Passing' \subseteq Passing
      BY <1>0, <2>3, <2>4 DEF InFlight, Passing
    <3> QED BY <1>0, <2>1, <2>2, <3>1 DEF Free, Pending, Live, TypeOK
  <2>7. SpentOnce'
    <3>1. call[k].pc = "claim"
      BY DEF Claim
    <3>2. Runners(i) = {} /\ ran[i] = 0
      BY <2>1 DEF ConfirmationInv, SpentOnce
    <3>3. Runners(i)' = {k} /\ \A j \in Ids \ {i} : Runners(j)' = Runners(j)
      <4>1. Runners(i)' = {k}
        BY <2>3, <2>4, <3>2 DEF Runners
      <4>2. \A j \in Ids \ {i} : Runners(j)' = Runners(j)
        BY <2>3, <2>4, <3>1 DEF Runners
      <4> QED BY <4>1, <4>2
    <3>4. \A j \in Ids \ {i} : status'[j] = status[j]
      BY <1>0, <2>1, <2>2 DEF TypeOK
    <3>5. status'[i] = "executed" /\ ran' = ran
      BY <1>0, <2>1, <2>2 DEF TypeOK
    <3> QED BY <3>2, <3>3, <3>4, <3>5 DEF ConfirmationInv, SpentOnce
  <2>8. PromptsPaid'
    BY <1>0, <2>6, PaidStays DEF ConfirmationInv
  <2> QED BY <2>5, <2>6, <2>7, <2>8 DEF ConfirmationInv, IdsLeft, PendingUnique
<1> QED BY <1>1, <1>2

\* The tool runs.
LEMMA RunStep ==
    ASSUME ConfirmationInv, NEW k \in Callers, RunTool(k)
    PROVE  ConfirmationInv'
<1>0. TypeOK /\ live \subseteq Ids /\ k \in InFlight /\ call[k] \in Called /\ call[k].pc = "running"
  BY DEF ConfirmationInv, InFlight, TypeOK, RunTool
<1>9. PICK i \in Ids \cup {NoId} : i = call[k].row
  BY <1>0 DEF Called
<1>1. call' \in [Callers -> Called] /\ call'[k] = Rested /\ Rested.pc = "done"
      /\ \A m \in Callers \ {k} : call'[m] = call[m]
  BY <1>0, RestedTypes, CallMoves DEF RunTool, Answers
<1>2. ran' = [ran EXCEPT ![i] = @ + 1] /\ UNCHANGED <<status, live, others, write>>
  BY <1>9 DEF RunTool
<1>3. ran' \in [Ids -> Nat]
  <2>1. ran \in [Ids -> Nat]
    BY <1>0 DEF TypeOK
  <2>2. CASE i \in Ids
    <3>1. ran[i] + 1 \in Nat
      BY <2>1, <2>2
    <3> QED BY <1>2, <2>1, <3>1
  <2>3. CASE i \notin Ids
    BY <1>2, <2>1, <2>3
  <2> QED BY <2>2, <2>3
<1>4. TypeOK'
  BY <1>0, <1>1, <1>2, <1>3 DEF TypeOK, Free
<1>5. InFlight' \subseteq InFlight /\ Passing' \subseteq Passing /\ Free' = Free
      /\ Pending' = Pending /\ Live("denied")' = Live("denied")
  BY <1>0, <1>1, <1>2 DEF InFlight, Passing, Free, Pending, Live
<1>6. IdsLeft'
  <2>1. Cardinality(InFlight') <= Cardinality(InFlight)
    BY <1>5, CountedFinite, FS_Subset
  <2> QED BY <1>5, <2>1, CountedFinite, CountedFiniteNext DEF ConfirmationInv, IdsLeft
<1>7. SpentOnce'
  <2>1. \A j \in Ids : Runners(j)' \subseteq Runners(j)
    BY <1>0, <1>1 DEF Runners
  <2>2. \A j \in Ids \ {i} : ran'[j] = ran[j]
    BY <1>0, <1>2 DEF TypeOK
  <2>3. ASSUME i \in Ids
        PROVE  /\ ran[i] = 0 /\ ran'[i] = 1 /\ Runners(i)' = {} /\ status[i] = "executed"
    <3>1. k \in Runners(i)
      BY <1>0, <1>9 DEF Runners
    <3>2. Runners(i) = {k} /\ ran[i] \in Nat /\ ~(ran[i] > 0) /\ status[i] = "executed"
      BY <1>0, <2>3, <3>1 DEF ConfirmationInv, SpentOnce, TypeOK
    <3>3. Runners(i)' = {}
      BY <1>1, <2>1, <2>3, <3>2 DEF Runners
    <3>4. ran'[i] = ran[i] + 1
      BY <1>0, <1>2, <2>3 DEF TypeOK
    <3> QED BY <3>2, <3>3, <3>4
  <2> QED BY <1>2, <2>1, <2>2, <2>3 DEF ConfirmationInv, SpentOnce
<1>8. PromptsPaid'
  BY <1>0, <1>5, PaidStays DEF ConfirmationInv
<1> QED BY <1>4, <1>5, <1>6, <1>7, <1>8 DEF ConfirmationInv, PendingUnique

\* The invariant holds before the first call.
LEMMA ConfirmationInit == Init => ConfirmationInv
<1> SUFFICES ASSUME Init PROVE ConfirmationInv
  OBVIOUS
<1>1. TypeOK
  <2>1. others \in 0..MaxOthers
    BY ConfirmationAssumption DEF Init
  <2>2. call \in [Callers -> Called]
    BY RestedTypes DEF Init
  <2>3. NoWrite \in [row : Ids \cup {NoId}, from : {"pending", "denied"}, to : {"approved", "denied"}]
    BY DEF NoWrite
  <2> QED BY <2>1, <2>2, <2>3 DEF Init, TypeOK, Status
<1>2. InFlight = {} /\ Pending = {} /\ Passing = {} /\ Live("denied") = {}
      /\ \A i \in Ids : Runners(i) = {}
  BY RestedTypes DEF Init, InFlight, Pending, Passing, Live, Runners
<1>3. IdsLeft /\ PromptsPaid
  BY <1>2, FS_EmptySet, CountedFinite, ConfirmationAssumption DEF IdsLeft, PromptsPaid, Denials
<1> QED BY <1>1, <1>2, <1>3 DEF ConfirmationInv, SpentOnce, PendingUnique, Init

\* Every step of a call keeps the invariant.
LEMMA CallerNext ==
    ASSUME ConfirmationInv, NEW k \in Callers,
           \/ \E retry \in BOOLEAN : Call(k, retry)
           \/ Find(k) \/ Claim(k) \/ Refetch(k) \/ RunTool(k) \/ Count(k)
           \/ Dedup(k) \/ Insert(k) \/ Recheck(k) \/ Clear(k) \/ CallLost(k)
    PROVE  ConfirmationInv'
<1>0. TypeOK /\ live \subseteq Ids /\ call[k] \in Called
  BY DEF ConfirmationInv, TypeOK
\* A step that goes to p, or answers.
<1>1. ASSUME k \in InFlight, UNCHANGED <<status, live, others, write, ran>>,
             Answers(k) \/ \E p \in CallPoint \ {"running"} : Goes(k, p), 
             k \in Passing' => k \in Passing \/ Denials <= Retries
      PROVE  ConfirmationInv'
  <2>1. CASE Answers(k)
    BY <1>1, <2>1, RestedTypes, ReadStep DEF Answers
  <2>2. ASSUME NEW p \in CallPoint \ {"running"}, Goes(k, p) PROVE ConfirmationInv'
    <3>1. PICK c \in Called : call' = [call EXCEPT ![k] = c] /\ c.pc = p
      BY <1>0, <2>2, GoesStep DEF MovesTo
    <3> QED BY <1>1, <2>2, <3>1, ReadStep
  <2> QED BY <1>1, <2>1, <2>2
<1>2. Answers(k) => k \notin Passing'
  BY <1>0, RestedTypes, CallMoves DEF Answers, Passing
<1>3. {"dedup", "count", "recheck", "clear", "insert", "claim"} \subseteq CallPoint \ {"running"}
  BY DEF CallPoint
<1>4. ASSUME NEW retry \in BOOLEAN, Call(k, retry) PROVE ConfirmationInv'
  <2> DEFINE c == [Rested EXCEPT !.pc = "find", !.retry = retry]
  <2>1. c \in Called /\ c.pc = "find"
    BY RestedTypes DEF Called, CallPoint
  <2>2. /\ call' = [call EXCEPT ![k] = c] /\ k \notin InFlight
        /\ Cardinality(InFlight) < Cardinality(Free) /\ UNCHANGED <<status, live, others, write, ran>>
    BY <1>4 DEF Call
  <2> HIDE DEF c
  <2>3. call' \in [Callers -> Called] /\ call'[k] = c /\ \A m \in Callers \ {k} : call'[m] = call[m]
    BY <1>0, <2>1, <2>2, CallMoves
  <2>4. TypeOK' /\ PendingUnique'
    BY <1>0, <2>2, <2>3 DEF TypeOK, Free, ConfirmationInv, PendingUnique, Pending
  <2>5. IdsLeft'
    <3>1. InFlight' = InFlight \cup {k} /\ Free' = Free
      BY <2>1, <2>2, <2>3 DEF InFlight, Free
    <3>2. Cardinality(InFlight') = Cardinality(InFlight) + 1
      BY <2>2, <3>1, CountedFinite, FS_AddElement
    <3> QED BY <2>2, <3>1, <3>2, CountedFinite DEF IdsLeft
  <2>6. SpentOnce'
    <3>1. \A i \in Ids : Runners(i)' = Runners(i)
      BY <2>1, <2>2, <2>3 DEF Runners, InFlight
    <3> QED BY <2>2, <3>1 DEF ConfirmationInv, SpentOnce
  <2>7. PromptsPaid'
    <3>1. Passing' = Passing /\ Pending' = Pending /\ Live("denied")' = Live("denied")
      BY <2>1, <2>2, <2>3 DEF Passing, InFlight, Pending, Live
    <3> QED BY <1>0, <3>1, PaidStays DEF ConfirmationInv
  <2> QED BY <2>4, <2>5, <2>6, <2>7 DEF ConfirmationInv
<1>5. CASE Find(k)
  <2>0. k \in InFlight /\ call[k].pc = "find" /\ UNCHANGED <<status, live, others, write, ran>>
    BY <1>5 DEF Find, InFlight
  <2>1. ASSUME NEW i \in Ids, NEW p \in {"claim", "count", "dedup"},
               call' = [call EXCEPT ![k].pc = p, ![k].row = i], p = "dedup" => ~call[k].retry
        PROVE  ConfirmationInv'
    <3>1. p \in CallPoint /\ p # "running"
      BY DEF CallPoint
    <3>2. PICK c \in Called : /\ call' = [call EXCEPT ![k] = c] /\ c.pc = p
                               /\ c.row = i /\ c.retry = call[k].retry
      <4>1. MovesTo(k, p, i)
        BY <1>0, <2>1, <3>1, FoundStep
      <4> QED BY <4>1 DEF MovesTo
    <3>3. k \notin Passing'
      BY <1>0, <2>1, <3>2, CallMoves, ConfirmationAssumption DEF Passing
    <3> QED BY <2>0, <3>1, <3>2, <3>3, ReadStep
  <2>2. ASSUME Live("denied") = {}, NEW p \in {"count", "dedup"}, Goes(k, p) PROVE ConfirmationInv'
    <3>1. Denials <= Retries
      BY <2>2, FS_EmptySet, ConfirmationAssumption DEF Denials
    <3> QED BY <1>1, <1>3, <2>0, <2>2, <3>1
  <2>3. \A s \in {"approved", "denied"} : Live(s) \subseteq Ids
    BY <1>0 DEF Live
  <2>4. CASE \E i \in Live("approved") : call' = [call EXCEPT ![k].pc = "claim", ![k].row = i]
    <3>1. PICK i \in Live("approved") : call' = [call EXCEPT ![k].pc = "claim", ![k].row = i]
      BY <2>4
    <3>2. i \in Ids
      BY <2>3
    <3> QED BY <2>1, <3>1, <3>2
  <2>5. CASE \E i \in Live("denied"), p \in {"count", "dedup"} :
                /\ call' = [call EXCEPT ![k].pc = p, ![k].row = i]
                /\ p = "dedup" => ~call[k].retry
    <3>1. PICK i \in Live("denied"), p \in {"count", "dedup"} :
                /\ call' = [call EXCEPT ![k].pc = p, ![k].row = i]
                /\ p = "dedup" => ~call[k].retry
      BY <2>5
    <3>2. i \in Ids /\ p \in {"claim", "count", "dedup"}
      BY <2>3
    <3> QED BY <2>1, <3>1, <3>2
  <2>6. CASE Live("denied") = {} /\ \E p \in {"count", "dedup"} : Goes(k, p)
    BY <2>2, <2>6
  <2>7. CASE call[k].retry
    BY <1>5, <2>4, <2>5, <2>6, <2>7 DEF Find
  <2>8. CASE ~call[k].retry
    BY <1>5, <2>4, <2>5, <2>6, <2>8 DEF Find
  <2> QED BY <2>7, <2>8
<1>6. CASE Refetch(k) \/ CallLost(k)
  BY <1>1, <1>2, <1>6 DEF Refetch, CallLost, Answers, InFlight
<1>7. CASE Count(k)
  <2>0. k \in InFlight
    BY <1>7 DEF Count, InFlight
  <2>1. CASE Answers(k)
    BY <1>1, <1>2, <1>7, <2>0, <2>1 DEF Count
  <2>2. CASE Goes(k, "dedup") /\ (call[k].row = NoId \/ ~(Denials > Retries))
    <3>1. k \in Passing \/ Denials <= Retries
      BY <1>0, <1>7, <2>2, CountedFinite, ConfirmationAssumption DEF Count, Passing
    <3> QED BY <1>1, <1>3, <1>7, <2>0, <2>2, <3>1 DEF Count
  <2> QED BY <1>7, <2>1, <2>2 DEF Count
<1>8. CASE Dedup(k)
  <2>0. k \in InFlight
    BY <1>8 DEF Dedup, InFlight
  <2>1. CASE Answers(k)
    BY <1>1, <1>2, <1>8, <2>0, <2>1 DEF Dedup
  <2>2. CASE Goes(k, "insert") /\ (call[k].row = NoId \/ call[k].retry)
    <3>1. k \in Passing
      BY <1>8, <2>2 DEF Dedup, Passing
    <3> QED BY <1>1, <1>3, <1>8, <2>0, <2>2, <3>1 DEF Dedup
  <2> QED BY <1>8, <2>1, <2>2 DEF Dedup
<1>9. CASE Recheck(k)
  <2>0. k \in InFlight /\ k \in Passing
    BY <1>9 DEF Recheck, InFlight, Passing
  <2> QED BY <1>1, <1>2, <1>3, <1>9, <2>0 DEF Recheck
<1>10. CASE Clear(k)
  <2>0. k \in InFlight /\ k \in Passing /\ "insert" \in CallPoint
    BY <1>10 DEF Clear, InFlight, Passing, CallPoint
  <2>1. PICK c \in Called : call' = [call EXCEPT ![k] = c] /\ c.pc = "insert"
    <3>1. MovesTo(k, "insert", call[k].row)
      BY <1>0, <1>10, <2>0, GoesStep DEF Clear
    <3> QED BY <3>1 DEF MovesTo
  <2>2. call' \in [Callers -> Called] /\ call'[k] = c /\ \A m \in Callers \ {k} : call'[m] = call[m]
    BY <1>0, <2>1, CallMoves
  <2>3. /\ status' = [i \in Ids |-> IF status[i] = "pending" /\ i \notin live THEN "expired"
                                                                              ELSE status[i]]
        /\ UNCHANGED <<live, others, write, ran>>
    BY <1>10 DEF Clear
  <2>4. Free' = Free /\ Pending' \subseteq Pending /\ Live("denied")' = Live("denied")
        /\ status' \in [Ids -> Status]
    BY <1>0, <2>3 DEF Free, Pending, Live, TypeOK, Status
  <2>5. /\ InFlight' = InFlight /\ Passing' = Passing /\ \A i \in Ids : Runners(i)' = Runners(i)
    BY <2>0, <2>1, <2>2, <1>10 DEF InFlight, Passing, Runners, Clear
  <2>6. TypeOK'
    BY <1>0, <2>2, <2>3, <2>4 DEF TypeOK
  <2>7. SpentOnce'
    <3>1. \A i \in Ids : status'[i] # "executed" => status[i] # "executed"
      BY <2>3
    <3> QED BY <2>3, <2>5, <3>1 DEF ConfirmationInv, SpentOnce
  <2>8. PromptsPaid'
    BY <1>0, <2>4, <2>5, PaidStays DEF ConfirmationInv
  <2> QED BY <2>4, <2>5, <2>6, <2>7, <2>8 DEF ConfirmationInv, IdsLeft, PendingUnique
<1> QED BY <1>4, <1>5, <1>6, <1>7, <1>8, <1>9, <1>10, ClaimStep, RunStep, InsertStep

\* Decisions, and time that passes, keep it as well.
LEMMA DecisionsNext ==
    ASSUME ConfirmationInv,
           \/ \E d \in Deciders : DecideWrites(d) \/ \E i \in Ids : DecideReads(d, i)
           \/ Expires \/ OtherDenied \/ UNCHANGED vars
    PROVE  ConfirmationInv'
<1>0. TypeOK /\ live \subseteq Ids /\ status \in [Ids -> Status] /\ others \in 0..MaxOthers
  BY DEF ConfirmationInv, TypeOK
\* A step that changes no confirmation, unless one expires.
<1>1. ASSUME UNCHANGED <<status, call, ran>>, live' \subseteq live, TypeOK' PROVE ConfirmationInv'
  <2>1. IdsLeft' /\ SpentOnce' /\ PendingUnique' /\ Pending' \subseteq Pending
    BY <1>0, <1>1, StatusStep
  <2>2. Live("denied")' \subseteq Live("denied") /\ Passing' = Passing
    BY <1>1 DEF Live, Passing
  <2> QED BY <1>0, <1>1, <2>1, <2>2, PaidStays DEF ConfirmationInv
<1>2. ASSUME NEW d \in Deciders, NEW i \in Ids, DecideReads(d, i) PROVE ConfirmationInv'
  <2>1. write' \in [Deciders -> [row : Ids \cup {NoId}, from : {"pending", "denied"},
                                 to : {"approved", "denied"}]]
    BY <1>0, <1>2 DEF DecideReads, TypeOK
  <2>2. TypeOK'
    BY <1>0, <1>2, <2>1 DEF DecideReads, TypeOK, Free
  <2> QED BY <1>1, <1>2, <2>2 DEF DecideReads
<1>3. CASE Expires \/ OtherDenied \/ UNCHANGED vars
  <2>1. others' \in 0..MaxOthers /\ live' \subseteq live /\ UNCHANGED <<status, call, write, ran>>
    BY <1>0, <1>3, ConfirmationAssumption DEF Expires, OtherDenied, vars
  <2>2. TypeOK'
    BY <1>0, <2>1 DEF TypeOK, Free
  <2> QED BY <1>1, <2>1, <2>2
<1>4. ASSUME NEW d \in Deciders, DecideWrites(d) PROVE ConfirmationInv'
  <2>0. PICK w \in [row : Ids \cup {NoId}, from : {"pending", "denied"}, to : {"approved", "denied"}] :
          w = write[d]
    BY <1>0 DEF TypeOK
  <2>1. write' = [write EXCEPT ![d] = NoWrite] /\ UNCHANGED <<live, others, call, ran>>
    BY <1>4 DEF DecideWrites
  <2>2. write' \in [Deciders -> [row : Ids \cup {NoId}, from : {"pending", "denied"},
                                 to : {"approved", "denied"}]]
    BY <1>0, <2>1 DEF TypeOK, NoWrite
  <2>3. CASE w.row \notin Live(w.from)
    <3>1. status' = status
      BY <1>4, <2>0, <2>3 DEF DecideWrites
    <3>2. TypeOK'
      BY <1>0, <2>1, <2>2, <3>1 DEF TypeOK, Free
    <3> QED BY <1>1, <2>1, <3>1, <3>2
  <2>4. CASE w.row \in Live(w.from)
    <3> DEFINE i == w.row
    <3>1. i \in Ids /\ i \in live /\ status[i] = w.from /\ status' = [status EXCEPT ![i] = w.to]
      BY <1>0, <1>4, <2>0, <2>4 DEF DecideWrites, Live
    <3>2. /\ status' \in [Ids -> Status] /\ status'[i] = w.to
          /\ \A j \in Ids \ {i} : status'[j] = status[j]
      BY <1>0, <3>1 DEF Status
    <3> HIDE DEF i
    <3>3. w.from \in {"pending", "denied"} /\ w.to \in {"approved", "denied"}
      OBVIOUS
    <3>4. /\ IdsLeft' /\ SpentOnce' /\ PendingUnique' /\ Pending' \subseteq Pending
          /\ live' \subseteq Ids \ Free'
      BY <2>1, <3>1, <3>2, <3>3, StatusStep
    <3>5. TypeOK'
      BY <1>0, <2>1, <2>2, <3>2, <3>4 DEF TypeOK
    <3>6. Passing' = Passing
      BY <2>1 DEF Passing
    <3>7. CASE w.from = "pending" /\ w.to = "denied"
      <4>1. Live("denied")' = Live("denied") \cup {i} /\ i \notin Live("denied")
            /\ Pending' = Pending \ {i} /\ i \in Pending
        BY <2>1, <3>1, <3>2, <3>7 DEF Live, Pending
      <4>2. Denials' = Denials + 1 /\ Cardinality(Pending') = Cardinality(Pending) - 1
        <5>1. IsFiniteSet(Live("denied")) /\ IsFiniteSet(Pending)
          BY <1>0, CountedFinite
        <5>2. Cardinality(Live("denied") \cup {i}) = Cardinality(Live("denied")) + 1
          BY <4>1, <5>1, FS_AddElement
        <5>3. Cardinality(Pending \ {i}) = Cardinality(Pending) - 1
          BY <4>1, <5>1, FS_RemoveElement
        <5> QED BY <4>1, <5>2, <5>3 DEF Denials
      <4>3. PromptsPaid'
        BY <1>0, <3>6, <4>2, CountedFinite, ConfirmationAssumption, SMT
           DEF ConfirmationInv, PromptsPaid
      <4> QED BY <3>4, <3>5, <4>3 DEF ConfirmationInv
    <3>8. CASE w.from = "denied" \/ w.to = "approved"
      <4>1. Live("denied")' \subseteq Live("denied")
        BY <2>1, <3>1, <3>2, <3>3, <3>8 DEF Live
      <4>2. PromptsPaid'
        BY <1>0, <3>4, <3>6, <4>1, PaidStays DEF ConfirmationInv
      <4> QED BY <3>4, <3>5, <4>2 DEF ConfirmationInv
    <3> QED BY <3>3, <3>7, <3>8
  <2> QED BY <2>3, <2>4
<1> QED BY <1>2, <1>3, <1>4

\* The invariant holds in every state.
LEMMA ConfirmationInvHolds == Spec => []ConfirmationInv
<1>1. ConfirmationInv /\ [Next]_vars => ConfirmationInv'
  BY CallerNext, DecisionsNext DEF Next
<1> QED BY <1>1, ConfirmationInit, PTL DEF Spec
-----------------------------------------------------------------------------
\* The stored confirmations and the requests in progress keep their types: there
\* is an unused id for every call that may need one.
THEOREM ConfirmationsTyped == Spec => []TypeOK
<1>1. ConfirmationInv => TypeOK
  BY DEF ConfirmationInv
<1> QED BY <1>1, ConfirmationInvHolds, PTL

\* However many calls find the same approval, one of them runs the tool, once.
THEOREM ApprovalsRunOnce == Spec => []ApprovalRunsOnce
<1>1. ConfirmationInv => ApprovalRunsOnce
  <2> SUFFICES ASSUME ConfirmationInv, NEW i \in Ids
      PROVE  /\ ran[i] + Cardinality(Runners(i)) <= 1
             /\ ran[i] + Cardinality(Runners(i)) > 0 => status[i] = "executed"
    BY DEF ApprovalRunsOnce
  <2>0. ran[i] \in Nat
    BY DEF ConfirmationInv, TypeOK
  <2>1. CASE Runners(i) = {}
    <3>1. Cardinality(Runners(i)) = 0
      BY <2>1, FS_EmptySet
    <3> QED BY <2>0, <3>1 DEF ConfirmationInv, SpentOnce
  <2>2. ASSUME NEW k \in Runners(i)
        PROVE  /\ ran[i] + Cardinality(Runners(i)) <= 1
               /\ ran[i] + Cardinality(Runners(i)) > 0 => status[i] = "executed"
    <3>1. Runners(i) = {k} /\ ran[i] = 0 /\ status[i] = "executed"
      BY <2>0, <2>2 DEF ConfirmationInv, SpentOnce
    <3>2. Cardinality({k}) = 1
      BY FS_Singleton
    <3> QED BY <3>1, <3>2
  <2> QED BY <2>1, <2>2
<1> QED BY <1>1, ConfirmationInvHolds, PTL

\* The user sees one prompt for an action, and a bounded number of them after
\* having refused it, whatever is asked at the same time.
THEOREM PromptsAreBounded == Spec => []PromptsBounded
<1>1. ConfirmationInv => PromptsBounded
  <2> SUFFICES ASSUME ConfirmationInv PROVE OnePrompt /\ OvershootIsBounded
    BY DEF PromptsBounded
  <2>1. live \subseteq Ids
    BY DEF ConfirmationInv, TypeOK
  <2>2. OvershootIsBounded
    BY <2>1, CountedFinite, ConfirmationAssumption DEF ConfirmationInv, PromptsPaid, OvershootIsBounded
  <2>3. Cardinality(Pending) <= 1
    <3>1. CASE Pending = {}
      BY <3>1, FS_EmptySet
    <3>2. ASSUME NEW i \in Pending PROVE Cardinality(Pending) <= 1
      <4>1. Pending = {i}
        BY <3>2 DEF ConfirmationInv, PendingUnique
      <4>2. Cardinality({i}) = 1
        BY FS_Singleton
      <4> QED BY <4>1, <4>2
    <3> QED BY <3>1, <3>2
  <2> QED BY <2>2, <2>3 DEF OnePrompt, Pending
<1> QED BY <1>1, ConfirmationInvHolds, PTL

\* A decision stands, and an approval ends in nothing but its execution.
THEOREM DecisionsAreFinal == Spec => DecisionsStand
<1> DEFINE Stands == \A i \in Ids : status[i] # status'[i] =>
                /\ status'[i] \in Follows[status[i]]
                /\ (status'[i] = "expired") = (status[i] # "free" /\ i \notin live)
<1>1. ConfirmationInv /\ [Next]_vars => [Stands]_vars
  <2> SUFFICES ASSUME ConfirmationInv, Next, NEW i \in Ids, status[i] # status'[i]
      PROVE  /\ status'[i] \in Follows[status[i]]
             /\ (status'[i] = "expired") = (status[i] # "free" /\ i \notin live)
    OBVIOUS
  <2>0. TypeOK /\ status \in [Ids -> Status] /\ live \subseteq Ids \ Free
    BY DEF ConfirmationInv, TypeOK
  <2>1. ASSUME NEW k \in Callers, Insert(k)
        PROVE  status[i] = "free" /\ status'[i] = "pending"
    <3>1. status[NewId] = "free" /\ NewId \in Ids
      BY <2>1, InsertStep
    <3> QED BY <2>0, <2>1, <3>1 DEF Insert
  <2>2. ASSUME NEW k \in Callers, Claim(k)
        PROVE  i \in live /\ status[i] = "approved" /\ status'[i] = "executed"
    BY <2>0, <2>2 DEF Claim, Live
  <2>3. ASSUME NEW k \in Callers, Clear(k)
        PROVE  i \notin live /\ status[i] = "pending" /\ status'[i] = "expired"
    BY <2>0, <2>3 DEF Clear
  <2>4. ASSUME NEW d \in Deciders, DecideWrites(d)
        PROVE  /\ i \in live /\ status[i] \in {"pending", "denied"}
               /\ status'[i] \in {"approved", "denied"}
    <3>1. write[d].from \in {"pending", "denied"} /\ write[d].to \in {"approved", "denied"}
      BY <2>0 DEF TypeOK
    <3> QED BY <2>0, <2>4, <3>1 DEF DecideWrites, Live
  <2>5. \/ status[i] = "free" /\ status'[i] = "pending"
        \/ i \in live /\ status[i] = "approved" /\ status'[i] = "executed"
        \/ i \notin live /\ status[i] = "pending" /\ status'[i] = "expired"
        \/ i \in live /\ status[i] \in {"pending", "denied"} /\ status'[i] \in {"approved", "denied"}
    BY <2>1, <2>2, <2>3, <2>4 DEF Next, Call, Find, Refetch, RunTool, Count, Dedup, Recheck,
                                  CallLost, DecideReads, Expires, OtherDenied
  <2> QED BY <2>5 DEF Follows
<1>2. Spec => []ConfirmationInv
  BY ConfirmationInvHolds
<1> QED BY <1>1, <1>2, PTL DEF Spec, DecisionsStand
=============================================================================
