--------------------------- MODULE PluginPackages ---------------------------
(***************************************************************************)
(* Plugins as the store keeps them: one row for each plugin, a version row *)
(* for each revision, and the content of their files in blobs shared by    *)
(* every revision and plugin with the same content.  Editors publish what  *)
(* they derived from a revision, packages are uploaded, plugins deleted;   *)
(* each of these is a transaction at READ COMMITTED.                       *)
(***************************************************************************)
EXTENDS Naturals

CONSTANTS
    Plugins, Blobs,
    Writers,       \* requests at once
    MaxRevision,   \* bound on the revisions of a plugin
    MaxLives       \* bound on how often a plugin is deleted

ASSUME PluginAssumption == MaxRevision \in Nat /\ MaxLives \in Nat

VARIABLES
    head,      \* of each plugin: its current revision, 0 without a row
    content,   \* of each plugin and revision: its blobs; {} without a version row
    blobs,     \* the blobs stored
    task,      \* the request of each writer
    lives      \* history: how often each plugin was deleted

pluginVars == <<head, content, blobs, task, lives>>

Revisions == 1 .. MaxRevision
NoTask == [op |-> "none", at |-> "idle", plugin |-> {}, base |-> 0, life |-> 0,
           new |-> {}, next |-> 0, lacks |-> {}, rows |-> {}]
Unbased == MaxRevision + 1     \* expected_revision is None

Tasks ==
    [op : {"none", "publish", "delete"},
     at : {"idle", "staged", "screened", "based", "listed", "removed", "collected"},
     plugin : Plugins \cup {{}}, base : 0 .. MaxRevision + 1, life : Nat,
     new : SUBSET Blobs, next : 0 .. MaxRevision, lacks : SUBSET Blobs, rows : SUBSET Revisions]

\* Types of the rows and of the requests.
PluginsTypeOK ==
    /\ head \in [Plugins -> 0 .. MaxRevision]
    /\ content \in [Plugins -> [Revisions -> SUBSET Blobs]] /\ blobs \subseteq Blobs
    /\ task \in [Writers -> Tasks] /\ lives \in [Plugins -> Nat]

PluginsInit ==
    /\ head = [p \in Plugins |-> 0] /\ content = [p \in Plugins |-> [n \in Revisions |-> {}]]
    /\ blobs = {} /\ lives = [p \in Plugins |-> 0]
    /\ task = [w \in Writers |-> NoTask]
-----------------------------------------------------------------------------
Idle(w) == task[w] = NoTask
Quits(w) == task' = [task EXCEPT ![w] = NoTask]
Turns(w, at) == task' = [task EXCEPT ![w].at = at]
Stored == <<head, content, blobs, lives>>

\* An editor opens a revision and stages what shall replace it; an upload
\* replaces whatever is there.
Open(w, p, new) ==
    /\ Idle(w)
    /\ \E b \in {Unbased} \cup ({head[p]} \ {0}) :
          task' = [task EXCEPT ![w] = [NoTask EXCEPT !.op = "publish", !.at = "staged", !.plugin = p,
                                        !.base = b, !.life = lives[p], !.new = new]]
    /\ UNCHANGED Stored

Stale(w) == task[w].base # Unbased /\ head[task[w].plugin] # task[w].base

\* _publish: refused when its base is stale, done when nothing changed.
Screen(w) ==
    LET t == task[w] IN
    /\ t.at = "staged" /\ ~Stale(w)
    /\ head[t.plugin] # 0 => content[t.plugin][head[t.plugin]] # t.new
    /\ Turns(w, "screened") /\ UNCHANGED Stored

\* A plugin's row, once a publication has locked it or a deletion removed it,
\* is its transaction's until it ends. Nobody locks a row that is not there yet.
Owned(p) ==
    \E w \in Writers : task[w].plugin = p /\ (task[w].at \in {"removed", "collected"} \/ (task[w].at = "based" /\ task[w].next > 1))

Prepares(w) ==
    /\ task' = [task EXCEPT ![w].at = "based", ![w].next = head[task[w].plugin] + 1,
                            ![w].lacks = task[w].new \ blobs]
    /\ UNCHANGED Stored
Lockable(w) == task[w].at = "screened" /\ ~Owned(task[w].plugin) /\ head[task[w].plugin] < MaxRevision
\* Mutant: the transaction trusts the check made before it.
LockTrusting(w) == Lockable(w) /\ Prepares(w)
\* publish_plugin: the row is locked, its revision compared again, and the blobs
\* of the package looked for.
Lock(w) == Lockable(w) /\ ~Stale(w) /\ Prepares(w)

\* The commit, unless a row it inserts is there by now: the plugin, the revision
\* or a blob. A blob that was there is not looked for again.
Commit(w) ==
    LET t == task[w] IN
    /\ t.at = "based"
    /\ t.next = 1 => head[t.plugin] = 0
    /\ content[t.plugin][t.next] = {} /\ t.lacks \cap blobs = {}
    /\ head' = [head EXCEPT ![t.plugin] = t.next]
    /\ content' = [content EXCEPT ![t.plugin][t.next] = t.new]
    /\ blobs' = blobs \cup t.lacks
    /\ Quits(w) /\ UNCHANGED lives
\* A conflict, a deadlock the database resolves, or a request that dies.
Abort(w) == ~Idle(w) /\ Quits(w) /\ UNCHANGED Stored

\* delete_plugin: the versions and blobs of the plugin are read ... (one deletion
\* of a plugin at a time: the bound)
List(w, p) ==
    /\ Idle(w) /\ head[p] # 0 /\ lives[p] < MaxLives
    /\ \A v \in Writers : task[v].op = "delete" => task[v].plugin # p
    /\ task' = [task EXCEPT ![w] = [NoTask EXCEPT !.op = "delete", !.at = "listed", !.plugin = p,
                                      !.rows = {n \in Revisions : content[p][n] # {}},
                                      !.lacks = UNION {content[p][n] : n \in Revisions}]]
    /\ UNCHANGED Stored
\* ... and deleted with its row, whatever revision that is at by now ...
Remove(w) ==
    /\ task[w].at = "listed" /\ ~Owned(task[w].plugin)
    /\ Turns(w, "removed") /\ UNCHANGED Stored
\* ... with the blobs that no committed version has beside those.
StillUsed(p, rows) ==
    UNION {content[v[1]][v[2]] : v \in (Plugins \X Revisions) \ ({p} \X rows)}
Collect(w) ==
    LET t == task[w]  p == t.plugin IN
    /\ t.at = "removed"
    /\ task' = [task EXCEPT ![w].at = "collected", ![w].lacks = t.lacks \ StillUsed(p, t.rows)]
    /\ UNCHANGED Stored
CommitDelete(w) ==
    LET t == task[w]  p == t.plugin IN
    /\ t.at = "collected"
    /\ head' = [head EXCEPT ![p] = 0]
    /\ content' = [content EXCEPT ![p] = [n \in Revisions |-> IF n \in t.rows THEN {} ELSE @[n]]]
    /\ blobs' = blobs \ t.lacks
    /\ lives' = [lives EXCEPT ![p] = @ + 1]
    /\ Quits(w)

PluginsNext ==
    \E w \in Writers :
        \/ \E p \in Plugins : List(w, p) \/ \E new \in (SUBSET Blobs) \ {{}} : Open(w, p, new)
        \/ Screen(w) \/ Lock(w) \/ Commit(w) \/ Abort(w) \/ Remove(w) \/ Collect(w) \/ CommitDelete(w)

PluginsSpec == PluginsInit /\ [][PluginsNext]_pluginVars
-----------------------------------------------------------------------------
\* STO-006: a revision is immutable while its plugin lives, and an edit is never
\* published over a revision its author has not seen. A plugin that was deleted
\* and published again in between may be at the same number.
EditsBuildOnTheirBase ==
    [][\A p \in Plugins :
         /\ lives'[p] = lives[p] =>
               \A n \in Revisions : content[p][n] # {} => content'[p][n] = content[p][n]
         /\ \A w \in Writers :
               LET t == task[w] IN
               t.plugin = p /\ t.base # Unbased /\ t.life = lives[p] /\ Commit(w) => head[p] = t.base]_pluginVars

\* Every revision can be read. The code does not keep it: a deletion collects a
\* blob that a publication has found and not yet committed a reference to.
ContentIsKept ==
    \A p \in Plugins : \A n \in Revisions : head[p] # 0 => content[p][n] \subseteq blobs
=============================================================================
