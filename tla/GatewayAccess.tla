--------------------------- MODULE GatewayAccess ---------------------------
(***************************************************************************)
(* One worker process's access, for one user, to a gateway of external MCP *)
(* servers: the service token its calls share, the tools the cache says    *)
(* the user has, and the row that tells the user how the last call went.   *)
(* Calls overlap at every await; the gateway may stop accepting the token  *)
(* or the user at any time.                                                *)
(***************************************************************************)
EXTENDS Naturals

CONSTANTS
    Uses,        \* calls and discoveries at once
    MaxTokens,   \* bound on the tokens acquired
    MaxStamp     \* bound on the observations made

ASSUME GatewayAssumption == MaxTokens \in Nat /\ MaxStamp \in Nat

VARIABLES
    held, due,      \* the cached token, 0 for none, and whether renew_at has passed
    issued, bad,    \* the last token issued, and those the gateway stopped accepting
    access,         \* whether the gateway accepts the user
    listing,        \* the stamp of the cached discovery, 0 for none
    row,            \* external_mcp_connections: the stamp and status observed last
    stamp, refusal, \* the last observation, and the last one of a refusal
    use             \* what each call is at

tokenVars   == <<held, due, issued, bad>>
gatewayVars == <<tokenVars, access, listing, row, stamp, refusal, use>>

NoUse == [at |-> "idle", kind |-> "tool", token |-> 0, stamp |-> 0, status |-> "none"]
At(u, at) == use[u].at = at
Proceeds(u, at) == use' = [use EXCEPT ![u].at = at]
Finishes(u) == use' = [use EXCEPT ![u] = NoUse]

Statuses == {"none", "unknown", "connected", "permission_denied", "service_authentication_failed", "unavailable"}

\* Types of the cache, the row and the calls.
GatewayTypeOK ==
    /\ held \in Nat /\ due \in BOOLEAN /\ issued \in Nat /\ bad \subseteq 1 .. issued
    /\ access \in BOOLEAN /\ listing \in Nat /\ stamp \in Nat /\ refusal \in Nat
    /\ row \in [stamp : Nat, status : Statuses]
    /\ use \in [Uses -> [at : {"idle", "token", "fetch", "send", "observed", "store", "forget", "done"},
                         kind : {"tool", "list"}, token : Nat, stamp : Nat, status : Statuses]]

GatewayInit ==
    /\ held = 0 /\ due = FALSE /\ issued = 0 /\ bad = {} /\ access = TRUE
    /\ listing = 0 /\ row = [stamp |-> 0, status |-> "unknown"] /\ stamp = 0 /\ refusal = 0
    /\ use = [u \in Uses |-> NoUse]
-----------------------------------------------------------------------------
\* A discovery that is cached asks nobody.
Starts(u, kind) ==
    /\ use[u] = NoUse /\ (kind = "list" => listing = 0)
    /\ use' = [use EXCEPT ![u].at = "token", ![u].kind = kind]
    /\ UNCHANGED <<tokenVars, access, listing, row, stamp, refusal>>

\* service_token: under the lock, the cached token or a new one.
Fetching == \E u \in Uses : At(u, "fetch")
UseHeld(u) ==
    /\ At(u, "token") /\ ~Fetching /\ held # 0 /\ ~due
    /\ use' = [use EXCEPT ![u].at = "send", ![u].token = held]
    /\ UNCHANGED <<tokenVars, access, listing, row, stamp, refusal>>
Fetch(u) ==
    /\ At(u, "token") /\ ~Fetching /\ (held = 0 \/ due)
    /\ Proceeds(u, "fetch")
    /\ UNCHANGED <<tokenVars, access, listing, row, stamp, refusal>>
Fetched(u) ==
    /\ At(u, "fetch") /\ issued < MaxTokens
    /\ issued' = issued + 1 /\ held' = issued' /\ due' = FALSE
    /\ use' = [use EXCEPT ![u].at = "send", ![u].token = issued']
    /\ UNCHANGED <<bad, access, listing, row, stamp, refusal>>

\* observe: the moment is taken at once, the row is written after an await.
Observes(u, status) ==
    /\ stamp < MaxStamp /\ stamp' = stamp + 1
    /\ use' = [use EXCEPT ![u].at = "observed", ![u].stamp = stamp', ![u].status = status]

FetchFails(u) ==
    /\ At(u, "fetch")
    /\ held' = 0 /\ due' = FALSE
    /\ listing' = 0 /\ Observes(u, "service_authentication_failed") /\ refusal' = stamp'
    /\ UNCHANGED <<issued, bad, access, row>>

\* Mutant: whatever token is cached is dropped.
DropAny(u) == held' = 0 /\ due' = FALSE
\* invalidate_service_token compares: a later token is not thrown away for the
\* rejection of an earlier one.
DropRejected(u) ==
    IF held = use[u].token THEN held' = 0 /\ due' = FALSE ELSE UNCHANGED <<held, due>>

\* A 401 is the service token's, a 403 the user's; either forgets the listings.
Rejected(u) ==
    /\ At(u, "send") /\ use[u].token \in bad
    /\ DropRejected(u)
    /\ listing' = 0 /\ Observes(u, "service_authentication_failed") /\ refusal' = stamp'
    /\ UNCHANGED <<issued, bad, access, row>>
Denied(u) ==
    /\ At(u, "send") /\ use[u].token \notin bad /\ ~access
    /\ listing' = 0 /\ Observes(u, "permission_denied") /\ refusal' = stamp'
    /\ UNCHANGED <<tokenVars, access, row>>
Accepted(u) ==
    /\ At(u, "send") /\ use[u].token \notin bad /\ access
    /\ Observes(u, "connected")
    /\ UNCHANGED <<tokenVars, access, listing, row, refusal>>
\* The gateway is down: nothing is forgotten.
Unavailable(u) ==
    /\ At(u, "send")
    /\ Observes(u, "unavailable")
    /\ UNCHANGED <<tokenVars, access, listing, row, refusal>>
\* The call is cancelled.
Breaks(u) ==
    /\ use[u].at \in {"token", "fetch", "send"}
    /\ Finishes(u)
    /\ UNCHANGED <<tokenVars, access, listing, row, stamp, refusal>>

\* record_external_mcp_connection: an older observation does not replace a newer
\* one. The write may also fail.
Record(u) ==
    LET w == use[u] IN
    /\ w.at = "observed"
    /\ \/ row' = IF row.stamp < w.stamp THEN [stamp |-> w.stamp, status |-> w.status] ELSE row
       \/ UNCHANGED row
    /\ Proceeds(u, IF w.kind = "tool" \/ w.status = "unavailable" THEN "done"
                   ELSE IF w.status = "connected" THEN "store" ELSE "forget")
    /\ UNCHANGED <<tokenVars, access, listing, stamp, refusal>>
\* _store_proxy_tools, and list_tools_for_user after a refusal.
Remember(u) ==
    /\ At(u, "store")
    /\ listing' = use[u].stamp
    /\ Finishes(u) /\ UNCHANGED <<tokenVars, access, row, stamp, refusal>>
Forget(u) ==
    /\ At(u, "forget")
    /\ listing' = 0
    /\ Finishes(u) /\ UNCHANGED <<tokenVars, access, row, stamp, refusal>>
Returns(u) ==
    /\ At(u, "done") /\ Finishes(u)
    /\ UNCHANGED <<tokenVars, access, listing, row, stamp, refusal>>

Lapse ==   \* renew_at, or the time to live of the cache, passes
    /\ \/ held # 0 /\ due' = TRUE /\ UNCHANGED listing
       \/ listing' = 0 /\ UNCHANGED due
    /\ UNCHANGED <<held, issued, bad, access, row, stamp, refusal, use>>
GatewayChanges ==
    /\ \/ \E t \in 1 .. issued : bad' = bad \cup {t} /\ UNCHANGED access
       \/ access' = ~access /\ UNCHANGED bad
    /\ UNCHANGED <<held, due, issued, listing, row, stamp, refusal, use>>

GatewayNext ==
    \/ \E u \in Uses :
        \/ \E kind \in {"tool", "list"} : Starts(u, kind)
        \/ UseHeld(u) \/ Fetch(u) \/ Fetched(u) \/ FetchFails(u) \/ Rejected(u) \/ Denied(u)
        \/ Accepted(u) \/ Unavailable(u) \/ Breaks(u) \/ Record(u) \/ Remember(u) \/ Forget(u) \/ Returns(u)
    \/ Lapse \/ GatewayChanges

GatewaySpec == GatewayInit /\ [][GatewayNext]_gatewayVars
-----------------------------------------------------------------------------
\* "A token acquisition is coalesced and a rejection invalidates only the
\* rejected cached token" (chat-agent.md): a token that is accepted and not due is
\* kept, by whatever calls come back late; and no delayed write of the row
\* replaces a newer observation.
GoodTokenIsKept ==
    [][/\ held # 0 /\ held \notin bad /\ ~due => held' = held
       /\ row'.stamp >= row.stamp]_gatewayVars

\* list_tools_for_user: what we hold "describes access the upstream just refused,
\* so it must not answer the next call". The code does not keep it: a discovery
\* that was accepted stores its tools after another call was refused.
RefusalForgetsTools == listing # 0 => listing > refusal
=============================================================================
