------------------------------ MODULE Credentials ------------------------------
(***************************************************************************)
(* Node credentials: core/auth.py, api/v2/auth.py and the token endpoints  *)
(* of api/v2/admin.py.  A node registers, waits for approval with a       *)
(* temporary token and from then on lives on two credentials: a runtime    *)
(* token that it refreshes, and a registration secret with which it        *)
(* recovers when the token is gone.  Either token will do for a heartbeat, *)
(* which may set the node's status, back to pending too                    *)
(* (core/discovery.py).                                                    *)
(*                                                                         *)
(* Requests run one after the other on the event loop, but each commits    *)
(* several transactions; the process may stop, or the database refuse,     *)
(* between two of them.  Answers get lost: a client that has given up on a *)
(* request never sees its answer, though the server may still handle it.   *)
(*                                                                         *)
(* Tokens and secrets are numbers in the order of their issue.             *)
(***************************************************************************)
EXTENDS Integers, Sequences

CONSTANTS
  Nodes,           \* node names, unique in nodes
  None,
  MaxDisturbances  \* bound: expiries, timeouts, failures, voluntary requests

\* None is neither an id nor an answer.
ASSUME NoneAssumption == None \notin Nat /\ None \notin [token : Nat \cup {None}, secret : Nat \cup {None}]

VARIABLES
  rows,      \* nodes: status, registration secret and whether that expired
  tokens,    \* node_tokens
  issued,    \* number of credentials issued
  handler,   \* the request the event loop is in, with the transactions left
  requests,  \* requests on their way; "open" while the client waits
  inbox,     \* the answer on its way to a node
  held,      \* the credentials a node last received
  unseen,    \* secrets whose answer got lost
  disturbances

server == <<rows, tokens, issued, handler>>
client == <<requests, inbox, held, unseen>>
vars   == <<server, client, disturbances>>

Idle    == [op |-> "idle"]
Nothing == [token |-> None, secret |-> None]

Put(f, x, v) == [y \in DOMAIN f \cup {x} |-> IF y = x THEN v ELSE f[y]]

Disturb == disturbances < MaxDisturbances /\ disturbances' = disturbances + 1

-----------------------------------------------------------------------------
(* What a credential is worth.                                             *)

RuntimeOf(n) == {t \in tokens : t.node = n /\ t.kind = "runtime"}

Live(n) == rows[n].status \in {"approved", "online"}

\* validate_token without the approval gate.
Valid(id) == {t \in tokens : t.id = id /\ ~t.expired /\ t.node \in DOMAIN rows}

\* validate_token: a temporary token is a pending one.
Authenticates(id) == {t \in Valid(id) : t.kind = "runtime" /\ Live(t.node)}

\* A slip: only live nodes recover.
Recovers_Live(r) ==
  /\ r.bearer = None /\ r.want = "runtime" /\ r.node \in DOMAIN rows
  /\ r.secret # None /\ r.secret = rows[r.node].secret /\ ~rows[r.node].expired
  /\ Live(r.node)

\* The registration secret stands for the token of every node that has been
\* approved, offline ones included; a bearer that comes along decides alone.
Recovers(r) ==
  /\ r.bearer = None /\ r.want = "runtime" /\ r.node \in DOMAIN rows
  /\ r.secret # None /\ r.secret = rows[r.node].secret /\ ~rows[r.node].expired
  /\ rows[r.node].status # "pending"

-----------------------------------------------------------------------------
(* The server.                                                             *)

\* Plausible slips in the scripts.
Script_IssuesBesides(op) ==
  CASE op = "register" -> <<"insert", "temporary">>
    [] op \in {"insert_admin", "approve"} -> <<op, "runtime">>
    [] op = "refresh" -> <<"invalidate", "runtime">>
    [] op = "issue"   -> <<"runtime">>
    [] op = "rotate"  -> <<"rotate">>
    [] op = "recover" -> <<"invalidate", "runtime", "rotate">>

Script_RotatesFirst(op) ==
  CASE op = "register" -> <<"insert", "temporary">>
    [] op \in {"insert_admin", "approve"} -> <<op, "runtime">>
    [] op \in {"refresh", "issue"} -> <<"invalidate", "runtime">>
    [] op = "rotate"  -> <<"rotate">>
    [] op = "recover" -> <<"invalidate", "rotate", "runtime">>

\* The transactions of a request, in the order in which they commit.
Script(op) ==
  CASE op = "register" -> <<"insert", "temporary">>
    [] op \in {"insert_admin", "approve"} -> <<op, "runtime">>
    [] op \in {"refresh", "issue"} -> <<"invalidate", "runtime">>
    [] op = "rotate"  -> <<"rotate">>
    [] op = "recover" -> <<"invalidate", "runtime", "rotate">>

Begin(op, n, open) ==
  /\ handler = Idle
  /\ handler' = [op |-> op, node |-> n, open |-> open, todo |-> Script(op), answer |-> Nothing]
  /\ UNCHANGED <<rows, tokens, issued>>

\* auth_register and auth_register_admin, auth_refresh with a bearer and
\* without: the operation a request leads to.
Operation(r) ==
  IF r.want \in {"register", "insert_admin"}
  THEN IF r.node \in DOMAIN rows THEN "refuse" ELSE r.want
  ELSE IF Authenticates(r.bearer) # {}
       THEN IF r.want = "runtime" THEN "refresh" ELSE "rotate"
       ELSE IF Recovers(r) THEN "recover" ELSE "refuse"

\* The node it is about: the token's, or the one the body names.
Subject(r) ==
  IF Operation(r) \in {"refresh", "rotate"}
  THEN (CHOOSE t \in Authenticates(r.bearer) : TRUE).node ELSE r.node

Serve(r) ==
  /\ r \in requests /\ Operation(r) # "refuse"
  /\ Begin(Operation(r), Subject(r), r.open)
  /\ requests' = requests \ {r}
  /\ UNCHANGED <<inbox, held, unseen, disturbances>>

Answer(n, open, credentials) == inbox' = IF open THEN [inbox EXCEPT ![n] = credentials] ELSE inbox

\* The request ends in an HTTP error.
Refuse(r) ==
  /\ r \in requests /\ handler = Idle /\ Operation(r) = "refuse"
  /\ requests' = requests \ {r}
  /\ Answer(r.node, r.open, Nothing)
  /\ UNCHANGED <<server, held, unseen, disturbances>>

\* The endpoints of an administrator.
Approve(n) ==
  /\ n \in DOMAIN rows /\ rows[n].status = "pending"
  /\ Begin("approve", n, FALSE)
  /\ UNCHANGED <<client, disturbances>>

IssueToken(n) ==
  /\ n \in DOMAIN rows /\ rows[n].status \in {"approved", "offline"}
  /\ Begin("issue", n, FALSE)
  /\ Disturb
  /\ UNCHANGED client

DeleteNode(n) ==
  /\ handler = Idle /\ n \in DOMAIN rows
  /\ rows' = [m \in DOMAIN rows \ {n} |-> rows[m]]
  /\ tokens' = {t \in tokens : t.node # n}
  /\ Disturb
  /\ UNCHANGED <<issued, handler, client>>

-----------------------------------------------------------------------------
(* The transactions.                                                       *)

\* The handler commits its next transaction.
Commit(step, credentials) ==
  /\ handler # Idle /\ handler.todo # <<>> /\ Head(handler.todo) = step
  /\ handler' = [handler EXCEPT !.todo = Tail(@), !.answer = credentials]

Issue == issued' = issued + 1

\* register_pending_node, register_admin_node: the row of the node.
InsertNode(step, row, credentials) ==
  /\ Commit(step, credentials)
  /\ rows' = Put(rows, handler.node, row)
  /\ UNCHANGED <<tokens, client, disturbances>>

InsertPending ==
  /\ InsertNode("insert", [status |-> "pending", secret |-> issued + 1, expired |-> FALSE],
                [Nothing EXCEPT !.secret = issued + 1])
  /\ Issue

InsertAdmin ==
  /\ InsertNode("insert_admin", [status |-> "approved", secret |-> None, expired |-> FALSE], Nothing)
  /\ UNCHANGED issued

\* The temporary tokens that an approval invalidates.
Outdated(n) == {t \in tokens : t.node = n /\ t.kind = "temporary"}

MarkApproved ==
  /\ Commit("approve", Nothing)
  /\ rows' = [rows EXCEPT ![handler.node].status = "approved"]
  /\ tokens' = tokens \ Outdated(handler.node)
  /\ UNCHANGED <<issued, client, disturbances>>

\* _replace_runtime_token and admin_issue_node_token, first half.
Invalidate ==
  /\ Commit("invalidate", Nothing)
  /\ tokens' = tokens \ RuntimeOf(handler.node)
  /\ UNCHANGED <<rows, issued, client, disturbances>>

\* _create_token
CreateToken(kind) ==
  /\ tokens' = tokens \cup {[id |-> issued + 1, node |-> handler.node, kind |-> kind, expired |-> FALSE]}
  /\ Issue
  /\ UNCHANGED <<rows, client, disturbances>>

CreateTemporary ==
  /\ Commit("temporary", [handler.answer EXCEPT !.token = issued + 1])
  /\ CreateToken("temporary")

CreateRuntime ==
  /\ Commit("runtime", [handler.answer EXCEPT !.token = issued + 1])
  /\ CreateToken("runtime")

\* rotate_registration_secret
Rotate ==
  /\ Commit("rotate", [handler.answer EXCEPT !.secret = issued + 1])
  /\ rows' = [rows EXCEPT ![handler.node].secret = issued + 1, ![handler.node].expired = FALSE]
  /\ Issue
  /\ UNCHANGED <<tokens, client, disturbances>>

\* The answer leaves.  The token an administrator gets may be handed to the
\* node; an answer nobody waits for is lost.
Respond ==
  /\ handler # Idle /\ handler.todo = <<>>
  /\ handler' = Idle
  /\ Answer(handler.node, handler.open, handler.answer)
  /\ held' \in {held} \cup
       (IF handler.op \in {"approve", "issue"}
        THEN {[held EXCEPT ![handler.node].token = handler.answer.token]} ELSE {})
  /\ unseen' = IF handler.open THEN unseen ELSE unseen \cup {handler.answer.secret}
  /\ UNCHANGED <<rows, tokens, issued, requests, disturbances>>

\* A crash or a refused transaction: what is committed stays.  The secret of
\* a registration cut short is in no answer.
Interrupt ==
  /\ handler # Idle /\ handler.todo # <<>>
  /\ handler' = Idle
  /\ Answer(handler.node, handler.open, Nothing)
  /\ unseen' = IF handler.op = "register" THEN unseen \cup {handler.answer.secret} ELSE unseen
  /\ Disturb
  /\ UNCHANGED <<rows, tokens, issued, requests, held>>

-----------------------------------------------------------------------------
(* Time, the heartbeat and the token_cleanup task of maintenance.          *)

ExpireToken ==
  /\ \E t \in tokens : ~t.expired /\ tokens' = (tokens \ {t}) \cup {[t EXCEPT !.expired = TRUE]}
  /\ Disturb
  /\ UNCHANGED <<rows, issued, handler, client>>

ExpireSecret(n) ==
  /\ n \in DOMAIN rows /\ rows[n].secret # None /\ ~rows[n].expired
  /\ rows' = [rows EXCEPT ![n].expired = TRUE]
  /\ Disturb
  /\ UNCHANGED <<tokens, issued, handler, client>>

PurgeExpiredTokens ==
  /\ \E t \in tokens : t.expired
  /\ tokens' = {t \in tokens : ~t.expired}
  /\ UNCHANGED <<rows, issued, handler, client, disturbances>>

SetStatus(n, status) ==
  /\ rows' = [rows EXCEPT ![n].status = status]
  /\ UNCHANGED <<tokens, issued, handler, client>>

MarkOffline(n) == n \in DOMAIN rows /\ Live(n) /\ SetStatus(n, "offline") /\ Disturb

\* A node can use the token it holds; it works with a runtime token.
Access(n) == \E t \in Valid(held[n].token) : t.node = n
Works(n)  == \E t \in Valid(held[n].token) : t.node = n /\ t.kind = "runtime"

\* The statuses a heartbeat may write over the one it reads: the explicit one
\* if the registry allows it, busy for a node under load, and online for a
\* node that was approved or offline.
HeartbeatWrites(status) ==
  CASE status = "pending"  -> {"approved", "online", "offline"}
    [] status = "approved" -> {"online", "offline"}
    [] status = "online"   -> {"offline"}
    [] status = "offline"  -> {"online", "pending"}

\* get_auth_context: with any valid token, approved or not.
Heartbeat(n) ==
  /\ handler = Idle /\ Access(n)
  /\ \E status \in HeartbeatWrites(rows[n].status) :
       /\ SetStatus(n, status)
       /\ IF status = "online" /\ rows[n].status # "pending" THEN UNCHANGED disturbances ELSE Disturb

-----------------------------------------------------------------------------
(* Nodes as clients.                                                       *)

Waiting(n) ==
  \/ \E r \in requests : r.node = n /\ r.open
  \/ handler # Idle /\ handler.node = n /\ handler.open
  \/ inbox[n] # None

Send(n, want, bearer, secret) ==
  /\ ~Waiting(n)
  /\ requests' = requests \cup
       {[node |-> n, want |-> want, bearer |-> bearer, secret |-> secret, open |-> TRUE]}
  /\ UNCHANGED <<server, inbox, held, unseen>>

SendRegister(n) ==
  /\ n \notin DOMAIN rows \/ held[n] = Nothing
  /\ \E want \in {"register", "insert_admin"} : Send(n, want, None, None)
  /\ UNCHANGED disturbances

\* A refresh or a rotation ahead of time.
SendRefresh(n) ==
  /\ held[n].token # None
  /\ \E want \in {"runtime", "secret"} : Send(n, want, held[n].token, None)
  /\ Disturb

\* A node without a runtime token turns to its secret; it may send the token
\* along all the same.
SendRecovery(n, bearer) ==
  /\ held[n].secret # None /\ ~Works(n)
  /\ Send(n, "runtime", bearer, held[n].secret)
  /\ UNCHANGED disturbances

Receive(n) ==
  /\ inbox[n] # None
  /\ held' = [held EXCEPT ![n] = [c \in DOMAIN @ |-> IF inbox[n][c] = None THEN @[c] ELSE inbox[n][c]]]
  /\ inbox' = [inbox EXCEPT ![n] = None]
  /\ UNCHANGED <<server, requests, unseen, disturbances>>

\* The client gives up, wherever its request or the answer is.
Timeout(n) ==
  /\ Waiting(n)
  /\ requests' = {IF r.node = n THEN [r EXCEPT !.open = FALSE] ELSE r : r \in requests}
  /\ handler' = IF handler # Idle /\ handler.node = n /\ handler.open
                THEN [handler EXCEPT !.open = FALSE] ELSE handler
  /\ inbox' = [inbox EXCEPT ![n] = None]
  /\ unseen' = IF inbox[n] = None THEN unseen ELSE unseen \cup {inbox[n].secret}
  /\ Disturb
  /\ UNCHANGED <<rows, tokens, issued, held>>

-----------------------------------------------------------------------------
Init ==
  /\ rows = [n \in {} |-> None] /\ tokens = {} /\ issued = 0 /\ handler = Idle
  /\ requests = {} /\ inbox = [n \in Nodes |-> None] /\ held = [n \in Nodes |-> Nothing]
  /\ unseen = {} /\ disturbances = 0

Transaction ==
  \/ InsertPending \/ InsertAdmin \/ MarkApproved
  \/ Invalidate \/ CreateTemporary \/ CreateRuntime \/ Rotate

Server == Transaction \/ Respond \/ \E r \in requests : Serve(r) \/ Refuse(r)

Next ==
  \/ Server \/ Interrupt \/ ExpireToken \/ PurgeExpiredTokens
  \/ \E n \in Nodes :
    \/ Approve(n) \/ IssueToken(n) \/ DeleteNode(n)
    \/ ExpireSecret(n) \/ MarkOffline(n) \/ Heartbeat(n)
    \/ SendRegister(n) \/ SendRefresh(n) \/ Receive(n) \/ Timeout(n)
    \/ SendRecovery(n, None) \/ SendRecovery(n, held[n].token)

Spec == Init /\ [][Next]_vars

(* The event loop serves every request, answers arrive unless lost, and a  *)
(* node keeps trying.                                                      *)
Fairness ==
  /\ WF_vars(Transaction) /\ WF_vars(Respond)
  /\ \A n \in Nodes : /\ WF_vars(\E r \in requests : r.node = n /\ (Serve(r) \/ Refuse(r)))
                      /\ WF_vars(Receive(n)) /\ SF_vars(SendRecovery(n, None))

LiveSpec == Spec /\ Fairness

-----------------------------------------------------------------------------
(* Properties.                                                             *)

Ids     == Nat \cup {None}
Answers == [token : Ids, secret : Ids]
Row     == [status : {"pending", "approved", "online", "offline"}, secret : Ids, expired : BOOLEAN]
Token   == [id : Nat, node : Nodes, kind : {"temporary", "runtime"}, expired : BOOLEAN]
Request == [node : Nodes, want : {"register", "insert_admin", "runtime", "secret"},
            bearer : Ids, secret : Ids, open : BOOLEAN]

Operations == {"register", "insert_admin", "approve", "issue", "refresh", "rotate", "recover"}

\* What a script may have left to do.
Lists == {<<"insert", "temporary">>, <<"temporary">>, <<"insert_admin", "runtime">>,
          <<"approve", "runtime">>, <<"runtime">>, <<"invalidate", "runtime">>,
          <<"rotate">>, <<"invalidate", "runtime", "rotate">>, <<"runtime", "rotate">>, <<>>}

Handler == [op : Operations, node : Nodes, open : BOOLEAN, todo : Lists, answer : Answers]

TypeOK ==
  /\ DOMAIN rows \subseteq Nodes /\ \A n \in DOMAIN rows : rows[n] \in Row
  /\ tokens \subseteq Token /\ issued \in Nat /\ handler \in Handler \cup {Idle}
  /\ requests \subseteq Request /\ unseen \subseteq Ids /\ disturbances \in Nat
  /\ inbox \in [Nodes -> Answers \cup {None}] /\ held \in [Nodes -> Answers]

\* A new token replaces what the node had, across the transactions of its
\* handler and whatever is interrupted: a temporary token is the node's first,
\* a runtime token leaves no other runtime token behind, and the one of an
\* approval leaves no temporary token (_replace_runtime_token, approve_node).
TokensAreReplaced ==
  [][\A t \in tokens' : \A u \in tokens' \ {t} :
       t.id > issued /\ u.node = t.node =>
         /\ t.kind = "runtime"
         /\ u.kind = IF handler.op = "approve" THEN "runtime" ELSE "temporary"]_vars

\* No failure of the server between two transactions takes a node's secret:
\* it is with the node, on its way to it, or was in an answer that got lost.
SecretIsReachable ==
  \A n \in DOMAIN rows :
    \/ rows[n].secret \in {None, held[n].secret} \cup unseen
    \/ inbox[n] # None /\ inbox[n].secret = rows[n].secret
    \/ handler # Idle /\ handler.node = n /\ handler.answer.secret = rows[n].secret

\* A node that has been approved and whose secret is neither lost nor expired
\* comes back to a valid runtime token, offline or not (T-137).
NodesRegainAccess ==
  \A n \in Nodes :
    <>[](n \in DOMAIN rows /\ rows[n].status # "pending" /\ ~rows[n].expired
         /\ rows[n].secret \notin unseen \cup {None})
      => []<>Works(n)

-----------------------------------------------------------------------------
(* What docstrings say and the code does not do.                           *)

\* refresh_token: only one runtime token of a node is valid at any time.
OneRuntimeToken ==
  \A t, u \in tokens : t.kind = "runtime" /\ u.kind = "runtime" /\ t.node = u.node => t = u

\* A refresh with the right secret is granted, be the bearer omitted or
\* invalid: what the docstring of auth_refresh says of recovery.
RecoveryIsGranted ==
  [][\A r \in requests \ requests' :
       Recovers([r EXCEPT !.bearer = None]) => r.open = FALSE \/ inbox'[r.node] # Nothing]_vars
=============================================================================
