--------------------------- MODULE CredentialsProofs ---------------------------
(***************************************************************************)
(* For any number of nodes and disturbances: a new token replaces what its *)
(* node had, and the server by itself loses no secret.                     *)
(*                                                                         *)
(* The first invariant says what the transactions a handler has still to   *)
(* commit rely on: which tokens the node has been relieved of.  It         *)
(* survives the maintenance thread and failures because those never create *)
(* a token.  The second one follows credentials on their way: who an id    *)
(* belongs to, that a node has one exchange at a time, and which secret an *)
(* answer carries.                                                         *)
(***************************************************************************)
EXTENDS Credentials, TLAPS

First(step) == handler.todo # <<>> /\ Head(handler.todo) = step

\* The tokens that a runtime token of a handler replaces.
Replaces(op) == IF op = "approve" THEN "temporary" ELSE "runtime"

\* What the transaction that comes next relies on.
HandlerReady ==
  handler # Idle =>
    /\ First("temporary") => handler.node \in DOMAIN rows /\ \A t \in tokens : t.node # handler.node
    /\ First("runtime") =>
         /\ handler.node \in DOMAIN rows
         /\ \A t \in tokens : t.node = handler.node => t.kind # Replaces(handler.op)
    /\ First("approve") => handler.node \in DOMAIN rows /\ handler.op = "approve"
    /\ First("invalidate") => handler.node \in DOMAIN rows /\ handler.op # "approve"
    /\ First("insert") \/ First("insert_admin") =>
         handler.node \notin DOMAIN rows /\ handler.op # "approve"

TokensRegistered == \A t \in tokens : t.node \in DOMAIN rows

TokensInv == TypeOK /\ HandlerReady /\ TokensRegistered

-----------------------------------------------------------------------------
LEMMA OneStep == ASSUME NEW a PROVE Head(<<a>>) = a /\ Tail(<<a>>) = <<>>
  OBVIOUS

LEMMA TwoSteps == ASSUME NEW a, NEW b PROVE Head(<<a, b>>) = a /\ Tail(<<a, b>>) = <<b>>
  OBVIOUS

LEMMA ThreeSteps ==
  ASSUME NEW a, NEW b, NEW c
  PROVE  Head(<<a, b, c>>) = a /\ Tail(<<a, b, c>>) = <<b, c>>
  OBVIOUS

Follows(list) ==
  /\ Tail(list) \in Lists
  /\ Head(list) \in {"temporary", "rotate"} => Tail(list) = <<>>
  /\ Head(list) = "runtime" => Tail(list) \in {<<>>, <<"rotate">>}
  /\ Head(list) = "insert" => Tail(list) = <<"temporary">>
  /\ Head(list) \in {"insert_admin", "approve"} => Tail(list) = <<"runtime">>
  /\ Head(list) = "invalidate" => Tail(list) \in {<<"runtime">>, <<"runtime", "rotate">>}

\* The transactions behind the one that comes first.
LEMMA ListFollows == ASSUME NEW list \in Lists, list # <<>> PROVE Follows(list)
<1>1. CASE list = <<"insert", "temporary">> BY <1>1, TwoSteps DEF Lists, Follows
<1>2. CASE list = <<"insert_admin", "runtime">> BY <1>2, TwoSteps DEF Lists, Follows
<1>3. CASE list = <<"approve", "runtime">> BY <1>3, TwoSteps DEF Lists, Follows
<1>4. CASE list = <<"invalidate", "runtime">> BY <1>4, TwoSteps DEF Lists, Follows
<1>5. CASE list = <<"runtime", "rotate">> BY <1>5, TwoSteps DEF Lists, Follows
<1>6. CASE list = <<"invalidate", "runtime", "rotate">> BY <1>6, ThreeSteps DEF Lists, Follows
<1>7. CASE list = <<"runtime">> BY <1>7, OneStep DEF Lists, Follows
<1>8. CASE list = <<"temporary">> BY <1>8, OneStep DEF Lists, Follows
<1>9. CASE list = <<"rotate">> BY <1>9, OneStep DEF Lists, Follows
<1> QED BY <1>1, <1>2, <1>3, <1>4, <1>5, <1>6, <1>7, <1>8, <1>9 DEF Lists

\* A script and the transaction it starts with.
LEMMA ScriptStarts ==
  ASSUME NEW op \in Operations
  PROVE  /\ Script(op) \in Lists /\ Script(op) # <<>>
         /\ op = "register" => Head(Script(op)) = "insert"
         /\ op = "insert_admin" => Head(Script(op)) = "insert_admin"
         /\ op = "approve" => Head(Script(op)) = "approve"
         /\ op = "rotate" => Head(Script(op)) = "rotate"
         /\ op \in {"refresh", "issue", "recover"} => Head(Script(op)) = "invalidate"
<1>1. CASE op \in {"register", "insert_admin", "approve", "refresh", "issue"}
  BY <1>1, TwoSteps DEF Script, Lists
<1>2. CASE op = "rotate" BY <1>2, OneStep DEF Script, Lists
<1>3. CASE op = "recover" BY <1>3, ThreeSteps DEF Script, Lists
<1> QED BY <1>1, <1>2, <1>3 DEF Operations

LEMMA InitTokens == Init => TokensInv
  BY DEF Init, TokensInv, TypeOK, HandlerReady, TokensRegistered,
         Idle, Nothing, Answers, Ids, Row

-----------------------------------------------------------------------------
\* A handler begins: what its first transaction relies on holds.
LEMMA BeginReady ==
  ASSUME TokensInv, NEW op \in Operations, NEW n \in Nodes, NEW open \in BOOLEAN,
         Begin(op, n, open),
         op \in {"register", "insert_admin"} => n \notin DOMAIN rows,
         op \in {"approve", "refresh", "issue", "recover"} => n \in DOMAIN rows
  PROVE  handler' \in Handler /\ HandlerReady' /\ TokensRegistered'
<1>1. /\ rows' = rows /\ tokens' = tokens
      /\ handler' = [op |-> op, node |-> n, open |-> open, todo |-> Script(op), answer |-> Nothing]
  BY DEF Begin
<1>2. handler' \in Handler
  BY <1>1, ScriptStarts DEF Handler, Nothing, Answers, Ids
<1>3. HandlerReady'
  BY <1>1, ScriptStarts DEF HandlerReady, First, Operations, Idle
<1>4. TokensRegistered'
  BY <1>1 DEF TokensInv, TokensRegistered
<1> QED BY <1>2, <1>3, <1>4

\* A request that is not refused is about a node in the right state.
LEMMA ServedNode ==
  ASSUME TokensInv, NEW r \in requests, Operation(r) # "refuse"
  PROVE  /\ Operation(r) \in Operations /\ Subject(r) \in Nodes
         /\ Operation(r) \in {"register", "insert_admin"} => Subject(r) \notin DOMAIN rows
         /\ Operation(r) # "approve"
         /\ Operation(r) \in {"refresh", "issue", "recover"} => Subject(r) \in DOMAIN rows
<1>1. r \in Request BY DEF TokensInv, TypeOK
<1>2. CASE r.want \in {"register", "insert_admin"}
  BY <1>1, <1>2 DEF Operation, Subject, Operations, Request
<1>3. CASE r.want = "runtime" /\ Authenticates(r.bearer) # {}
  <2>1. Operation(r) = "refresh" BY <1>1, <1>3 DEF Operation, Request
  <2>2. PICK t \in Authenticates(r.bearer) : Subject(r) = t.node BY <2>1, <1>3 DEF Subject
  <2>3. t \in Token /\ t.node \in DOMAIN rows
    BY <2>2 DEF Authenticates, Valid, TokensInv, TypeOK
  <2> QED BY <2>1, <2>2, <2>3 DEF Token, Operations
<1>4. CASE r.want = "secret" /\ Authenticates(r.bearer) # {}
  <2>1. Operation(r) = "rotate" BY <1>1, <1>4 DEF Operation, Request
  <2>2. PICK t \in Authenticates(r.bearer) : Subject(r) = t.node BY <2>1, <1>4 DEF Subject
  <2>3. t \in Token BY <2>2 DEF Authenticates, Valid, TokensInv, TypeOK
  <2> QED BY <2>1, <2>2, <2>3 DEF Token, Operations
<1>5. CASE /\ r.want \notin {"register", "insert_admin"}
           /\ Authenticates(r.bearer) = {} /\ Recovers(r)
  BY <1>1, <1>5 DEF Operation, Subject, Recovers, Operations, Request
<1> QED BY <1>1, <1>2, <1>3, <1>4, <1>5 DEF Operation, Request

-----------------------------------------------------------------------------
\* What a transaction finds and what it leaves of the handler.
LEMMA CommitFacts ==
  ASSUME TokensInv, NEW step, NEW credentials \in Answers, Commit(step, credentials)
  PROVE  /\ handler \in Handler /\ handler # Idle /\ First(step)
         /\ handler' \in Handler /\ handler'.node = handler.node /\ handler'.op = handler.op
         /\ handler'.todo = Tail(handler.todo) /\ Follows(handler.todo)
<1>1. handler \in Handler /\ handler # Idle /\ First(step)
  BY DEF Commit, TokensInv, TypeOK, First
<1>2. Follows(handler.todo)
  BY <1>1, ListFollows DEF Handler, First
<1>3. handler' = [handler EXCEPT !.todo = Tail(@), !.answer = credentials]
  BY DEF Commit
<1>4. Tail(handler.todo) \in Lists BY <1>2 DEF Follows
<1> QED BY <1>1, <1>2, <1>3, <1>4 DEF Handler

Safe == HandlerReady /\ TokensRegistered

\* Which transactions a list starts with, once one is known.
LEMMA Heads ==
  ASSUME NEW a, NEW b
  PROVE  /\ Head(<<a>>) = a /\ Head(<<a, b>>) = a /\ <<a>> # <<>> /\ <<a, b>> # <<>>
  OBVIOUS

LEMMA InsertSafe ==
  ASSUME TokensInv, NEW row \in Row, NEW step \in {"insert", "insert_admin"},
         NEW credentials \in Answers, Commit(step, credentials),
         rows' = Put(rows, handler.node, row), tokens' = tokens
  PROVE  Safe' /\ DOMAIN rows' \subseteq Nodes /\ \A n \in DOMAIN rows' : rows'[n] \in Row
<1> DEFINE n == handler.node
<1>1. /\ First(step) /\ handler # Idle /\ handler \in Handler /\ handler'.op = handler.op
      /\ handler'.node = n /\ handler'.todo = Tail(handler.todo) /\ Follows(handler.todo)
  BY CommitFacts
<1>2. n \in Nodes /\ n \notin DOMAIN rows /\ handler.op # "approve"
  BY <1>1 DEF Handler, TokensInv, HandlerReady
<1>3. /\ DOMAIN rows' = DOMAIN rows \cup {n} /\ rows'[n] = row
      /\ \A m \in DOMAIN rows : rows'[m] = rows[m]
  BY <1>2 DEF Put
<1>4. \A t \in tokens : t.node # n BY <1>2 DEF TokensInv, TokensRegistered
<1>5. handler'.todo \in {<<"temporary">>, <<"runtime">>} BY <1>1 DEF Follows, First
<1>6. Head(handler'.todo) \in {"temporary", "runtime"} BY <1>5, Heads
<1>7. HandlerReady' BY <1>1, <1>2, <1>3, <1>4, <1>6 DEF HandlerReady, First
<1> QED BY <1>2, <1>3, <1>7 DEF Safe, TokensInv, TypeOK, TokensRegistered

LEMMA MarkApprovedSafe == TokensInv /\ MarkApproved => Safe' /\ TypeOK'
<1> SUFFICES ASSUME TokensInv, MarkApproved PROVE Safe' /\ TypeOK'
  OBVIOUS
<1> DEFINE n == handler.node
<1>0. Nothing \in Answers BY DEF Nothing, Answers, Ids
<1>1. /\ First("approve") /\ handler # Idle /\ handler \in Handler /\ handler' \in Handler
      /\ handler'.op = handler.op /\ handler'.node = n
      /\ handler'.todo = Tail(handler.todo) /\ Follows(handler.todo)
  BY <1>0, CommitFacts DEF MarkApproved
<1>2. handler'.todo = <<"runtime">> BY <1>1 DEF Follows, First
<1>3. n \in DOMAIN rows /\ handler.op = "approve" BY <1>1 DEF TokensInv, HandlerReady
<1>4. \A t \in tokens' : t \in tokens /\ (t.node = n => t.kind # "temporary")
  BY DEF MarkApproved, Outdated
<1>5. /\ DOMAIN rows' = DOMAIN rows /\ \A m \in DOMAIN rows : m # n => rows'[m] = rows[m]
      /\ rows'[n] = [rows[n] EXCEPT !.status = "approved"]
  BY <1>3 DEF MarkApproved
<1>6. rows[n] \in Row BY <1>3 DEF TokensInv, TypeOK
<1>7. rows'[n] \in Row BY <1>5, <1>6 DEF Row
<1>8. HandlerReady'
  <2>1. Head(handler'.todo) = "runtime" BY <1>2, Heads
  <2> QED BY <1>1, <1>3, <1>4, <1>5, <2>1 DEF HandlerReady, First, Replaces
<1>9. TokensRegistered' BY <1>4, <1>5 DEF TokensInv, TokensRegistered
<1>10. TypeOK'
  BY <1>1, <1>4, <1>5, <1>7 DEF TokensInv, TypeOK, MarkApproved, client
<1> QED BY <1>8, <1>9, <1>10 DEF Safe

LEMMA InvalidateSafe == TokensInv /\ Invalidate => Safe' /\ TypeOK'
<1> SUFFICES ASSUME TokensInv, Invalidate PROVE Safe' /\ TypeOK'
  OBVIOUS
<1> DEFINE n == handler.node
<1>0. Nothing \in Answers BY DEF Nothing, Answers, Ids
<1>1. /\ First("invalidate") /\ handler # Idle /\ handler \in Handler /\ handler' \in Handler
      /\ handler'.op = handler.op /\ handler'.node = n
      /\ handler'.todo = Tail(handler.todo) /\ Follows(handler.todo)
  BY <1>0, CommitFacts DEF Invalidate
<1>2. handler'.todo \in {<<"runtime">>, <<"runtime", "rotate">>} BY <1>1 DEF Follows, First
<1>3. Head(handler'.todo) = "runtime" BY <1>2, Heads
<1>4. n \in DOMAIN rows /\ handler.op # "approve" BY <1>1 DEF TokensInv, HandlerReady
<1>5. \A t \in tokens' : t \in tokens /\ (t.node = n => t.kind # "runtime")
  BY DEF RuntimeOf, Invalidate
<1>6. rows' = rows BY DEF Invalidate
<1>7. HandlerReady'
  BY <1>1, <1>3, <1>4, <1>5, <1>6 DEF HandlerReady, First, Replaces
<1>8. TokensRegistered' BY <1>5, <1>6 DEF TokensInv, TokensRegistered
<1>9. TypeOK' BY <1>1, <1>5, <1>6 DEF TokensInv, TypeOK, Invalidate, client
<1> QED BY <1>7, <1>8, <1>9 DEF Safe

\* A token for a registered node.
LEMMA CreateSafe ==
  ASSUME TokensInv, NEW kind \in {"temporary", "runtime"}, NEW credentials \in Answers,
         Commit(kind, credentials), CreateToken(kind)
  PROVE  Safe' /\ TypeOK'
<1> DEFINE n == handler.node
           new == [id |-> issued + 1, node |-> n, kind |-> kind, expired |-> FALSE]
<1>1. /\ First(kind) /\ handler # Idle /\ handler \in Handler /\ handler' \in Handler
      /\ handler'.node = n /\ handler'.todo = Tail(handler.todo) /\ Follows(handler.todo)
  BY CommitFacts
<1>2. handler'.todo \in {<<>>, <<"rotate">>} BY <1>1 DEF Follows, First
<1>3. HandlerReady' BY <1>2, Heads DEF HandlerReady, First
<1>4. tokens' = tokens \cup {new} /\ rows' = rows BY DEF CreateToken
<1>5. n \in DOMAIN rows BY <1>1 DEF TokensInv, HandlerReady
<1>6. new.node = n OBVIOUS
<1> HIDE DEF new
<1>7. TokensRegistered' BY <1>4, <1>5, <1>6 DEF TokensInv, TokensRegistered
<1>8. new \in Token /\ issued + 1 \in Nat BY <1>1 DEF new, Token, Handler, TokensInv, TypeOK
<1>9. TypeOK' BY <1>1, <1>4, <1>8 DEF TokensInv, TypeOK, CreateToken, Issue, client
<1> QED BY <1>3, <1>7, <1>9 DEF Safe

LEMMA RotateSafe == TokensInv /\ Rotate => Safe' /\ TypeOK'
<1> SUFFICES ASSUME TokensInv, Rotate PROVE Safe' /\ TypeOK'
  OBVIOUS
<1> DEFINE n == handler.node
           answer == [handler.answer EXCEPT !.secret = issued + 1]
<1>0. handler \in Handler /\ issued + 1 \in Nat /\ Commit("rotate", answer)
  BY DEF Rotate, Commit, TokensInv, TypeOK
<1>1. answer \in Answers BY <1>0 DEF Handler, Answers, Ids
<1>2. /\ First("rotate") /\ handler # Idle /\ handler' \in Handler
      /\ handler'.todo = Tail(handler.todo) /\ Follows(handler.todo)
  BY <1>0, <1>1, CommitFacts
<1>3. HandlerReady' BY <1>2 DEF HandlerReady, First, Follows
<1>4. /\ DOMAIN rows' = DOMAIN rows
      /\ \A m \in DOMAIN rows : rows'[m] \in Row
  <2> SUFFICES ASSUME NEW m \in DOMAIN rows
               PROVE  DOMAIN rows' = DOMAIN rows /\ rows'[m] \in Row
    BY DEF Rotate
  <2>1. rows[m] \in Row BY DEF TokensInv, TypeOK
  <2>2. CASE m = n
    <3>1. rows'[m] = [[rows[m] EXCEPT !.secret = issued + 1] EXCEPT !.expired = FALSE]
      BY <2>2 DEF Rotate
    <3> QED BY <1>0, <2>1, <3>1 DEF Rotate, Row, Ids
  <2>3. CASE m # n
    <3>1. rows'[m] = rows[m] BY <2>3 DEF Rotate
    <3> QED BY <2>1, <3>1 DEF Rotate
  <2> QED BY <2>2, <2>3
<1>5. TokensRegistered' BY <1>4 DEF Rotate, TokensInv, TokensRegistered
<1>6. TypeOK' BY <1>0, <1>2, <1>4 DEF Rotate, Issue, TokensInv, TypeOK, client
<1> QED BY <1>3, <1>5, <1>6 DEF Safe

\* Every transaction of a handler.
LEMMA TransactionSafe == TokensInv /\ Transaction => Safe' /\ TypeOK'
<1> SUFFICES ASSUME TokensInv, Transaction PROVE Safe' /\ TypeOK'
  OBVIOUS
<1>0. Nothing \in Answers /\ issued \in Nat /\ issued + 1 \in Nat
  BY DEF Nothing, Answers, Ids, TokensInv, TypeOK
<1>1. CASE InsertPending
  <2> DEFINE row == [status |-> "pending", secret |-> issued + 1, expired |-> FALSE]
             answer == [Nothing EXCEPT !.secret = issued + 1]
  <2>1. row \in Row /\ answer \in Answers BY <1>0 DEF Row, Ids, Answers, Nothing
  <2>2. Commit("insert", answer) /\ rows' = Put(rows, handler.node, row) /\ tokens' = tokens
    BY <1>1 DEF InsertPending, InsertNode
  <2>3. Safe' /\ DOMAIN rows' \subseteq Nodes /\ \A n \in DOMAIN rows' : rows'[n] \in Row
    BY <2>1, <2>2, InsertSafe
  <2>4. handler' \in Handler BY <2>1, <2>2, CommitFacts
  <2> QED BY <1>0, <1>1, <2>3, <2>4 DEF InsertPending, InsertNode, Issue, TokensInv, TypeOK, client
<1>2. CASE InsertAdmin
  <2> DEFINE row == [status |-> "approved", secret |-> None, expired |-> FALSE]
  <2>1. row \in Row BY DEF Row, Ids
  <2>2. Commit("insert_admin", Nothing) /\ rows' = Put(rows, handler.node, row) /\ tokens' = tokens
    BY <1>2 DEF InsertAdmin, InsertNode
  <2>3. Safe' /\ DOMAIN rows' \subseteq Nodes /\ \A n \in DOMAIN rows' : rows'[n] \in Row
    BY <1>0, <2>1, <2>2, InsertSafe
  <2>4. handler' \in Handler BY <1>0, <2>2, CommitFacts
  <2> QED BY <1>2, <2>3, <2>4 DEF InsertAdmin, InsertNode, TokensInv, TypeOK, client
<1>3. CASE CreateTemporary
  <2> DEFINE answer == [handler.answer EXCEPT !.token = issued + 1]
  <2>1. answer \in Answers
    BY <1>0, <1>3 DEF CreateTemporary, Commit, TokensInv, TypeOK, Handler, Answers, Ids
  <2> QED BY <1>3, <2>1, CreateSafe DEF CreateTemporary
<1>4. CASE CreateRuntime
  <2> DEFINE answer == [handler.answer EXCEPT !.token = issued + 1]
  <2>1. answer \in Answers
    BY <1>0, <1>4 DEF CreateRuntime, Commit, TokensInv, TypeOK, Handler, Answers, Ids
  <2> QED BY <1>4, <2>1, CreateSafe DEF CreateRuntime
<1> QED BY <1>1, <1>2, <1>3, <1>4, MarkApprovedSafe, InvalidateSafe, RotateSafe DEF Transaction

-----------------------------------------------------------------------------
\* The handler ends, by its answer or by a failure.
LEMMA AnswerTypes ==
  ASSUME TokensInv, NEW n \in Nodes, NEW open \in BOOLEAN, NEW credentials \in Answers,
         Answer(n, open, credentials)
  PROVE  inbox' \in [Nodes -> Answers \cup {None}]
  BY DEF Answer, TokensInv, TypeOK

LEMMA EndSafe == TokensInv /\ (Respond \/ Interrupt) => TokensInv'
<1> SUFFICES ASSUME TokensInv, Respond \/ Interrupt PROVE TokensInv'
  OBVIOUS
<1>1. handler \in Handler /\ handler' = Idle /\ rows' = rows /\ tokens' = tokens
  BY DEF Respond, Interrupt, TokensInv, TypeOK
<1>2. /\ handler.node \in Nodes /\ handler.open \in BOOLEAN /\ handler.answer \in Answers
      /\ Nothing \in Answers /\ handler.answer.secret \in Ids /\ handler.answer.token \in Ids
  BY <1>1 DEF Handler, Answers, Nothing, Ids
<1>3. inbox' \in [Nodes -> Answers \cup {None}]
  BY <1>2, AnswerTypes DEF Respond, Interrupt
<1>4. held' \in [Nodes -> Answers]
  BY <1>2 DEF Respond, Interrupt, TokensInv, TypeOK, Answers
<1>5. unseen' \subseteq Ids /\ disturbances' \in Nat
  BY <1>2 DEF Respond, Interrupt, Disturb, TokensInv, TypeOK
<1>6. TypeOK'
  BY <1>1, <1>3, <1>4, <1>5 DEF Respond, Interrupt, TokensInv, TypeOK
<1>7. HandlerReady' /\ TokensRegistered'
  BY <1>1 DEF HandlerReady, TokensInv, TokensRegistered
<1> QED BY <1>6, <1>7 DEF TokensInv

\* Handlers that begin, and requests that are refused.
LEMMA ServeSafe ==
  ASSUME TokensInv, NEW r \in requests, Serve(r) \/ Refuse(r)
  PROVE  TokensInv'
<1>0. r \in Request BY DEF TokensInv, TypeOK
<1>1. CASE Serve(r)
  <2>1. handler' \in Handler /\ HandlerReady' /\ TokensRegistered'
    BY <1>0, <1>1, ServedNode, BeginReady DEF Serve, Request
  <2>2. TypeOK' BY <1>1, <2>1 DEF Serve, Begin, TokensInv, TypeOK
  <2> QED BY <2>1, <2>2 DEF TokensInv
<1>2. CASE Refuse(r)
  <2>1. inbox' \in [Nodes -> Answers \cup {None}]
    BY <1>0, <1>2, AnswerTypes DEF Refuse, Request, Nothing, Answers, Ids
  <2>2. TypeOK' BY <1>2, <2>1 DEF Refuse, server, TokensInv, TypeOK
  <2>3. HandlerReady' /\ TokensRegistered'
    BY <1>2 DEF Refuse, server, TokensInv, HandlerReady, First, TokensRegistered
  <2> QED BY <2>2, <2>3 DEF TokensInv
<1> QED BY <1>1, <1>2

LEMMA AdminSafe ==
  ASSUME TokensInv, NEW n \in Nodes, Approve(n) \/ IssueToken(n) \/ DeleteNode(n)
  PROVE  TokensInv'
<1>1. CASE Approve(n)
  <2>1. handler' \in Handler /\ HandlerReady' /\ TokensRegistered'
    BY <1>1, BeginReady DEF Approve, Operations
  <2> QED BY <1>1, <2>1 DEF Approve, Begin, client, TokensInv, TypeOK
<1>2. CASE IssueToken(n)
  <2>1. handler' \in Handler /\ HandlerReady' /\ TokensRegistered'
    BY <1>2, BeginReady DEF IssueToken, Operations
  <2> QED BY <1>2, <2>1 DEF IssueToken, Begin, Disturb, client, TokensInv, TypeOK
<1>3. CASE DeleteNode(n)
  <2>1. TypeOK' BY <1>3 DEF DeleteNode, Disturb, client, TokensInv, TypeOK
  <2>2. HandlerReady' BY <1>3 DEF DeleteNode, HandlerReady
  <2>3. TokensRegistered'
    BY <1>3 DEF DeleteNode, TokensInv, TokensRegistered
  <2> QED BY <2>1, <2>2, <2>3 DEF TokensInv
<1> QED BY <1>1, <1>2, <1>3

\* Time, the maintenance thread and the heartbeat: no token appears.
LEMMA WorldSafe ==
  ASSUME TokensInv, NEW n \in Nodes,
         \/ ExpireToken \/ PurgeExpiredTokens
         \/ ExpireSecret(n) \/ MarkOffline(n) \/ Heartbeat(n)
  PROVE  TokensInv'
<1>1. CASE ExpireToken
  <2>1. PICK t \in tokens : tokens' = (tokens \ {t}) \cup {[t EXCEPT !.expired = TRUE]}
    BY <1>1 DEF ExpireToken
  <2> DEFINE u == [t EXCEPT !.expired = TRUE]
  <2>2. t \in Token BY DEF TokensInv, TypeOK
  <2>3. u \in Token /\ u.node = t.node /\ u.kind = t.kind BY <2>2 DEF Token
  <2>9. tokens' = (tokens \ {t}) \cup {u} BY <2>1
  <2> HIDE DEF u
  <2>4. rows' = rows /\ handler' = handler BY <1>1 DEF ExpireToken
  <2>5. \A v \in tokens' : v = u \/ v \in tokens BY <2>9
  <2>6. TypeOK'
    BY <1>1, <2>9, <2>3 DEF ExpireToken, Disturb, client, TokensInv, TypeOK
  <2>7. HandlerReady'
    BY <2>3, <2>4, <2>5 DEF TokensInv, HandlerReady, First
  <2>8. TokensRegistered'
    BY <2>9, <2>3, <2>4 DEF TokensInv, TokensRegistered
  <2> QED BY <2>6, <2>7, <2>8 DEF TokensInv
<1>2. CASE PurgeExpiredTokens
  <2>1. tokens' \subseteq tokens /\ rows' = rows /\ handler' = handler
    BY <1>2 DEF PurgeExpiredTokens
  <2>2. TypeOK' BY <1>2, <2>1 DEF PurgeExpiredTokens, client, TokensInv, TypeOK
  <2>3. HandlerReady'
    BY <2>1 DEF TokensInv, HandlerReady, First
  <2>4. TokensRegistered'
    BY <2>1 DEF TokensInv, TokensRegistered
  <2> QED BY <2>2, <2>3, <2>4 DEF TokensInv
<1>3. CASE ExpireSecret(n) \/ MarkOffline(n) \/ Heartbeat(n)
  <2>1. /\ tokens' = tokens /\ handler' = handler /\ DOMAIN rows' = DOMAIN rows
        /\ n \in DOMAIN rows /\ rows[n] \in Row
    BY <1>3 DEF ExpireSecret, MarkOffline, Heartbeat, SetStatus, Access, Valid, TokensInv, TypeOK
  <2>2. \A m \in DOMAIN rows : m # n => rows'[m] = rows[m]
    BY <1>3 DEF ExpireSecret, MarkOffline, Heartbeat, SetStatus
  <2>3. rows'[n] \in Row
    <3>1. \/ rows'[n] = [rows[n] EXCEPT !.expired = TRUE]
          \/ \E status \in {"offline"} \cup HeartbeatWrites(rows[n].status) :
               rows'[n] = [rows[n] EXCEPT !.status = status]
      BY <1>3, <2>1 DEF ExpireSecret, MarkOffline, Heartbeat, SetStatus
    <3>2. HeartbeatWrites(rows[n].status) \subseteq {"pending", "approved", "online", "offline"}
      BY <2>1 DEF HeartbeatWrites, Row
    <3> QED BY <2>1, <3>1, <3>2 DEF Row
  <2>4. TypeOK'
    BY <1>3, <2>1, <2>2, <2>3
    DEF ExpireSecret, MarkOffline, Heartbeat, SetStatus, Disturb, client, TokensInv, TypeOK
  <2>5. HandlerReady'
    BY <2>1, <2>2, <2>3 DEF TokensInv, HandlerReady, First
  <2>6. TokensRegistered'
    BY <2>1, <2>2, <2>3 DEF TokensInv, TokensRegistered
  <2> QED BY <2>4, <2>5, <2>6 DEF TokensInv
<1> QED BY <1>1, <1>2, <1>3

LEMMA SendTypes ==
  ASSUME TokensInv, NEW n \in Nodes, NEW want \in {"register", "insert_admin", "runtime", "secret"},
         NEW bearer \in Ids, NEW secret \in Ids, Send(n, want, bearer, secret)
  PROVE  requests' \subseteq Request /\ UNCHANGED <<server, inbox, held, unseen>>
<1> DEFINE r == [node |-> n, want |-> want, bearer |-> bearer, secret |-> secret, open |-> TRUE]
<1>1. r \in Request BY DEF Request
<1>2. requests' = requests \cup {r} /\ UNCHANGED <<server, inbox, held, unseen>> BY DEF Send
<1> QED BY <1>1, <1>2 DEF TokensInv, TypeOK

\* The clients never touch rows and tokens; giving up only closes a request.
LEMMA ClientSafe ==
  ASSUME TokensInv, NEW n \in Nodes,
         \/ SendRegister(n) \/ SendRefresh(n) \/ Receive(n)
         \/ SendRecovery(n, None) \/ SendRecovery(n, held[n].token)
  PROVE  TokensInv'
<1>0. held[n] \in Answers /\ held[n].token \in Ids /\ held[n].secret \in Ids /\ None \in Ids
  BY DEF TokensInv, TypeOK, Answers, Ids
<1>1. rows' = rows /\ tokens' = tokens /\ handler' = handler /\ issued' = issued
  BY DEF SendRegister, SendRefresh, Receive, SendRecovery, Send, server
<1>2. HandlerReady' /\ TokensRegistered'
  BY <1>1 DEF TokensInv, HandlerReady, First, TokensRegistered
<1>3. TypeOK'
  <2>1. CASE Receive(n)
    <3>1. inbox[n] \in Answers /\ inbox' = [inbox EXCEPT ![n] = None]
      BY <2>1 DEF Receive, TokensInv, TypeOK
    <3>2. held'[n] = [c \in DOMAIN held[n] |-> IF inbox[n][c] = None THEN held[n][c] ELSE inbox[n][c]]
      BY <2>1 DEF Receive, TokensInv, TypeOK
    <3>3. held'[n] \in Answers BY <1>0, <3>1, <3>2 DEF Answers
    <3>4. held' \in [Nodes -> Answers] BY <2>1, <3>3 DEF Receive, TokensInv, TypeOK
    <3>5. inbox' \in [Nodes -> Answers \cup {None}] BY <3>1 DEF TokensInv, TypeOK
    <3> QED BY <2>1, <3>4, <3>5 DEF Receive, server, TokensInv, TypeOK
  <2>2. CASE SendRegister(n)
    <3>1. requests' \subseteq Request /\ UNCHANGED <<server, inbox, held, unseen>>
      BY <1>0, <2>2, SendTypes DEF SendRegister
    <3> QED BY <2>2, <3>1 DEF SendRegister, server, TokensInv, TypeOK
  <2>3. CASE SendRefresh(n)
    <3>1. requests' \subseteq Request /\ UNCHANGED <<server, inbox, held, unseen>>
      BY <1>0, <2>3, SendTypes DEF SendRefresh
    <3> QED BY <2>3, <3>1 DEF SendRefresh, Disturb, server, TokensInv, TypeOK
  <2>4. CASE SendRecovery(n, None) \/ SendRecovery(n, held[n].token)
    <3>1. requests' \subseteq Request /\ UNCHANGED <<server, inbox, held, unseen>>
      BY <1>0, <2>4, SendTypes DEF SendRecovery
    <3> QED BY <2>4, <3>1 DEF SendRecovery, server, TokensInv, TypeOK
  <2> QED BY <2>1, <2>2, <2>3, <2>4
<1> QED BY <1>2, <1>3 DEF TokensInv

LEMMA TimeoutSafe == ASSUME TokensInv, NEW n \in Nodes, Timeout(n) PROVE TokensInv'
<1>1. rows' = rows /\ tokens' = tokens /\ issued' = issued /\ held' = held
  BY DEF Timeout
<1>2. /\ handler' \in Handler \cup {Idle}
      /\ handler' # Idle => handler # Idle /\ handler'.todo = handler.todo /\ handler'.node = handler.node
                          /\ handler'.op = handler.op
  BY DEF Timeout, Handler, TokensInv, TypeOK
<1>3. requests' \subseteq Request BY DEF Timeout, TokensInv, TypeOK, Request
<1>4. inbox' \in [Nodes -> Answers \cup {None}] BY DEF Timeout, TokensInv, TypeOK
<1>5. unseen' \subseteq Ids BY DEF Timeout, TokensInv, TypeOK, Answers
<1>6. TypeOK' BY <1>1, <1>2, <1>3, <1>4, <1>5 DEF Timeout, Disturb, TokensInv, TypeOK
<1>7. HandlerReady' /\ TokensRegistered'
  BY <1>1, <1>2 DEF TokensInv, HandlerReady, First, TokensRegistered
<1> QED BY <1>6, <1>7 DEF TokensInv

-----------------------------------------------------------------------------
LEMMA StepTokens == TokensInv /\ [Next]_vars => TokensInv'
<1> SUFFICES ASSUME TokensInv, [Next]_vars PROVE TokensInv'
  OBVIOUS
<1>1. CASE Transaction BY <1>1, TransactionSafe DEF Safe, TokensInv
<1>2. CASE Respond \/ Interrupt BY <1>2, EndSafe
<1>3. CASE \E r \in requests : Serve(r) \/ Refuse(r) BY <1>3, ServeSafe
<1>4. CASE ExpireToken \/ PurgeExpiredTokens
  <2>1. CASE Nodes # {} BY <1>4, <2>1, WorldSafe
  <2>2. CASE Nodes = {}
    <3>1. tokens = {} BY <2>2 DEF TokensInv, TypeOK, Token
    <3> QED BY <1>4, <3>1 DEF ExpireToken, PurgeExpiredTokens
  <2> QED BY <2>1, <2>2
<1>5. ASSUME NEW n \in Nodes, Approve(n) \/ IssueToken(n) \/ DeleteNode(n) PROVE TokensInv'
  BY <1>5, AdminSafe
<1>6. ASSUME NEW n \in Nodes, ExpireSecret(n) \/ MarkOffline(n) \/ Heartbeat(n) PROVE TokensInv'
  BY <1>6, WorldSafe
<1>7. ASSUME NEW n \in Nodes,
             \/ SendRegister(n) \/ SendRefresh(n) \/ Receive(n)
             \/ SendRecovery(n, None) \/ SendRecovery(n, held[n].token)
      PROVE  TokensInv'
  BY <1>7, ClientSafe
<1>8. ASSUME NEW n \in Nodes, Timeout(n) PROVE TokensInv'
  BY <1>8, TimeoutSafe
<1>9. CASE UNCHANGED vars
  BY <1>9 DEF vars, server, client, TokensInv, TypeOK, HandlerReady, First, TokensRegistered
<1> QED BY <1>1, <1>2, <1>3, <1>4, <1>5, <1>6, <1>7, <1>8, <1>9 DEF Next, Server

\* Every reachable state is well-typed.
THEOREM TypeCorrect == Spec => []TypeOK
<1>1. TokensInv => TypeOK BY DEF TokensInv
<1> QED BY <1>1, InitTokens, StepTokens, PTL DEF Spec

-----------------------------------------------------------------------------
\* Who a credential belongs to.  An id is issued once, and only to its
\* node; a node has one exchange with the server at a time, and everything
\* else that is on its way was given up.

Own(n, id) == id # None => id <= issued /\ \A t \in tokens : t.id = id => t.node = n

TokensAreOwn ==
  /\ \A t \in tokens : t.id <= issued
  /\ \A n \in Nodes : Own(n, held[n].token) /\ (inbox[n] # None => Own(n, inbox[n].token))
  /\ \A r \in requests : Own(r.node, r.bearer)
  /\ handler # Idle => Own(handler.node, handler.answer.token)

OneExchange ==
  /\ \A r, s \in requests : r.open /\ s.open /\ r.node = s.node => r = s
  /\ \A r \in requests :
       r.open => inbox[r.node] = None /\ ~(handler # Idle /\ handler.node = r.node /\ handler.open)
  /\ handler # Idle /\ handler.open => inbox[handler.node] = None

TokensMove ==
  /\ issued' \in Nat /\ issued <= issued'
  /\ \A t \in tokens' :
       t.id <= issued' /\ (t.id = issued + 1 \/ \E u \in tokens : u.id = t.id /\ u.node = t.node)

LEMMA TokensStep ==
  ASSUME TokensInv, TokensAreOwn, [Next]_vars PROVE TokensMove
<1>1. issued \in Nat /\ \A t \in tokens : t \in Token /\ t.id \in Nat /\ t.id <= issued
  BY DEF TokensInv, TypeOK, Token, TokensAreOwn
<1>2. CASE ExpireToken
  <2>1. PICK t \in tokens : tokens' = (tokens \ {t}) \cup {[t EXCEPT !.expired = TRUE]}
    BY <1>2 DEF ExpireToken
  <2>2. \A u \in tokens' : \E v \in tokens : v.id = u.id /\ v.node = u.node
    BY <1>1, <2>1 DEF Token
  <2> QED BY <1>1, <1>2, <2>2 DEF ExpireToken, TokensMove
<1>3. ASSUME NEW kind, CreateToken(kind) PROVE TokensMove
  BY <1>1, <1>3 DEF CreateToken, Issue, TokensMove
<1>4. CASE tokens' \subseteq tokens /\ issued' \in {issued, issued + 1}
  BY <1>1, <1>4 DEF TokensMove
<1>5. \/ ExpireToken \/ \E kind : CreateToken(kind)
      \/ tokens' \subseteq tokens /\ issued' \in {issued, issued + 1}
  BY DEF Next, Server, Transaction, InsertPending, InsertAdmin, InsertNode, MarkApproved, Invalidate,
         CreateTemporary, CreateRuntime, Rotate, Issue, Respond, Serve, Begin, Refuse, Interrupt,
         PurgeExpiredTokens, Approve, IssueToken, DeleteNode, ExpireSecret, MarkOffline, Heartbeat,
         SetStatus, SendRegister, SendRefresh, SendRecovery, Send, Receive, Timeout, server, vars
<1> QED BY <1>2, <1>3, <1>4, <1>5

\* After the step.
OwnNext(n, id) == id # None => id <= issued' /\ \A t \in tokens' : t.id = id => t.node = n

LEMMA OwnKept ==
  ASSUME TokensInv, TokensMove, NEW n, NEW id \in Ids, Own(n, id) PROVE OwnNext(n, id)
BY DEF TokensInv, TypeOK, TokensMove, Own, OwnNext, Ids

\* The token a request carries decides who it is about: its sender.
LEMMA SenderIsSubject ==
  ASSUME TokensInv, TokensAreOwn, NEW r \in requests PROVE Subject(r) = r.node
<1>1. CASE Operation(r) \in {"refresh", "rotate"}
  <2>1. Authenticates(r.bearer) # {}
    BY <1>1 DEF Operation
  <2>2. PICK t \in Authenticates(r.bearer) : Subject(r) = t.node
    BY <1>1, <2>1 DEF Subject
  <2>3. t \in tokens /\ t.id = r.bearer /\ t.id \in Nat
    BY <2>2 DEF Authenticates, Valid, TokensInv, TypeOK, Token
  <2> QED BY <2>2, <2>3, NoneAssumption DEF TokensAreOwn, Own
<1> QED BY <1>1 DEF Subject

LEMMA ExchangeInit == Init => TokensAreOwn /\ OneExchange
BY DEF Init, Nothing, TokensAreOwn, OneExchange, Own

\* What is owned stays owned, by whoever passes it on.
LEMMA AllKept ==
  ASSUME TokensInv, TokensAreOwn, TokensMove
  PROVE  /\ \A n \in Nodes : /\ OwnNext(n, held[n].token)
                             /\ inbox[n] # None => OwnNext(n, inbox[n].token)
         /\ \A r \in requests : OwnNext(r.node, r.bearer)
         /\ handler # Idle => OwnNext(handler.node, handler.answer.token)
<1>1. ASSUME NEW n \in Nodes PROVE OwnNext(n, held[n].token)
  BY OwnKept DEF TokensAreOwn, TokensInv, TypeOK, Answers
<1>2. ASSUME NEW n \in Nodes, inbox[n] # None PROVE OwnNext(n, inbox[n].token)
  BY <1>2, OwnKept DEF TokensAreOwn, TokensInv, TypeOK, Answers
<1>3. ASSUME NEW r \in requests PROVE OwnNext(r.node, r.bearer)
  BY OwnKept DEF TokensAreOwn, TokensInv, TypeOK, Request
<1>4. ASSUME handler # Idle PROVE OwnNext(handler.node, handler.answer.token)
  BY <1>4, OwnKept DEF TokensAreOwn, TokensInv, TypeOK, Handler, Answers
<1> QED BY <1>1, <1>2, <1>3, <1>4

LEMMA NoneIsOwned == \A n : OwnNext(n, None)
BY DEF OwnNext

LEMMA OwnStep == TokensInv /\ TokensAreOwn /\ [Next]_vars => TokensAreOwn'
<1> SUFFICES ASSUME TokensInv, TokensAreOwn, [Next]_vars PROVE TokensAreOwn'
  OBVIOUS
<1>1. TokensMove BY TokensStep
<1>2. \A t \in tokens' : t.id <= issued' BY <1>1 DEF TokensMove
<1>4. handler' # Idle => OwnNext(handler'.node, handler'.answer.token)
  <2>1. CASE CreateTemporary \/ CreateRuntime
    <3>1. /\ handler \in Handler /\ issued' = issued + 1
          /\ handler' = [handler EXCEPT !.todo = Tail(@), !.answer = [handler.answer EXCEPT !.token = issued + 1]]
          /\ \E kind : tokens' = tokens \cup {[id |-> issued + 1, node |-> handler.node,
                                               kind |-> kind, expired |-> FALSE]}
      BY <2>1 DEF CreateTemporary, CreateRuntime, CreateToken, Issue, Commit, TokensInv, TypeOK
    <3>2. handler'.node = handler.node /\ handler'.answer.token = issued + 1
      BY <3>1 DEF Handler, Answers
    <3>3. \A t \in tokens : t.id # issued + 1
      BY DEF TokensAreOwn, TokensInv, TypeOK, Token
    <3> QED BY <3>1, <3>2, <3>3 DEF OwnNext, TokensInv, TypeOK
  <2>2. CASE Transaction /\ ~ (CreateTemporary \/ CreateRuntime)
    <3>1. handler \in Handler /\ handler # Idle
      BY <2>2 DEF Transaction, InsertPending, InsertAdmin, InsertNode, MarkApproved, Invalidate,
             CreateTemporary, CreateRuntime, Rotate, Commit, TokensInv, TypeOK
    <3>2. PICK answer : /\ answer.token \in {None, handler.answer.token}
                        /\ \E step : Commit(step, answer)
      <4>1. handler.answer.token \in Ids BY <3>1 DEF Handler, Answers
      <4>2. CASE InsertPending BY <4>2 DEF InsertPending, InsertNode, Nothing
      <4>3. CASE InsertAdmin BY <4>3 DEF InsertAdmin, InsertNode, Nothing
      <4>4. CASE MarkApproved BY <4>4 DEF MarkApproved, Nothing
      <4>5. CASE Invalidate BY <4>5 DEF Invalidate, Nothing
      <4>7. CASE Rotate
        <5> DEFINE new == [handler.answer EXCEPT !.secret = issued + 1]
        <5>1. new.token = handler.answer.token
          BY <3>1 DEF Handler, Answers
        <5>2. Commit("rotate", new)
          BY <4>7 DEF Rotate
        <5> HIDE DEF new
        <5> QED BY <5>1, <5>2
      <4> QED BY <2>2, <4>2, <4>3, <4>4, <4>5, <4>7 DEF Transaction
    <3>3. handler'.node = handler.node /\ handler'.answer = answer
      BY <3>1, <3>2 DEF Commit, Handler
    <3> QED BY <1>1, <3>1, <3>2, <3>3, AllKept, NoneIsOwned
  <2>3. CASE \E op, n, open : Begin(op, n, open)
    BY <2>3, NoneIsOwned DEF Begin, Nothing
  <2>4. CASE \E n \in Nodes : Timeout(n)
    <3>1. handler' = handler \/ (handler # Idle /\ handler' = [handler EXCEPT !.open = FALSE])
      BY <2>4 DEF Timeout
    <3>2. handler # Idle => handler \in Handler BY DEF TokensInv, TypeOK
    <3>3. handler' = handler \/ (handler # Idle /\ handler'.node = handler.node /\ handler'.answer = handler.answer)
      BY <3>1, <3>2 DEF Handler
    <3> QED BY <1>1, <3>3, AllKept
  <2>5. CASE handler' \in {handler, Idle}
    BY <1>1, <2>5, AllKept
  <2>6. \/ Transaction \/ \E op, n, open : Begin(op, n, open)
        \/ (\E n \in Nodes : Timeout(n)) \/ handler' \in {handler, Idle}
    BY DEF Next, Server, Respond, Serve, Refuse, Interrupt, ExpireToken,
         PurgeExpiredTokens, Approve, IssueToken, DeleteNode, ExpireSecret, MarkOffline, Heartbeat,
         SetStatus, SendRegister, SendRefresh, SendRecovery, Send, Receive, server, vars
  <2> QED BY <2>1, <2>2, <2>3, <2>4, <2>5, <2>6
<1>5. ASSUME NEW n \in Nodes, inbox'[n] # None PROVE OwnNext(n, inbox'[n].token)
  <2>1. CASE Respond \/ Interrupt
    <3>1. handler # Idle /\ handler.node \in Nodes
      BY <2>1 DEF Respond, Interrupt, TokensInv, TypeOK, Handler
    <3>2. inbox'[n] = inbox[n] \/ (n = handler.node /\ inbox'[n] \in {handler.answer, Nothing})
      BY <2>1, <3>1 DEF Respond, Interrupt, Answer, TokensInv, TypeOK
    <3> QED BY <1>1, <1>5, <3>1, <3>2, AllKept, NoneIsOwned DEF Nothing
  <2>2. ASSUME NEW r \in requests, Refuse(r) PROVE OwnNext(n, inbox'[n].token)
    <3>1. inbox'[n] \in {inbox[n], Nothing}
      BY <2>2 DEF Refuse, Answer, TokensInv, TypeOK, Request
    <3> QED BY <1>1, <1>5, <3>1, AllKept, NoneIsOwned DEF Nothing
  <2>3. CASE inbox' = inbox \/ \E m \in Nodes : inbox' = [inbox EXCEPT ![m] = None]
    <3>1. inbox'[n] = inbox[n] BY <1>5, <2>3 DEF TokensInv, TypeOK
    <3> QED BY <1>1, <1>5, <3>1, AllKept
  <2>4. \/ Respond \/ Interrupt \/ \E r \in requests : Refuse(r)
        \/ inbox' = inbox \/ \E m \in Nodes : inbox' = [inbox EXCEPT ![m] = None]
    BY DEF Next, Server, Transaction, InsertPending, InsertAdmin, InsertNode, MarkApproved, Invalidate,
         CreateTemporary, CreateRuntime, CreateToken, Rotate, Serve, ExpireToken,
         PurgeExpiredTokens, Approve, IssueToken, DeleteNode, ExpireSecret, MarkOffline, Heartbeat,
         SetStatus, SendRegister, SendRefresh, SendRecovery, Send, Receive, Timeout, client, vars
  <2> QED BY <2>1, <2>2, <2>3, <2>4
<1>6. ASSUME NEW n \in Nodes PROVE OwnNext(n, held'[n].token)
  <2>1. CASE Respond
    <3>1. handler # Idle /\ handler.node \in Nodes
      BY <2>1 DEF Respond, TokensInv, TypeOK, Handler
    <3>2. held' = held \/ held' = [held EXCEPT ![handler.node].token = handler.answer.token]
      BY <2>1 DEF Respond
    <3>3. held'[n].token = held[n].token \/ (n = handler.node /\ held'[n].token = handler.answer.token)
      BY <3>1, <3>2 DEF TokensInv, TypeOK, Answers
    <3> QED BY <1>1, <3>1, <3>3, AllKept
  <2>2. ASSUME NEW m \in Nodes, Receive(m) PROVE OwnNext(n, held'[n].token)
    <3>1. inbox[m] # None /\ held[m] \in Answers
      BY <2>2 DEF Receive, TokensInv, TypeOK
    <3>2. \/ held'[n].token = held[n].token
          \/ n = m /\ held'[n].token = inbox[n].token
      BY <2>2, <3>1 DEF Receive, TokensInv, TypeOK, Answers
    <3> QED BY <1>1, <3>1, <3>2, AllKept
  <2>3. CASE held' = held BY <1>1, <2>3, AllKept
  <2>4. Respond \/ (\E m \in Nodes : Receive(m)) \/ held' = held
    BY DEF Next, Server, Transaction, InsertPending, InsertAdmin, InsertNode, MarkApproved, Invalidate,
         CreateTemporary, CreateRuntime, CreateToken, Rotate, Serve, Refuse, Interrupt, ExpireToken,
         PurgeExpiredTokens, Approve, IssueToken, DeleteNode, ExpireSecret, MarkOffline, Heartbeat,
         SetStatus, SendRegister, SendRefresh, SendRecovery, Send, Timeout, client, vars
  <2> QED BY <2>1, <2>2, <2>3, <2>4
<1>7. ASSUME NEW r \in requests' PROVE OwnNext(r.node, r.bearer)
  <2>1. ASSUME NEW n \in Nodes, NEW want, NEW bearer \in {None, held[n].token}, NEW secret,
               Send(n, want, bearer, secret)
        PROVE  OwnNext(r.node, r.bearer)
    <3>1. r \in requests \/ (r.node = n /\ r.bearer = bearer)
      BY <2>1 DEF Send
    <3> QED BY <1>1, <3>1, AllKept, NoneIsOwned
  <2>2. ASSUME NEW n \in Nodes, Timeout(n) PROVE OwnNext(r.node, r.bearer)
    <3>1. \E s \in requests : r \in {s, [s EXCEPT !.open = FALSE]}
      BY <2>2 DEF Timeout
    <3>2. \E s \in requests : r.node = s.node /\ r.bearer = s.bearer
      BY <3>1 DEF TokensInv, TypeOK, Request
    <3> QED BY <1>1, <3>2, AllKept
  <2>3. CASE requests' \subseteq requests BY <1>1, <2>3, AllKept
  <2>4. ASSUME NEW n \in Nodes,
               SendRegister(n) \/ SendRefresh(n) \/ SendRecovery(n, None) \/ SendRecovery(n, held[n].token)
        PROVE  OwnNext(r.node, r.bearer)
    <3>1. CASE SendRegister(n) BY <2>1, <3>1 DEF SendRegister
    <3>2. CASE SendRefresh(n) BY <2>1, <3>2 DEF SendRefresh
    <3>3. CASE SendRecovery(n, None) BY <2>1, <3>3 DEF SendRecovery
    <3>4. CASE SendRecovery(n, held[n].token) BY <2>1, <3>4 DEF SendRecovery
    <3> QED BY <2>4, <3>1, <3>2, <3>3, <3>4
  <2>5. \/ \E n \in Nodes : \/ Timeout(n) \/ SendRegister(n) \/ SendRefresh(n)
                            \/ SendRecovery(n, None) \/ SendRecovery(n, held[n].token)
        \/ requests' \subseteq requests
    BY DEF Next, Server, Transaction, InsertPending, InsertAdmin, InsertNode, MarkApproved, Invalidate,
         CreateTemporary, CreateRuntime, CreateToken, Rotate, Respond, Serve, Refuse, Interrupt, ExpireToken,
         PurgeExpiredTokens, Approve, IssueToken, DeleteNode, ExpireSecret, MarkOffline, Heartbeat,
         SetStatus, Receive, client, vars
  <2> QED BY <2>2, <2>3, <2>4, <2>5
<1>8. \A n \in Nodes : Own(n, held[n].token)' /\ (inbox[n] # None => Own(n, inbox[n].token))'
  BY <1>5, <1>6 DEF Own, OwnNext
<1>9. \A r \in requests' : r.bearer # None => r.bearer <= issued' /\ \A t \in tokens' : t.id = r.bearer => t.node = r.node
  BY <1>7 DEF OwnNext
<1>10. (handler # Idle => Own(handler.node, handler.answer.token))'
  BY <1>4 DEF Own, OwnNext, Idle
<1> QED BY <1>2, <1>8, <1>9, <1>10 DEF TokensAreOwn, Own

\* A token that is new came from the handler, which had made room for it.
LEMMA ReplacedStep ==
  ASSUME TokensInv, TokensAreOwn, [Next]_vars, NEW t \in tokens', t.id > issued,
         NEW u \in tokens', u # t, u.node = t.node
  PROVE  /\ t.kind = "runtime"
         /\ u.kind = IF handler.op = "approve" THEN "runtime" ELSE "temporary"
<1>1. \A v \in tokens : v.id \in Nat /\ v.id <= issued /\ issued \in Nat
  BY DEF TokensInv, TypeOK, Token, TokensAreOwn
<1>2. CASE ExpireToken
  <2>1. PICK v \in tokens : tokens' = (tokens \ {v}) \cup {[v EXCEPT !.expired = TRUE]}
    BY <1>2 DEF ExpireToken
  <2>2. v \in Token BY DEF TokensInv, TypeOK
  <2>3. \E w \in tokens : w.id = t.id BY <2>1, <2>2 DEF Token
  <2> QED BY <1>1, <2>3
<1>3. ASSUME NEW kind \in {"temporary", "runtime"}, NEW answer, Commit(kind, answer), CreateToken(kind)
      PROVE  /\ t.kind = "runtime"
             /\ u.kind = IF handler.op = "approve" THEN "runtime" ELSE "temporary"
  <2> DEFINE new == [id |-> issued + 1, node |-> handler.node, kind |-> kind, expired |-> FALSE]
  <2>1. tokens' = tokens \cup {new} BY <1>3 DEF CreateToken
  <2>2. new.node = handler.node /\ new.kind = kind OBVIOUS
  <2> HIDE DEF new
  <2>3. t = new /\ u \in tokens BY <1>1, <2>1
  <2>4. handler # Idle /\ First(kind) BY <1>3 DEF Commit, First
  <2>5. kind = "runtime" /\ u.kind # Replaces(handler.op)
    BY <2>2, <2>3, <2>4 DEF TokensInv, HandlerReady
  <2>6. u.kind \in {"temporary", "runtime"} BY <2>3 DEF TokensInv, TypeOK, Token
  <2> QED BY <2>2, <2>3, <2>5, <2>6 DEF Replaces
<1>4. CASE tokens' \subseteq tokens BY <1>1, <1>4
<1>5. \/ ExpireToken \/ tokens' \subseteq tokens
      \/ \E kind \in {"temporary", "runtime"} : \E answer : Commit(kind, answer) /\ CreateToken(kind)
  BY DEF Next, Server, Transaction, InsertPending, InsertAdmin, InsertNode, MarkApproved, Invalidate,
         CreateTemporary, CreateRuntime, Rotate, Respond, Serve, Begin, Refuse, Interrupt,
         PurgeExpiredTokens, Approve, IssueToken, DeleteNode, ExpireSecret, MarkOffline, Heartbeat,
         SetStatus, SendRegister, SendRefresh, SendRecovery, Send, Receive, Timeout, server, vars
<1> QED BY <1>2, <1>3, <1>4, <1>5

\* A new token replaces what the node had (_replace_runtime_token,
\* approve_node), whatever was interrupted before.
THEOREM TokensReplaced == Spec => TokensAreReplaced
<1>1. Init => TokensInv /\ TokensAreOwn
  BY InitTokens, ExchangeInit
<1>2. TokensInv /\ TokensAreOwn /\ [Next]_vars => (TokensInv /\ TokensAreOwn)'
  BY StepTokens, OwnStep
<1>3. ASSUME TokensInv, TokensAreOwn, [Next]_vars
      PROVE  [\A t \in tokens' : \A u \in tokens' \ {t} :
                t.id > issued /\ u.node = t.node =>
                  /\ t.kind = "runtime"
                  /\ u.kind = IF handler.op = "approve" THEN "runtime" ELSE "temporary"]_vars
  BY <1>3, ReplacedStep
<1> QED BY <1>1, <1>2, <1>3, PTL DEF Spec, TokensAreReplaced

\* One exchange of a node at a time.
LEMMA OneExchangeStep ==
  TokensInv /\ TokensAreOwn /\ OneExchange /\ [Next]_vars => OneExchange'
<1> SUFFICES ASSUME TokensInv, TokensAreOwn, OneExchange, [Next]_vars PROVE OneExchange'
  OBVIOUS
<1> DEFINE Open(h) == h # Idle /\ h.open
<1>1. ASSUME requests' \subseteq requests, UNCHANGED inbox,
             Open(handler') => Open(handler) /\ handler'.node = handler.node
      PROVE  OneExchange'
  BY <1>1 DEF OneExchange
<1>2. ASSUME NEW r \in requests, Serve(r) PROVE OneExchange'
  <2>1. handler' # Idle /\ handler'.node = r.node /\ handler'.open = r.open /\ requests' = requests \ {r}
    BY <1>2, SenderIsSubject DEF Serve, Begin, Idle
  <2>2. UNCHANGED inbox BY <1>2 DEF Serve
  <2> QED BY <2>1, <2>2 DEF OneExchange
<1>3. ASSUME NEW r \in requests, Refuse(r) PROVE OneExchange'
  <2>1. /\ requests' = requests \ {r} /\ handler' = handler /\ handler = Idle
        /\ inbox' = inbox \/ (r.open /\ inbox' = [inbox EXCEPT ![r.node] = Nothing])
    BY <1>3 DEF Refuse, server, Answer
  <2>2. \A s \in requests' : s.open => inbox'[s.node] = inbox[s.node]
    BY <2>1 DEF OneExchange, TokensInv, TypeOK, Request
  <2> QED BY <2>1, <2>2 DEF OneExchange
<1>4. CASE Respond \/ Interrupt
  <2>1. /\ handler # Idle /\ handler' = Idle /\ requests' = requests
        /\ \/ inbox' = inbox
           \/ handler.open /\ \E c : inbox' = [inbox EXCEPT ![handler.node] = c]
    BY <1>4 DEF Respond, Interrupt, Answer
  <2>2. \A s \in requests : s.open => inbox'[s.node] = inbox[s.node]
    BY <2>1 DEF OneExchange, TokensInv, TypeOK, Request
  <2> QED BY <2>1, <2>2 DEF OneExchange
<1>5. ASSUME NEW n \in Nodes, NEW want, NEW bearer, NEW secret, Send(n, want, bearer, secret)
      PROVE  OneExchange'
  <2> DEFINE r == [node |-> n, want |-> want, bearer |-> bearer, secret |-> secret, open |-> TRUE]
  <2>1. requests' = requests \cup {r} /\ ~Waiting(n) /\ handler' = handler /\ inbox' = inbox
    BY <1>5 DEF Send, server
  <2>2. r.node = n /\ r.open OBVIOUS
  <2> HIDE DEF r
  <2> QED BY <2>1, <2>2 DEF OneExchange, Waiting
<1>6. ASSUME NEW n \in Nodes, Timeout(n) PROVE OneExchange'
  <2>1. \A s \in requests' : s.open => s \in requests /\ s.node # n
    BY <1>6 DEF Timeout, TokensInv, TypeOK, Request
  <2>2. handler' # Idle /\ handler'.open => handler' = handler /\ handler.node # n
    BY <1>6 DEF Timeout, TokensInv, TypeOK, Handler
  <2>3. inbox' = [inbox EXCEPT ![n] = None] BY <1>6 DEF Timeout
  <2>4. \A m \in Nodes : m # n => inbox'[m] = inbox[m] BY <2>3 DEF TokensInv, TypeOK
  <2>5. handler # Idle => handler.node \in Nodes BY DEF TokensInv, TypeOK, Handler
  <2> QED BY <2>1, <2>2, <2>4, <2>5 DEF OneExchange, TokensInv, TypeOK, Request
<1>7. ASSUME NEW n \in Nodes, Receive(n) PROVE OneExchange'
  <2>1. requests' = requests /\ handler' = handler /\ inbox' = [inbox EXCEPT ![n] = None]
    BY <1>7 DEF Receive, server
  <2>2. handler # Idle => handler.node \in Nodes BY DEF TokensInv, TypeOK, Handler
  <2> QED BY <2>1, <2>2 DEF OneExchange, TokensInv, TypeOK, Request
<1>8. CASE Transaction
  <2>1. requests' = requests /\ UNCHANGED inbox
    BY <1>8 DEF Transaction, InsertPending, InsertAdmin, InsertNode, MarkApproved, Invalidate,
           CreateTemporary, CreateRuntime, CreateToken, Rotate, client
  <2>2. PICK step, answer : Commit(step, answer)
    BY <1>8 DEF Transaction, InsertPending, InsertAdmin, InsertNode, MarkApproved, Invalidate,
           CreateTemporary, CreateRuntime, Rotate
  <2>3. handler # Idle /\ handler'.open = handler.open /\ handler'.node = handler.node
    BY <2>2 DEF Commit, TokensInv, TypeOK, Handler
  <2> QED BY <1>1, <2>1, <2>3
<1>9. ASSUME NEW n \in Nodes, Approve(n) \/ IssueToken(n) PROVE OneExchange'
  <2>1. ~handler'.open /\ requests' = requests /\ UNCHANGED inbox
    BY <1>9 DEF Approve, IssueToken, Begin, client
  <2> QED BY <1>1, <2>1
<1>10. ASSUME NEW n \in Nodes, SendRegister(n) \/ SendRefresh(n) \/ SendRecovery(n, None) \/ SendRecovery(n, held[n].token)
       PROVE  OneExchange'
  <2>1. \E want, bearer, secret : Send(n, want, bearer, secret)
    BY <1>10 DEF SendRegister, SendRefresh, SendRecovery
  <2> QED BY <1>5, <2>1
<1>11. \/ \E r \in requests : Serve(r) \/ Refuse(r)
       \/ Respond \/ Interrupt \/ Transaction
       \/ \E n \in Nodes : \/ SendRegister(n) \/ SendRefresh(n) \/ SendRecovery(n, None)
                           \/ SendRecovery(n, held[n].token) \/ Timeout(n) \/ Receive(n)
                           \/ Approve(n) \/ IssueToken(n)
       \/ requests' = requests /\ UNCHANGED inbox /\ handler' = handler
  BY DEF Next, Server, ExpireToken, PurgeExpiredTokens, DeleteNode, ExpireSecret, MarkOffline,
         Heartbeat, SetStatus, client, server, vars
<1> QED BY <1>1, <1>2, <1>3, <1>4, <1>6, <1>7, <1>8, <1>9, <1>10, <1>11

-----------------------------------------------------------------------------
\* Where a secret is.  An answer carries the secret of its node's row, and
\* one on its way is the newest unless a later one was lost.

Carries(n) == handler # Idle /\ handler.node = n /\ handler.answer.secret = rows[n].secret

Carried ==
  handler # Idle =>
    /\ First("insert") => handler.op = "register"
    /\ handler.answer.secret # None =>
         /\ handler.todo = <<>> \/ (handler.op = "register" /\ handler.todo = <<"temporary">>)
         /\ handler.node \in DOMAIN rows => Carries(handler.node)

InboxIsNewest ==
  \A n \in DOMAIN rows :
    inbox[n] # None /\ inbox[n].secret # None =>
      rows[n].secret \in {None, inbox[n].secret} \cup unseen \/ Carries(n)

SecretInv == Carried /\ InboxIsNewest /\ SecretIsReachable

Exchanges == TokensInv /\ TokensAreOwn /\ OneExchange

RowsKept == \A n \in DOMAIN rows' : n \in DOMAIN rows /\ rows'[n].secret = rows[n].secret

LEMMA SecretInit == Init => SecretInv
BY DEF Init, SecretInv, Carried, InboxIsNewest, SecretIsReachable

\* A handler with a transaction other than the temporary token ahead of it
\* has no secret in its answer yet.
LEMMA NoSecretYet ==
  ASSUME TokensInv, Carried, NEW step, step # "temporary", handler # Idle, First(step)
  PROVE  handler.answer.secret = None
BY OneStep DEF Carried, First

\* The answer of a handler goes nowhere, or loses no secret it had.
LEMMA QuietSecrets ==
  ASSUME SecretInv, RowsKept, UNCHANGED <<inbox, held, unseen>>,
         handler' # Idle /\ First("insert")' => handler'.op = "register",
         \/ handler' = handler
         \/ /\ handler = Idle \/ handler.answer.secret = None
            /\ handler' # Idle /\ handler'.answer.secret = None
         \/ /\ handler # Idle /\ handler' # Idle /\ handler'.todo = <<>>
            /\ handler'.node = handler.node
            /\ handler'.answer.secret = handler.answer.secret
  PROVE  SecretInv'
<1>1. Carried'
  BY DEF SecretInv, Carried, Carries, RowsKept, First
<1>2. InboxIsNewest'
  <2> SUFFICES ASSUME NEW n \in DOMAIN rows', inbox'[n] # None, inbox'[n].secret # None
               PROVE  \/ rows'[n].secret \in {None, inbox'[n].secret} \cup unseen'
                      \/ Carries(n)'
    BY DEF InboxIsNewest
  <2>1. rows[n].secret \in {None, inbox[n].secret} \cup unseen \/ Carries(n)
    BY DEF SecretInv, InboxIsNewest, RowsKept
  <2> QED BY <2>1 DEF Carries, RowsKept
<1>3. SecretIsReachable'
  <2> SUFFICES ASSUME NEW n \in DOMAIN rows'
               PROVE  \/ rows'[n].secret \in {None, held'[n].secret} \cup unseen'
                      \/ inbox'[n] # None /\ inbox'[n].secret = rows'[n].secret
                      \/ handler' # Idle /\ handler'.node = n /\ handler'.answer.secret = rows'[n].secret
    BY DEF SecretIsReachable
  <2>1. \/ rows[n].secret \in {None, held[n].secret} \cup unseen
        \/ inbox[n] # None /\ inbox[n].secret = rows[n].secret
        \/ handler # Idle /\ handler.node = n /\ handler.answer.secret = rows[n].secret
    BY DEF SecretInv, SecretIsReachable, RowsKept
  <2> QED BY <2>1 DEF RowsKept
<1> QED BY <1>1, <1>2, <1>3 DEF SecretInv

\* What a transaction does to its handler.
LEMMA CommitSecrets ==
  ASSUME TokensInv, Carried, NEW answer,
         NEW step \in {"insert", "insert_admin", "approve", "invalidate", "temporary", "runtime", "rotate"},
         Commit(step, answer)
  PROVE  /\ handler # Idle /\ handler' # Idle /\ handler'.node = handler.node
         /\ handler'.op = handler.op /\ handler'.answer = answer
         /\ ~ First("insert")'
         /\ step # "temporary" => handler.answer.secret = None
         /\ step = "insert" => handler.op = "register" /\ handler'.todo = <<"temporary">>
                             /\ handler.node \notin DOMAIN rows
         /\ step = "insert_admin" => handler.node \notin DOMAIN rows
         /\ step \in {"temporary", "rotate"} => handler'.todo = <<>>
<1>1. handler \in Handler /\ handler # Idle /\ First(step) /\ Follows(handler.todo)
  BY ListFollows DEF Commit, First, TokensInv, TypeOK, Handler
<1>2. /\ handler' # Idle /\ handler'.node = handler.node /\ handler'.op = handler.op
      /\ handler'.answer = answer /\ handler'.todo = Tail(handler.todo)
  BY <1>1 DEF Commit, Handler, Idle
<1>3. ~ First("insert")'
  <2>1. handler'.todo \in {<<>>, <<"temporary">>, <<"runtime">>, <<"rotate">>, <<"runtime", "rotate">>}
    BY <1>1, <1>2 DEF First, Follows
  <2> QED BY <2>1, Heads DEF First
<1>4. step # "temporary" => handler.answer.secret = None
  BY <1>1, NoSecretYet
<1> QED BY <1>1, <1>2, <1>3, <1>4 DEF Carried, First, Follows, TokensInv, HandlerReady

\* The transactions that put a secret into a row.
LEMMA NewSecret ==
  ASSUME TokensInv, SecretInv, UNCHANGED <<inbox, held, unseen>>,
         handler # Idle, handler.answer.secret = None,
         handler' # Idle, handler'.node = handler.node, ~ First("insert")',
         \/ handler'.todo = <<>> \/ handler'.answer.secret = None
         \/ handler'.op = "register" /\ handler'.todo = <<"temporary">>,
         handler.node \in DOMAIN rows' => rows'[handler.node].secret = handler'.answer.secret,
         \A n \in DOMAIN rows' \ {handler.node} : n \in DOMAIN rows /\ rows'[n].secret = rows[n].secret
  PROVE  SecretInv'
<1>1. Carried'
  BY DEF Carried, Carries, First
<1>2. ASSUME NEW n \in DOMAIN rows'
      PROVE  /\ inbox'[n] # None /\ inbox'[n].secret # None =>
                  rows'[n].secret \in {None, inbox'[n].secret} \cup unseen' \/ Carries(n)'
             /\ \/ rows'[n].secret \in {None, held'[n].secret} \cup unseen'
                \/ inbox'[n] # None /\ inbox'[n].secret = rows'[n].secret
                \/ handler' # Idle /\ handler'.node = n /\ handler'.answer.secret = rows'[n].secret
  <2>1. CASE n = handler.node
    BY <2>1 DEF Carries
  <2>2. CASE n # handler.node
    BY <2>2 DEF SecretInv, SecretIsReachable, InboxIsNewest, Carries
  <2> QED BY <2>1, <2>2
<1> QED BY <1>1, <1>2 DEF SecretInv, InboxIsNewest, SecretIsReachable

LEMMA TransactionSecrets == Exchanges /\ SecretInv /\ Transaction => SecretInv'
<1> SUFFICES ASSUME Exchanges, SecretInv, Transaction PROVE SecretInv'
  OBVIOUS
<1>0. TokensInv /\ Carried BY DEF Exchanges, SecretInv
<1>1. UNCHANGED <<inbox, held, unseen>>
  BY DEF Transaction, InsertPending, InsertAdmin, InsertNode, MarkApproved, Invalidate,
         CreateTemporary, CreateRuntime, CreateToken, Rotate, client
<1>2. CASE InsertPending
  <2> DEFINE row == [status |-> "pending", secret |-> issued + 1, expired |-> FALSE]
             answer == [Nothing EXCEPT !.secret = issued + 1]
  <2>1. Commit("insert", answer) /\ rows' = Put(rows, handler.node, row)
    BY <1>2 DEF InsertPending, InsertNode
  <2>2. answer.secret = issued + 1 /\ row.secret = issued + 1
    BY DEF Nothing
  <2> HIDE DEF row, answer
  <2>3. /\ rows'[handler.node].secret = answer.secret
        /\ \A n \in DOMAIN rows' \ {handler.node} : n \in DOMAIN rows /\ rows'[n].secret = rows[n].secret
    BY <2>1, <2>2 DEF Put
  <2> QED BY <1>0, <1>1, <2>1, <2>3, CommitSecrets, NewSecret
<1>3. CASE InsertAdmin
  <2> DEFINE row == [status |-> "approved", secret |-> None, expired |-> FALSE]
  <2>1. Commit("insert_admin", Nothing) /\ rows' = Put(rows, handler.node, row)
    BY <1>3 DEF InsertAdmin, InsertNode
  <2>2. Nothing.secret = None /\ row.secret = None
    BY DEF Nothing
  <2> HIDE DEF row
  <2>3. /\ rows'[handler.node].secret = None
        /\ \A n \in DOMAIN rows' \ {handler.node} : n \in DOMAIN rows /\ rows'[n].secret = rows[n].secret
    BY <2>1, <2>2 DEF Put
  <2> QED BY <1>0, <1>1, <2>1, <2>2, <2>3, CommitSecrets, NewSecret
<1>4. CASE Rotate
  <2> DEFINE answer == [handler.answer EXCEPT !.secret = issued + 1]
  <2>1. /\ Commit("rotate", answer)
        /\ rows' = [rows EXCEPT ![handler.node].secret = issued + 1, ![handler.node].expired = FALSE]
    BY <1>4 DEF Rotate
  <2>2. answer.secret = issued + 1
    BY <2>1 DEF Commit, TokensInv, TypeOK, Handler, Answers
  <2> HIDE DEF answer
  <2>3. DOMAIN rows' = DOMAIN rows
    BY <2>1
  <2>4. ASSUME NEW n \in DOMAIN rows, n # handler.node PROVE rows'[n].secret = rows[n].secret
    BY <2>1, <2>4
  <2>5. handler.node \in DOMAIN rows => rows'[handler.node].secret = answer.secret
    <3> SUFFICES ASSUME handler.node \in DOMAIN rows PROVE rows'[handler.node].secret = issued + 1
      BY <2>2
    <3>1. rows'[handler.node] = [[rows[handler.node] EXCEPT !.secret = issued + 1] EXCEPT !.expired = FALSE]
      BY <2>1
    <3> QED BY <1>0, <3>1 DEF TokensInv, TypeOK, Row
  <2> QED BY <1>0, <1>1, <2>1, <2>3, <2>4, <2>5, CommitSecrets, NewSecret
<1>5. CASE MarkApproved \/ Invalidate \/ CreateRuntime
  <2>1. RowsKept
    <3>1. CASE MarkApproved
      <4>1. DOMAIN rows' = DOMAIN rows /\ rows' = [rows EXCEPT ![handler.node].status = "approved"]
        BY <3>1 DEF MarkApproved
      <4>2. ASSUME NEW n \in DOMAIN rows
            PROVE  rows'[n] = rows[n] \/ rows'[n] = [rows[n] EXCEPT !.status = "approved"]
        BY <4>1
      <4> QED BY <1>0, <4>1, <4>2 DEF RowsKept, TokensInv, TypeOK, Row
    <3>2. CASE rows' = rows BY <3>2 DEF RowsKept
    <3> QED BY <1>5, <3>1, <3>2 DEF Invalidate, CreateRuntime, CreateToken
  <2>2. ASSUME NEW step \in {"approve", "invalidate", "runtime"}, NEW answer,
               Commit(step, answer), answer.secret \in {None, handler.answer.secret}
        PROVE  SecretInv'
    BY <1>0, <1>1, <2>1, <2>2, CommitSecrets, QuietSecrets
  <2>3. Nothing.secret = None BY DEF Nothing
  <2>4. CASE MarkApproved BY <2>2, <2>3, <2>4 DEF MarkApproved
  <2>5. CASE Invalidate BY <2>2, <2>3, <2>5 DEF Invalidate
  <2>6. CASE CreateRuntime
    <3> DEFINE answer == [handler.answer EXCEPT !.token = issued + 1]
    <3>1. Commit("runtime", answer) BY <2>6 DEF CreateRuntime
    <3>2. answer.secret = handler.answer.secret
      BY <3>1 DEF Commit, TokensInv, TypeOK, Handler, Answers
    <3> HIDE DEF answer
    <3> QED BY <2>2, <3>1, <3>2
  <2> QED BY <1>5, <2>4, <2>5, <2>6
<1>6. CASE CreateTemporary
  <2> DEFINE answer == [handler.answer EXCEPT !.token = issued + 1]
  <2>1. Commit("temporary", answer) /\ RowsKept
    BY <1>6 DEF CreateTemporary, CreateToken, RowsKept
  <2>2. answer.secret = handler.answer.secret
    BY <2>1 DEF Commit, TokensInv, TypeOK, Handler, Answers
  <2> HIDE DEF answer
  <2> QED BY <1>0, <1>1, <2>1, <2>2, CommitSecrets, QuietSecrets
<1> QED BY <1>2, <1>3, <1>4, <1>5, <1>6 DEF Transaction

\* The handler ends: its secret is answered, or was lost with the answer.
LEMMA EndSecrets == Exchanges /\ SecretInv /\ (Respond \/ Interrupt) => SecretInv'
<1> SUFFICES ASSUME Exchanges, SecretInv, Respond \/ Interrupt PROVE SecretInv'
  OBVIOUS
<1> DEFINE n == handler.node
<1>1. /\ handler # Idle /\ n \in Nodes /\ handler' = Idle /\ rows' = rows /\ DOMAIN rows \subseteq Nodes
      /\ inbox \in [Nodes -> Answers \cup {None}] /\ unseen \subseteq unseen'
  BY DEF Exchanges, Respond, Interrupt, TokensInv, TypeOK, Handler
<1>2. \A m \in Nodes : held'[m].secret = held[m].secret
  BY <1>1 DEF Exchanges, Respond, Interrupt, TokensInv, TypeOK, Answers
<1>3. handler.open => inbox[n] = None
  BY <1>1 DEF Exchanges, OneExchange
<1>4. \A m \in Nodes : m # n \/ ~handler.open => inbox'[m] = inbox[m]
  BY <1>1 DEF Respond, Interrupt, Answer
<1>5. handler.answer.secret # None /\ n \in DOMAIN rows => rows[n].secret = handler.answer.secret
  BY <1>1 DEF SecretInv, Carried, Carries
<1>6. CASE Respond
  <2>1. handler.open => inbox'[n] = handler.answer
    BY <1>1, <1>6 DEF Respond, Answer
  <2>2. ~handler.open => handler.answer.secret \in unseen'
    BY <1>6 DEF Respond
  <2>3. handler.answer # None
    BY <1>1, NoneAssumption DEF Exchanges, TokensInv, TypeOK, Handler, Answers, Ids
  <2>4. Carried' BY <1>1 DEF Carried
  <2>5. InboxIsNewest'
    BY <1>1, <1>4, <1>5, <2>1, <2>2 DEF SecretInv, InboxIsNewest, Carries
  <2>6. SecretIsReachable'
    BY <1>1, <1>2, <1>3, <1>4, <2>1, <2>2, <2>3 DEF SecretInv, SecretIsReachable
  <2> QED BY <2>4, <2>5, <2>6 DEF SecretInv
<1>7. CASE Interrupt
  <2>1. handler.answer.secret \in unseen' \cup {None}
    BY <1>7 DEF Interrupt, SecretInv, Carried
  <2>2. handler.open => inbox'[n] = Nothing
    BY <1>1, <1>7 DEF Interrupt, Answer
  <2>3. Nothing.secret = None BY DEF Nothing
  <2>4. Carried' BY <1>1 DEF Carried
  <2>5. InboxIsNewest'
    BY <1>1, <1>4, <2>1, <2>2, <2>3 DEF SecretInv, InboxIsNewest, Carries
  <2>6. SecretIsReachable'
    BY <1>1, <1>2, <1>3, <1>4, <2>1, <2>2 DEF SecretInv, SecretIsReachable
  <2> QED BY <2>4, <2>5, <2>6 DEF SecretInv
<1> QED BY <1>6, <1>7

\* Requests that begin or are refused.
LEMMA BeginSecrets ==
  ASSUME Exchanges, SecretInv, NEW op \in Operations, NEW n, NEW open, Begin(op, n, open),
         UNCHANGED <<inbox, held, unseen>>
  PROVE  SecretInv'
<1>1. /\ handler = Idle /\ handler' # Idle /\ handler'.answer.secret = None /\ rows' = rows
      /\ handler'.op = op /\ handler'.todo = Script(op)
  BY DEF Begin, Idle, Nothing
<1>2. First("insert")' => op = "register"
  BY <1>1, ScriptStarts DEF First, Operations
<1> QED BY <1>1, <1>2, QuietSecrets DEF RowsKept

LEMMA RequestSecrets ==
  ASSUME Exchanges, SecretInv, NEW r \in requests, Serve(r) \/ Refuse(r)
  PROVE  SecretInv'
<1>1. CASE Serve(r)
  BY <1>1, BeginSecrets, ServedNode DEF Serve, Exchanges
<1>2. CASE Refuse(r)
  <2>1. /\ rows' = rows /\ handler' = handler /\ handler = Idle /\ held' = held /\ unseen' = unseen
        /\ \A n \in Nodes : inbox'[n] = inbox[n] \/ (inbox[n] = None /\ inbox'[n] = Nothing)
    <3>1. r.open => inbox[r.node] = None BY DEF Exchanges, OneExchange
    <3>2. inbox' = IF r.open THEN [inbox EXCEPT ![r.node] = Nothing] ELSE inbox
      BY <1>2 DEF Refuse, Answer
    <3>3. inbox \in [Nodes -> Answers \cup {None}] BY DEF Exchanges, TokensInv, TypeOK
    <3>4. \A n \in Nodes : inbox'[n] = inbox[n] \/ (inbox[n] = None /\ inbox'[n] = Nothing)
      BY <3>1, <3>2, <3>3
    <3>5. /\ rows' = rows /\ handler' = handler /\ handler = Idle /\ held' = held /\ unseen' = unseen
      BY <1>2 DEF Refuse, server
    <3> QED BY <3>4, <3>5
  <2>2. DOMAIN rows \subseteq Nodes /\ Nothing.secret = None
    BY DEF Exchanges, TokensInv, TypeOK, Nothing
  <2>3. Carried' BY <2>1 DEF Carried
  <2>4. InboxIsNewest' BY <2>1, <2>2 DEF SecretInv, InboxIsNewest, Carries
  <2>5. SecretIsReachable' BY <2>1, <2>2 DEF SecretInv, SecretIsReachable
  <2> QED BY <2>3, <2>4, <2>5 DEF SecretInv
<1> QED BY <1>1, <1>2

LEMMA ReceiveSecrets ==
  ASSUME Exchanges, SecretInv, NEW n \in Nodes, Receive(n) PROVE SecretInv'
<1>1. /\ UNCHANGED <<rows, handler, unseen>> /\ inbox[n] # None
      /\ \A m \in Nodes \ {n} : inbox'[m] = inbox[m] /\ held'[m] = held[m]
      /\ inbox'[n] = None
      /\ held'[n].secret = IF inbox[n].secret = None THEN held[n].secret ELSE inbox[n].secret
  BY DEF Receive, server, Exchanges, TokensInv, TypeOK, Answers
<1>2. DOMAIN rows \subseteq Nodes BY DEF Exchanges, TokensInv, TypeOK
<1>3. Carried' BY <1>1 DEF SecretInv, Carried, Carries, First
<1>4. InboxIsNewest' BY <1>1, <1>2 DEF SecretInv, InboxIsNewest, Carries
<1>5. SecretIsReachable'
  <2> SUFFICES ASSUME NEW m \in DOMAIN rows
               PROVE  \/ rows[m].secret \in {None, held'[m].secret} \cup unseen
                      \/ inbox'[m] # None /\ inbox'[m].secret = rows[m].secret
                      \/ handler # Idle /\ handler.node = m /\ handler.answer.secret = rows[m].secret
    BY <1>1 DEF SecretIsReachable
  <2>1. CASE m = n /\ inbox[n].secret # None
    BY <1>1, <1>2, <2>1 DEF SecretInv, InboxIsNewest, Carries
  <2>2. CASE m # n \/ inbox[n].secret = None
    BY <1>1, <1>2, <2>2 DEF SecretInv, SecretIsReachable
  <2> QED BY <2>1, <2>2
<1> QED BY <1>3, <1>4, <1>5 DEF SecretInv

LEMMA TimeoutSecrets ==
  ASSUME Exchanges, SecretInv, NEW n \in Nodes, Timeout(n) PROVE SecretInv'
<1>1. /\ UNCHANGED <<rows, held>> /\ unseen \subseteq unseen'
      /\ \A m \in Nodes \ {n} : inbox'[m] = inbox[m]
      /\ inbox'[n] = None /\ (inbox[n] # None => inbox[n].secret \in unseen')
  BY DEF Timeout, Exchanges, TokensInv, TypeOK
<1>2. /\ handler' = Idle <=> handler = Idle
      /\ handler # Idle => /\ handler'.op = handler.op /\ handler'.node = handler.node
                           /\ handler'.todo = handler.todo /\ handler'.answer = handler.answer
  BY DEF Timeout, Exchanges, TokensInv, TypeOK, Handler, Idle
<1>3. DOMAIN rows \subseteq Nodes BY DEF Exchanges, TokensInv, TypeOK
<1>4. Carried' BY <1>1, <1>2 DEF SecretInv, Carried, Carries, First
<1>5. InboxIsNewest' BY <1>1, <1>2, <1>3 DEF SecretInv, InboxIsNewest, Carries
<1>6. SecretIsReachable' BY <1>1, <1>2, <1>3 DEF SecretInv, SecretIsReachable
<1> QED BY <1>4, <1>5, <1>6 DEF SecretInv

\* The administrator, time, the maintenance thread and new requests leave
\* the secrets where they are.
LEMMA WorldSecrets ==
  ASSUME Exchanges, SecretInv, handler' = handler, UNCHANGED <<inbox, held, unseen>>, RowsKept
  PROVE  SecretInv'
BY QuietSecrets DEF SecretInv, Carried, First

LEMMA SecretStep == Exchanges /\ SecretInv /\ [Next]_vars => SecretInv'
<1> SUFFICES ASSUME Exchanges, SecretInv, [Next]_vars PROVE SecretInv'
  OBVIOUS
<1>1. ASSUME NEW n \in Nodes, Approve(n) \/ IssueToken(n) PROVE SecretInv'
  BY <1>1, BeginSecrets DEF Approve, IssueToken, client, Operations
<1>2. ASSUME NEW n \in Nodes, ExpireSecret(n) \/ MarkOffline(n) \/ Heartbeat(n) PROVE SecretInv'
  <2>1. /\ UNCHANGED <<handler, inbox, held, unseen>> /\ DOMAIN rows' = DOMAIN rows
        /\ \A m \in DOMAIN rows : \/ rows'[m] = rows[m]
                                 \/ rows'[m] = [rows[m] EXCEPT !.expired = TRUE]
                                 \/ \E status : rows'[m] = [rows[m] EXCEPT !.status = status]
    BY <1>2 DEF ExpireSecret, MarkOffline, Heartbeat, SetStatus, client
  <2>2. \A m \in DOMAIN rows : rows[m] \in Row BY DEF Exchanges, TokensInv, TypeOK
  <2>3. RowsKept BY <2>1, <2>2 DEF RowsKept, Row
  <2> QED BY <2>1, <2>3, WorldSecrets
<1>3. ASSUME NEW n \in Nodes,
             \/ DeleteNode(n) \/ SendRegister(n) \/ SendRefresh(n)
             \/ SendRecovery(n, None) \/ SendRecovery(n, held[n].token)
      PROVE  SecretInv'
  <2>1. UNCHANGED <<handler, inbox, held, unseen>> /\ RowsKept
    BY <1>3 DEF DeleteNode, SendRegister, SendRefresh, SendRecovery, Send, server, client, RowsKept
  <2> QED BY <2>1, WorldSecrets
<1>4. CASE ExpireToken \/ PurgeExpiredTokens \/ UNCHANGED vars
  <2>1. UNCHANGED <<handler, inbox, held, unseen>> /\ RowsKept
    BY <1>4 DEF ExpireToken, PurgeExpiredTokens, server, client, vars, RowsKept
  <2> QED BY <2>1, WorldSecrets
<1> QED
  BY <1>1, <1>2, <1>3, <1>4, TransactionSecrets, EndSecrets, RequestSecrets, ReceiveSecrets,
     TimeoutSecrets DEF Next, Server

\* The credential of last resort is never lost by the server itself.
THEOREM SecretsStayReachable == Spec => []SecretIsReachable
<1>1. Init => Exchanges /\ SecretInv
  BY InitTokens, ExchangeInit, SecretInit DEF Exchanges
<1>2. Exchanges /\ SecretInv /\ [Next]_vars => (Exchanges /\ SecretInv)'
  BY StepTokens, OwnStep, OneExchangeStep, SecretStep DEF Exchanges
<1>3. Exchanges /\ SecretInv => SecretIsReachable
  BY DEF SecretInv
<1> QED BY <1>1, <1>2, <1>3, PTL DEF Spec
=============================================================================
