------------------------------ MODULE PromptBroker ------------------------------
(***************************************************************************)
(* Asking the user for a secret (core/internal/server/network:             *)
(* subscription_broker.go, the agents that call it, and the sessions that  *)
(* show its prompts).                                                      *)
(*                                                                         *)
(* A network daemon asks for the secret of a network; each such call runs  *)
(* in a goroutine of its own, a request.  Ask gives the request a token,   *)
(* its own or that of a prompt which is already open under the same key,   *)
(* and Wait waits at the token's one-slot channel until a reply comes or   *)
(* the request's time is over.  Sessions answer a token; the daemon can    *)
(* cancel by key.  The broker's three maps are locked one access at a      *)
(* time, so requests, answers and cancellations interleave between them.   *)
(*                                                                         *)
(* The key is made of the connection's path and the setting's name: what   *)
(* it tells apart depends on the backend, which KeyOf says.  A token is    *)
(* named by the request that made it.                                      *)
(***************************************************************************)
EXTENDS Naturals

CONSTANTS
    Nets,         \* the networks secrets are asked for
    NoNet,        \* the network of a request that has not begun
    Keys,         \* the values of pathSettingKey
    KeyOf,        \* the key under which the backend asks for a network
    MaxRequests,  \* bound: requests made in a behaviour
    Sessions,     \* the connections that answer prompts
    Cancellers    \* the callers of CancelGetSecrets

ASSUME PromptAssumption ==
    /\ NoNet \notin Nets
    /\ KeyOf \in [Nets -> Keys]
    /\ MaxRequests \in Nat \ {0}

Requests == 1 .. MaxRequests
Resolvers == Sessions \cup Cancellers
NoToken == 0

VARIABLES
    net,         \* whose secret each request asks for
    at,          \* where each request is in Ask or Wait
    token,       \* the token Ask has given it
    result,      \* what Wait will return to it once it has cleaned up
    pending,     \* tokens in b.pending
    requests,    \* tokens in b.requests
    keyToken,    \* b.pathSettingToToken
    reply,       \* what each token's channel holds
    resolving,   \* where each caller is in Resolve or Cancel
    overlapped   \* history: requests that shared their key with another one

requestVars == <<net, at, token, result, overlapped>>
mapVars == <<pending, requests, keyToken>>
promptVars == <<requestVars, mapVars, reply, resolving>>

AtRest == [token |-> NoToken, answer |-> "none"]

PromptInit ==
    /\ net = [r \in Requests |-> NoNet] /\ at = [r \in Requests |-> "none"]
    /\ token = [r \in Requests |-> NoToken]
    /\ result = [r \in Requests |-> "none"]
    /\ pending = {} /\ requests = {} /\ keyToken = [k \in Keys |-> NoToken]
    /\ reply = [r \in Requests |-> "none"]
    /\ resolving = [c \in Resolvers |-> AtRest]
    /\ overlapped = {}

Alive(r) == at[r] \notin {"none", "returned"}

\* Mutation: the key is made of the setting's name alone.
KeyOfSetting(n) == CHOOSE k \in Keys : TRUE

Key(n) == KeyOf[n]

Move(r, from, to) == at[r] = from /\ at' = [at EXCEPT ![r] = to]

-----------------------------------------------------------------------------
(* Ask.                                                                    *)

\* A call for a secret gets as far as Ask.  Calls are numbered as they come.
AskBegin(r, n) ==
    /\ \A q \in Requests : q < r => at[q] # "none"
    /\ Move(r, "none", "looking")
    /\ net' = [net EXCEPT ![r] = n]
    /\ LET others == {q \in Requests : Alive(q) /\ Key(net[q]) = Key(n)}
       IN  overlapped' = overlapped \cup others \cup {q \in {r} : others # {}}
    /\ UNCHANGED <<token, result, mapVars, reply, resolving>>

\* The duplicate check.
AskLook(r) ==
    /\ LET open == keyToken[Key(net[r])]
       IN  /\ Move(r, "looking", IF open = NoToken THEN "storing" ELSE "entering")
           /\ token' = [token EXCEPT ![r] = open]
    /\ UNCHANGED <<net, result, overlapped, mapVars, reply, resolving>>

\* Mutation: the two arguments of the third store are the same.
AskStoreSwapped(r) ==
    /\ Move(r, "storing", "showing")
    /\ token' = [token EXCEPT ![r] = r]
    /\ pending' = pending \cup {r}
    /\ requests' = requests \cup {r}
    /\ keyToken' = [keyToken EXCEPT ![Key(net[r])] = Key(net[r])]
    /\ UNCHANGED <<net, result, overlapped, reply, resolving>>

\* Nobody knows the token before the key is stored, so the three stores are one step.
AskStore(r) ==
    /\ Move(r, "storing", "showing")
    /\ token' = [token EXCEPT ![r] = r]
    /\ pending' = pending \cup {r}
    /\ requests' = requests \cup {r}
    /\ keyToken' = [keyToken EXCEPT ![Key(net[r])] = r]
    /\ UNCHANGED <<net, result, overlapped, reply, resolving>>

\* The prompt goes to every session whose channel has room.
AskShow(r) ==
    /\ Move(r, "showing", "entering")
    /\ UNCHANGED <<net, token, result, overlapped, mapVars, reply, resolving>>

Shown(t) == at[t] \notin {"none", "looking", "storing", "showing"}

-----------------------------------------------------------------------------
(* Wait and cleanup.                                                       *)

Return(r, outcome) == result' = [result EXCEPT ![r] = outcome]

\* An unknown token is an error; the call returns at once.
WaitEnter(r) ==
    /\ Move(r, "entering", IF token[r] \in pending THEN "waiting" ELSE "returned")
    /\ token' = [token EXCEPT ![r] = IF @ \in pending THEN @ ELSE NoToken]
    /\ UNCHANGED <<net, result, overlapped, mapVars, reply, resolving>>

\* The request's context has ended: its time may be over whenever it waits.
WaitTimeout(r) ==
    /\ Move(r, "waiting", "cleaning") /\ Return(r, "timeout")
    /\ UNCHANGED <<net, token, overlapped, mapVars, reply, resolving>>

WaitReply(r) ==
    /\ Move(r, "waiting", "cleaning")
    /\ reply[token[r]] # "none" /\ Return(r, reply[token[r]])
    /\ reply' = [reply EXCEPT ![token[r]] = "none"]
    /\ UNCHANGED <<net, token, overlapped, mapVars, resolving>>

CleanLook(r) ==
    /\ Move(r, "cleaning", IF token[r] \in requests THEN "unkeying" ELSE "forgetting")
    /\ UNCHANGED <<net, token, result, overlapped, mapVars, reply, resolving>>

\* Mutation: the entry of the key stays.
CleanKeyForgotten(r) ==
    /\ Move(r, "unkeying", "forgetting")
    /\ UNCHANGED <<net, token, result, overlapped, mapVars, reply, resolving>>

\* Mutation: every entry of the setting goes.
CleanKeyOfSetting(r) ==
    /\ Move(r, "unkeying", "forgetting")
    /\ keyToken' = [k \in Keys |-> NoToken]
    /\ UNCHANGED <<net, token, result, overlapped, pending, requests, reply, resolving>>

\* The key's entry goes, whichever token it holds by now.
CleanKey(r) ==
    /\ Move(r, "unkeying", "forgetting")
    /\ keyToken' = [keyToken EXCEPT ![Key(net[token[r]])] = NoToken]
    /\ UNCHANGED <<net, token, result, overlapped, pending, requests, reply, resolving>>

CleanForget(r) ==
    /\ Move(r, "forgetting", "returned")
    /\ pending' = pending \ {token[r]}
    /\ requests' = requests \ {token[r]}
    /\ Return(r, "none") /\ token' = [token EXCEPT ![r] = NoToken]
    /\ UNCHANGED <<net, overlapped, keyToken, reply, resolving>>

RequestStep(r) ==
    \/ AskLook(r) \/ AskStore(r) \/ AskShow(r)
    \/ WaitEnter(r) \/ WaitTimeout(r) \/ WaitReply(r)
    \/ CleanLook(r) \/ CleanKey(r) \/ CleanForget(r)

-----------------------------------------------------------------------------
(* Resolve, by a session that submits or cancels, and Cancel.              *)

Resolve(c, t, a) ==
    /\ resolving[c].answer = "none"
    /\ t \in pending
    /\ resolving' = [resolving EXCEPT ![c] = [token |-> t, answer |-> a]]
    /\ UNCHANGED <<requestVars, mapVars, reply>>

\* Resolve of a token that is not pending is an error and changes nothing.
ResolveLoad(s, t, a) == Shown(t) /\ Resolve(s, t, a)

\* Neither does Cancel of a key without a prompt.  What the key holds is pending unless it
\* has just been cleaned up, so that finding the token and its channel is one step.
CancelFind(c, n) ==
    /\ \E r \in Requests : Alive(r) /\ net[r] = n
    /\ keyToken[Key(n)] # NoToken
    /\ Resolve(c, keyToken[Key(n)], "cancelled")

\* A full channel makes Resolve fail.
ResolveSend(c) ==
    /\ resolving[c].answer # "none"
    /\ LET t == resolving[c].token
       IN  reply' = IF reply[t] = "none" THEN [reply EXCEPT ![t] = resolving[c].answer] ELSE reply
    /\ resolving' = [resolving EXCEPT ![c] = AtRest]
    /\ UNCHANGED <<requestVars, mapVars>>

-----------------------------------------------------------------------------
PromptNext ==
    \/ \E r \in Requests : RequestStep(r) \/ \E n \in Nets : AskBegin(r, n)
    \/ \E s \in Sessions, t \in Requests, a \in {"secret", "cancelled"} : ResolveLoad(s, t, a)
    \/ \E c \in Cancellers, n \in Nets : CancelFind(c, n)
    \/ \E c \in Resolvers : ResolveSend(c)

PromptSpec == PromptInit /\ [][PromptNext]_promptVars

-----------------------------------------------------------------------------
\* The variables range over what the program can hold.
PromptTypeOK ==
    /\ net \in [Requests -> Nets \cup {NoNet}]
    /\ at \in [Requests -> {"none", "looking", "storing", "showing", "entering", "waiting",
                            "cleaning", "unkeying", "forgetting", "returned"}]
    /\ token \in [Requests -> Requests \cup {NoToken}]
    /\ overlapped \subseteq Requests
    /\ result \in [Requests -> {"none", "secret", "cancelled", "timeout"}]
    /\ pending \subseteq Requests /\ requests \subseteq Requests
    /\ keyToken \in [Keys -> Requests \cup {NoToken}]
    /\ reply \in [Requests -> {"none", "secret", "cancelled"}]
    /\ resolving \in [Resolvers -> [token : Requests \cup {NoToken},
                                    answer : {"none", "secret", "cancelled"}]]

\* "ssid: Network requesting credentials": the secret a request returns was given to a
\* prompt that named its network, although requests may share a prompt.
AnswerIsForItsNetwork == \A r \in Requests : result[r] = "secret" => net[token[r]] = net[r]

\* Once no request is under way the broker's maps are empty: whichever requests shared a
\* token or overtook each other, the cleanups left no prompt behind.
NothingLeftBehind ==
    (\A r \in Requests : ~Alive(r)) =>
        pending = {} /\ requests = {} /\ \A k \in Keys : keyToken[k] = NoToken

\* A request that had its key for itself can, while it waits, be answered by its token
\* and be cancelled by its key: no cleanup of an earlier request has taken an entry away.
AloneIsReachable ==
    \A r \in Requests :
        at[r] = "waiting" /\ r \notin overlapped =>
            token[r] = r /\ r \in pending /\ keyToken[Key(net[r])] = r

=============================================================================
