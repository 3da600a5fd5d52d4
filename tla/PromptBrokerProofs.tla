--------------------------- MODULE PromptBrokerProofs ---------------------------
(***************************************************************************)
(* Proofs about PromptBroker, for any number of requests, sessions and     *)
(* networks.  Each entry of the broker's maps has an owner: a request that *)
(* is under way and will clean it up.                                      *)
(***************************************************************************)
EXTENDS PromptBroker, TLAPS

\* Two networks are never asked for under one key, as with connection paths.
KeysTellApart == \A m, n \in Nets : KeyOf[m] = KeyOf[n] => m = n

MapsAgree == pending = requests

EntryOwned == \A t \in requests : \E r \in Requests : token[r] = t

KeyEntryPending ==
    \A k \in Keys : keyToken[k] # NoToken =>
        keyToken[k] \in requests /\ Key(net[keyToken[k]]) = k

ForgetsUnkeyed ==
    \A r \in Requests : at[r] = "forgetting" => keyToken[Key(net[token[r]])] # token[r]

HasToken == {"showing", "entering", "waiting", "cleaning", "unkeying", "forgetting"}

TokenStored ==
    \A r \in Requests :
        /\ at[r] \in HasToken <=> token[r] # NoToken
        /\ token[r] # NoToken => at[token[r]] \in HasToken \cup {"returned"}
        /\ at[r] # "none" => net[r] \in Nets

SharersAgree == \A r \in Requests : token[r] # NoToken => Key(net[r]) = Key(net[token[r]])

OverlapKnown ==
    \A r, q \in Requests :
        r # q /\ Alive(r) /\ Alive(q) /\ Key(net[r]) = Key(net[q]) => r \in overlapped

AloneIsKeyed ==
    \A r \in Requests :
        at[r] \in {"showing", "entering", "waiting"} /\ r \notin overlapped =>
            token[r] = r /\ r \in pending /\ keyToken[Key(net[r])] = r

NoResultYet ==
    \A r \in Requests : result[r] # "none" => at[r] \in {"cleaning", "unkeying", "forgetting"}

BrokerInv ==
    /\ PromptTypeOK
    /\ MapsAgree /\ EntryOwned /\ KeyEntryPending /\ ForgetsUnkeyed /\ TokenStored
    /\ SharersAgree /\ OverlapKnown /\ AloneIsKeyed /\ NoResultYet

-----------------------------------------------------------------------------
LEMMA RequestFacts == NoToken \notin Requests /\ Requests \subseteq Nat
  BY PromptAssumption DEF Requests, NoToken

\* The initial state satisfies the invariant.
LEMMA BrokerInit == PromptInit => BrokerInv
  <1> SUFFICES ASSUME PromptInit PROVE BrokerInv
    OBVIOUS
  <1> USE RequestFacts DEF PromptInit
  <1>1. PromptTypeOK
    BY DEF PromptTypeOK, AtRest
  <1>2. MapsAgree /\ EntryOwned /\ KeyEntryPending /\ ForgetsUnkeyed
    BY DEF MapsAgree, EntryOwned, KeyEntryPending, ForgetsUnkeyed
  <1>3. TokenStored /\ SharersAgree /\ NoResultYet
    BY DEF TokenStored, HasToken, SharersAgree, NoResultYet
  <1>4. OverlapKnown /\ AloneIsKeyed
    BY DEF OverlapKnown, Alive, AloneIsKeyed
  <1>5. QED
    BY <1>1, <1>2, <1>3, <1>4 DEF BrokerInv

\* What has the token of a request is stored under that request's key.
LEMMA KeyDefined ==
  ASSUME BrokerInv, NEW r \in Requests, token[r] # NoToken
  PROVE  /\ token[r] \in Requests /\ net[r] \in Nets /\ net[token[r]] \in Nets
         /\ Key(net[r]) \in Keys /\ Key(net[token[r]]) = Key(net[r])
  <1>1. token[r] \in Requests /\ at[r] \in HasToken /\ at[token[r]] \in HasToken \cup {"returned"}
    BY DEF BrokerInv, PromptTypeOK, TokenStored
  <1>2. at[r] # "none" /\ at[token[r]] # "none"
    BY <1>1 DEF HasToken
  <1>3. net[r] \in Nets /\ net[token[r]] \in Nets
    BY <1>1, <1>2 DEF BrokerInv, TokenStored
  <1>4. QED
    BY <1>1, <1>3, PromptAssumption DEF BrokerInv, SharersAgree, Key

\* A request that is about to look for a prompt finds one only if its key is shared.
LEMMA AloneFindsNothing ==
  ASSUME BrokerInv, NEW r \in Requests, at[r] = "looking", keyToken[Key(net[r])] # NoToken
  PROVE  r \in overlapped
  <1>1. net[r] \in Nets /\ Key(net[r]) \in Keys
    BY PromptAssumption DEF BrokerInv, TokenStored, Key
  <1> DEFINE t == keyToken[Key(net[r])]
  <1>2. t \in requests /\ Key(net[t]) = Key(net[r])
    BY <1>1 DEF BrokerInv, KeyEntryPending
  <1>3. PICK q \in Requests : token[q] = t
    BY <1>2 DEF BrokerInv, EntryOwned
  <1>4. Key(net[q]) = Key(net[r]) /\ at[q] \in HasToken
    BY <1>2, <1>3, KeyDefined DEF BrokerInv, TokenStored
  <1>5. q # r /\ Alive(q) /\ Alive(r)
    BY <1>4 DEF HasToken, Alive
  <1>6. QED
    BY <1>4, <1>5 DEF BrokerInv, OverlapKnown

-----------------------------------------------------------------------------
(* One lemma per action, or per group of actions that disturb the same     *)
(* parts of the invariant.                                                 *)

LEMMA BeginKeeps ==
  ASSUME BrokerInv, NEW r \in Requests, NEW n \in Nets, AskBegin(r, n)
  PROVE  BrokerInv'
  <1> USE RequestFacts
  <1> DEFINE others == {q \in Requests : Alive(q) /\ Key(net[q]) = Key(n)}
  <1>0. /\ at[r] = "none" /\ at' = [at EXCEPT ![r] = "looking"] /\ net' = [net EXCEPT ![r] = n]
        /\ overlapped' = overlapped \cup others \cup {q \in {r} : others # {}}
        /\ UNCHANGED <<token, result, pending, requests, keyToken, reply, resolving>>
    BY DEF AskBegin, Move, mapVars
  <1>1. PromptTypeOK'
    BY <1>0 DEF BrokerInv, PromptTypeOK
  <1>2. token[r] = NoToken /\ \A q \in Requests : token[q] # r
    BY <1>0 DEF BrokerInv, TokenStored, HasToken
  <1>3. \A q \in Requests \ {r} : net'[q] = net[q] /\ at'[q] = at[q]
    BY <1>0 DEF BrokerInv, PromptTypeOK
  <1>4. at'[r] = "looking" /\ net'[r] = n
    BY <1>0 DEF BrokerInv, PromptTypeOK
  <1>5. MapsAgree' /\ EntryOwned'
    BY <1>0 DEF BrokerInv, MapsAgree, EntryOwned
  <1>6. r \notin requests
    BY <1>2 DEF BrokerInv, EntryOwned
  <1>7. KeyEntryPending'
    BY <1>0, <1>3, <1>6 DEF BrokerInv, PromptTypeOK, KeyEntryPending, Key
  <1>8. TokenStored'
    BY <1>0, <1>2, <1>3, <1>4 DEF BrokerInv, PromptTypeOK, TokenStored, HasToken
  <1>9. ForgetsUnkeyed'
    <2> SUFFICES ASSUME NEW q \in Requests, at'[q] = "forgetting"
                 PROVE  keyToken'[Key(net'[token'[q]])] # token'[q]
      BY DEF ForgetsUnkeyed, Key
    <2>1. q # r /\ at[q] = "forgetting" /\ token[q] # NoToken /\ token[q] # r /\ token[q] \in Requests
      BY <1>2, <1>3, <1>4 DEF BrokerInv, TokenStored, HasToken, PromptTypeOK
    <2>2. QED
      BY <1>0, <1>3, <2>1 DEF BrokerInv, ForgetsUnkeyed
  <1>10. SharersAgree'
    <2> SUFFICES ASSUME NEW q \in Requests, token'[q] # NoToken
                 PROVE  Key(net'[q]) = Key(net'[token'[q]])
      BY DEF SharersAgree, Key
    <2>1. q # r /\ token[q] # r /\ token[q] \in Requests
      BY <1>0, <1>2 DEF BrokerInv, PromptTypeOK
    <2>2. QED
      BY <1>0, <1>3, <2>1 DEF BrokerInv, SharersAgree
  <1>11. OverlapKnown'
    <2> SUFFICES ASSUME NEW p \in Requests, NEW q \in Requests, p # q,
                        Alive(p)', Alive(q)', Key(net'[p]) = Key(net'[q])
                 PROVE  p \in overlapped'
      BY DEF OverlapKnown, Key
    <2>1. CASE p # r /\ q # r
      BY <1>0, <1>3, <2>1 DEF BrokerInv, OverlapKnown, Alive
    <2>2. CASE p = r
      BY <1>0, <1>3, <1>4, <2>2 DEF Alive
    <2>3. CASE q = r
      BY <1>0, <1>3, <1>4, <2>3 DEF Alive
    <2>4. QED
      BY <2>1, <2>2, <2>3
  <1>12. AloneIsKeyed'
    <2> SUFFICES ASSUME NEW q \in Requests, at'[q] \in {"showing", "entering", "waiting"},
                        q \notin overlapped'
                 PROVE  token'[q] = q /\ q \in pending' /\ keyToken'[Key(net'[q])] = q
      BY DEF AloneIsKeyed, Key
    <2>1. q # r /\ q \notin overlapped
      BY <1>0, <1>4
    <2>2. QED
      BY <1>0, <1>3, <2>1 DEF BrokerInv, AloneIsKeyed
  <1>13. NoResultYet'
    BY <1>0, <1>3 DEF BrokerInv, NoResultYet
  <1>14. QED
    BY <1>1, <1>5, <1>7, <1>8, <1>9, <1>10, <1>11, <1>12, <1>13 DEF BrokerInv

LEMMA LookKeeps ==
  ASSUME BrokerInv, NEW r \in Requests, AskLook(r)
  PROVE  BrokerInv'
  <1> USE RequestFacts
  <1> DEFINE t == keyToken[Key(net[r])]
  <1>0. /\ at[r] = "looking"
        /\ at' = [at EXCEPT ![r] = IF t = NoToken THEN "storing" ELSE "entering"]
        /\ token' = [token EXCEPT ![r] = t]
        /\ UNCHANGED <<net, result, overlapped, pending, requests, keyToken, reply, resolving>>
    BY DEF AskLook, Move, mapVars
  <1>1. net[r] \in Nets /\ Key(net[r]) \in Keys /\ token[r] = NoToken
    BY <1>0, PromptAssumption DEF BrokerInv, TokenStored, Key, HasToken
  <1>2. t \in Requests \cup {NoToken}
    BY <1>1 DEF BrokerInv, PromptTypeOK
  <1>3. PromptTypeOK'
    BY <1>0, <1>2 DEF BrokerInv, PromptTypeOK
  <1>4. \A q \in Requests \ {r} : at'[q] = at[q] /\ token'[q] = token[q]
    BY <1>0 DEF BrokerInv, PromptTypeOK
  <1>5. token'[r] = t /\ at'[r] = (IF t = NoToken THEN "storing" ELSE "entering")
    BY <1>0 DEF BrokerInv, PromptTypeOK
  <1>6. MapsAgree' /\ KeyEntryPending'
    BY <1>0 DEF BrokerInv, MapsAgree, KeyEntryPending, Key
  <1>7. EntryOwned'
    <2> SUFFICES ASSUME NEW u \in requests PROVE \E q \in Requests : token'[q] = u
      BY <1>0 DEF EntryOwned
    <2>1. u # NoToken /\ \E q \in Requests : token[q] = u
      BY DEF BrokerInv, EntryOwned, PromptTypeOK
    <2>2. QED
      BY <1>1, <1>4, <2>1
  <1>8. t # NoToken => t \in requests /\ Key(net[t]) = Key(net[r])
    BY <1>1 DEF BrokerInv, KeyEntryPending
  <1>9. t # NoToken => \E q \in Requests \ {r} : token[q] = t
    BY <1>1, <1>8 DEF BrokerInv, EntryOwned
  <1>10. t # NoToken => at[t] \in HasToken \cup {"returned"}
    BY <1>2, <1>9 DEF BrokerInv, TokenStored
  <1>11. TokenStored'
    BY <1>0, <1>2, <1>4, <1>5, <1>10 DEF BrokerInv, PromptTypeOK, TokenStored, HasToken
  <1>12. SharersAgree'
    BY <1>0, <1>4, <1>5, <1>8 DEF BrokerInv, SharersAgree, Key
  <1>13. ForgetsUnkeyed'
    <2> SUFFICES ASSUME NEW q \in Requests, at'[q] = "forgetting"
                 PROVE  keyToken[Key(net[token'[q]])] # token'[q]
      BY <1>0 DEF ForgetsUnkeyed, Key
    <2>1. q # r
      BY <1>5
    <2>2. QED
      BY <1>4, <2>1 DEF BrokerInv, ForgetsUnkeyed
  <1>14. OverlapKnown'
    BY <1>0, <1>4, <1>5 DEF BrokerInv, OverlapKnown, Alive, Key
  <1>15. AloneIsKeyed'
    BY <1>0, <1>4, <1>5, AloneFindsNothing DEF BrokerInv, AloneIsKeyed, Key
  <1>16. NoResultYet'
    BY <1>0, <1>4 DEF BrokerInv, NoResultYet
  <1>17. QED
    BY <1>3, <1>6, <1>7, <1>11, <1>12, <1>13, <1>14, <1>15, <1>16 DEF BrokerInv

LEMMA StoreKeeps ==
  ASSUME BrokerInv, NEW r \in Requests, AskStore(r)
  PROVE  BrokerInv'
  <1> USE RequestFacts
  <1>0. /\ at[r] = "storing" /\ at' = [at EXCEPT ![r] = "showing"]
        /\ token' = [token EXCEPT ![r] = r]
        /\ pending' = pending \cup {r} /\ requests' = requests \cup {r}
        /\ keyToken' = [keyToken EXCEPT ![Key(net[r])] = r]
        /\ UNCHANGED <<net, result, overlapped, reply, resolving>>
    BY DEF AskStore, Move
  <1>1. net[r] \in Nets /\ Key(net[r]) \in Keys /\ token[r] = NoToken
    BY <1>0, PromptAssumption DEF BrokerInv, TokenStored, Key, HasToken
  <1>2. PromptTypeOK'
    BY <1>0 DEF BrokerInv, PromptTypeOK
  <1>3. \A q \in Requests \ {r} : at'[q] = at[q] /\ token'[q] = token[q] /\ token[q] # r
    BY <1>0 DEF BrokerInv, PromptTypeOK, TokenStored, HasToken
  <1>4. token'[r] = r /\ at'[r] = "showing"
    BY <1>0 DEF BrokerInv, PromptTypeOK
  <1>5. /\ keyToken'[Key(net[r])] = r
        /\ \A k \in Keys : k # Key(net[r]) => keyToken'[k] = keyToken[k]
    BY <1>0, <1>1 DEF BrokerInv, PromptTypeOK
  <1>6. MapsAgree' /\ KeyEntryPending'
    BY <1>0, <1>5 DEF BrokerInv, MapsAgree, KeyEntryPending, Key
  <1>7. EntryOwned'
    <2> SUFFICES ASSUME NEW u \in requests' PROVE \E q \in Requests : token'[q] = u
      BY DEF EntryOwned
    <2>1. CASE u = r
      BY <1>4, <2>1
    <2>2. CASE u # r
      <3>1. u # NoToken /\ \E q \in Requests : token[q] = u
        BY <1>0, <2>2 DEF BrokerInv, EntryOwned, PromptTypeOK
      <3>2. QED
        BY <1>1, <1>3, <3>1
    <2>3. QED
      BY <2>1, <2>2
  <1>8. TokenStored'
    BY <1>0, <1>3, <1>4 DEF BrokerInv, PromptTypeOK, TokenStored, HasToken
  <1>9. SharersAgree'
    BY <1>0, <1>3, <1>4 DEF BrokerInv, SharersAgree, Key
  <1>10. ForgetsUnkeyed'
    <2> SUFFICES ASSUME NEW q \in Requests, at'[q] = "forgetting"
                 PROVE  keyToken'[Key(net[token'[q]])] # token'[q]
      BY <1>0 DEF ForgetsUnkeyed, Key
    <2>1. q # r /\ at[q] = "forgetting" /\ token'[q] = token[q] /\ token[q] # r
      BY <1>3, <1>4
    <2>2. token[q] # NoToken
      BY <2>1 DEF BrokerInv, TokenStored, HasToken
    <2>3. Key(net[token[q]]) \in Keys
      BY <2>2, KeyDefined
    <2>4. QED
      BY <1>5, <2>1, <2>3 DEF BrokerInv, ForgetsUnkeyed
  <1>11. OverlapKnown'
    BY <1>0, <1>3, <1>4 DEF BrokerInv, OverlapKnown, Alive, Key
  <1>12. AloneIsKeyed'
    <2> SUFFICES ASSUME NEW q \in Requests, at'[q] \in {"showing", "entering", "waiting"},
                        q \notin overlapped
                 PROVE  token'[q] = q /\ q \in pending' /\ keyToken'[Key(net[q])] = q
      BY <1>0 DEF AloneIsKeyed, Key
    <2>1. CASE q = r
      BY <1>0, <1>4, <1>5, <2>1
    <2>2. CASE q # r
      <3>1. Alive(q) /\ Alive(r) /\ at[q] = at'[q]
        BY <1>0, <1>3, <2>2 DEF Alive
      <3>2. Key(net[q]) # Key(net[r])
        BY <2>2, <3>1 DEF BrokerInv, OverlapKnown
      <3>3. net[q] \in Nets /\ Key(net[q]) \in Keys
        BY <3>1, PromptAssumption DEF BrokerInv, TokenStored, Key, Alive
      <3>4. QED
        BY <1>0, <1>3, <1>5, <2>2, <3>1, <3>2, <3>3 DEF BrokerInv, AloneIsKeyed
    <2>3. QED
      BY <2>1, <2>2
  <1>13. NoResultYet'
    BY <1>0, <1>3, <1>4 DEF BrokerInv, NoResultYet
  <1>14. QED
    BY <1>2, <1>6, <1>7, <1>8, <1>9, <1>10, <1>11, <1>12, <1>13 DEF BrokerInv

\* Showing a prompt, receiving or timing out, and looking for the request touch no map.
LEMMA WaitKeeps ==
  ASSUME BrokerInv, NEW r \in Requests,
         AskShow(r) \/ WaitTimeout(r) \/ WaitReply(r) \/ CleanLook(r)
  PROVE  BrokerInv'
  <1> USE RequestFacts
  <1>1. /\ at[r] \in HasToken /\ at' = [at EXCEPT ![r] = at'[r]]
        /\ at'[r] \in HasToken \ {"showing", "waiting"}
        /\ at'[r] = "entering" => at[r] = "showing"
        /\ at'[r] = "forgetting" => token[r] \notin requests
    BY DEF BrokerInv, PromptTypeOK, AskShow, WaitTimeout, WaitReply, CleanLook, Move, HasToken
  <1>2. UNCHANGED <<net, token, overlapped, pending, requests, keyToken, resolving>>
    BY DEF AskShow, WaitTimeout, WaitReply, CleanLook, mapVars
  <1>3. token[r] # NoToken /\ token[r] \in Requests
    BY <1>1 DEF BrokerInv, TokenStored, PromptTypeOK
  <1>4. PromptTypeOK'
    <2>1. CASE AskShow(r) \/ CleanLook(r)
      BY <2>1 DEF BrokerInv, PromptTypeOK, AskShow, CleanLook, Move, mapVars
    <2>2. CASE WaitTimeout(r)
      BY <2>2 DEF BrokerInv, PromptTypeOK, WaitTimeout, Move, mapVars, Return
    <2>3. CASE WaitReply(r)
      <3>1. reply[token[r]] \in {"secret", "cancelled"}
        BY <1>3, <2>3 DEF BrokerInv, PromptTypeOK, WaitReply
      <3>2. QED
        BY <1>3, <2>3, <3>1 DEF BrokerInv, PromptTypeOK, WaitReply, Move, mapVars, Return
    <2>4. QED
      BY <2>1, <2>2, <2>3
  <1>5. \A q \in Requests \ {r} : at'[q] = at[q]
    BY <1>1 DEF BrokerInv, PromptTypeOK
  <1>6. MapsAgree' /\ EntryOwned' /\ KeyEntryPending' /\ SharersAgree'
    BY <1>2 DEF BrokerInv, MapsAgree, EntryOwned, KeyEntryPending, SharersAgree, Key
  <1>7. TokenStored'
    <2> SUFFICES ASSUME NEW q \in Requests
                 PROVE  /\ at'[q] \in HasToken <=> token[q] # NoToken
                        /\ token[q] # NoToken => at'[token[q]] \in HasToken \cup {"returned"}
                        /\ at'[q] # "none" => net[q] \in Nets
      BY <1>2 DEF TokenStored, HasToken
    <2>1. /\ at[q] \in HasToken <=> token[q] # NoToken
          /\ token[q] # NoToken => at[token[q]] \in HasToken \cup {"returned"}
          /\ at[q] # "none" => net[q] \in Nets
          /\ token[q] \in Requests \cup {NoToken}
      BY DEF BrokerInv, PromptTypeOK, TokenStored
    <2>2. at'[r] \in HasToken /\ at[r] # "none"
      BY <1>1 DEF HasToken
    <2>3. QED
      BY <1>1, <1>3, <1>5, <2>1, <2>2
  <1>8. ForgetsUnkeyed'
    <2> SUFFICES ASSUME NEW q \in Requests, at'[q] = "forgetting"
                 PROVE  keyToken[Key(net[token[q]])] # token[q]
      BY <1>2 DEF ForgetsUnkeyed, Key
    <2>1. CASE q # r
      BY <1>5, <2>1 DEF BrokerInv, ForgetsUnkeyed
    <2>2. CASE q = r
      BY <1>1, <1>3, <2>2, KeyDefined DEF BrokerInv, KeyEntryPending
    <2>3. QED
      BY <2>1, <2>2
  <1>9. OverlapKnown'
    BY <1>1, <1>2, <1>5 DEF BrokerInv, OverlapKnown, Alive, Key, HasToken
  <1>10. AloneIsKeyed'
    BY <1>1, <1>2, <1>5 DEF BrokerInv, AloneIsKeyed, Key, HasToken
  <1>11. NoResultYet'
    BY <1>5 DEF BrokerInv, PromptTypeOK, NoResultYet, AskShow, WaitTimeout, WaitReply,
                CleanLook, Return, Move
  <1>12. QED
    BY <1>4, <1>6, <1>7, <1>8, <1>9, <1>10, <1>11 DEF BrokerInv

LEMMA EnterKeeps ==
  ASSUME BrokerInv, NEW r \in Requests, WaitEnter(r)
  PROVE  BrokerInv'
  <1> USE RequestFacts
  <1>0. /\ at[r] = "entering"
        /\ at' = [at EXCEPT ![r] = IF token[r] \in pending THEN "waiting" ELSE "returned"]
        /\ token' = [token EXCEPT ![r] = IF token[r] \in pending THEN token[r] ELSE NoToken]
        /\ UNCHANGED <<net, result, overlapped, pending, requests, keyToken, reply, resolving>>
    BY DEF WaitEnter, Move, mapVars
  <1>1. token[r] # NoToken /\ token[r] \in Requests
    BY <1>0 DEF BrokerInv, TokenStored, PromptTypeOK, HasToken
  <1>2. PromptTypeOK'
    BY <1>0, <1>1 DEF BrokerInv, PromptTypeOK
  <1>3. \A q \in Requests \ {r} : at'[q] = at[q] /\ token'[q] = token[q]
    BY <1>0 DEF BrokerInv, PromptTypeOK
  <1>4. \/ token[r] \in pending /\ at'[r] = "waiting" /\ token'[r] = token[r]
        \/ token[r] \notin pending /\ at'[r] = "returned" /\ token'[r] = NoToken
    BY <1>0 DEF BrokerInv, PromptTypeOK
  <1>5. MapsAgree' /\ KeyEntryPending'
    BY <1>0 DEF BrokerInv, MapsAgree, KeyEntryPending, Key
  <1>6. EntryOwned'
    <2> SUFFICES ASSUME NEW u \in requests PROVE \E q \in Requests : token'[q] = u
      BY <1>0 DEF EntryOwned
    <2>1. PICK q \in Requests : token[q] = u
      BY DEF BrokerInv, EntryOwned
    <2>2. QED
      BY <1>3, <1>4, <2>1 DEF BrokerInv, MapsAgree
  <1>7. TokenStored'
    BY <1>0, <1>1, <1>3, <1>4 DEF BrokerInv, PromptTypeOK, TokenStored, HasToken
  <1>8. SharersAgree'
    BY <1>0, <1>3, <1>4 DEF BrokerInv, SharersAgree, Key
  <1>9. ForgetsUnkeyed'
    BY <1>0, <1>3, <1>4 DEF BrokerInv, ForgetsUnkeyed, Key
  <1>10. OverlapKnown'
    BY <1>0, <1>3, <1>4 DEF BrokerInv, OverlapKnown, Alive, Key
  <1>11. AloneIsKeyed'
    BY <1>0, <1>3, <1>4 DEF BrokerInv, AloneIsKeyed, Key
  <1>12. NoResultYet'
    BY <1>0, <1>3 DEF BrokerInv, NoResultYet
  <1>13. QED
    BY <1>2, <1>5, <1>6, <1>7, <1>8, <1>9, <1>10, <1>11, <1>12 DEF BrokerInv

\* The entry that goes is that of the request's own key, which no other alone request has.
LEMMA CleanKeyKeeps ==
  ASSUME BrokerInv, NEW r \in Requests, CleanKey(r)
  PROVE  BrokerInv'
  <1> USE RequestFacts
  <1> DEFINE k == Key(net[token[r]])
  <1>0. /\ at[r] = "unkeying" /\ at' = [at EXCEPT ![r] = "forgetting"]
        /\ keyToken' = [keyToken EXCEPT ![k] = NoToken]
        /\ UNCHANGED <<net, token, result, overlapped, pending, requests, reply, resolving>>
    BY DEF CleanKey, Move
  <1>1. token[r] # NoToken /\ k \in Keys /\ k = Key(net[r])
    BY <1>0, KeyDefined DEF BrokerInv, TokenStored, HasToken
  <1>2. PromptTypeOK'
    BY <1>0 DEF BrokerInv, PromptTypeOK
  <1>3. at'[r] = "forgetting" /\ \A q \in Requests \ {r} : at'[q] = at[q]
    BY <1>0 DEF BrokerInv, PromptTypeOK
  <1>4. keyToken'[k] = NoToken /\ \A j \in Keys : j # k => keyToken'[j] = keyToken[j]
    BY <1>0, <1>1 DEF BrokerInv, PromptTypeOK
  <1>5. MapsAgree' /\ EntryOwned' /\ SharersAgree'
    BY <1>0 DEF BrokerInv, MapsAgree, EntryOwned, SharersAgree, Key
  <1>6. KeyEntryPending'
    BY <1>0, <1>4 DEF BrokerInv, KeyEntryPending, Key
  <1>7. TokenStored'
    BY <1>0, <1>3 DEF BrokerInv, PromptTypeOK, TokenStored, HasToken
  <1>8. ForgetsUnkeyed'
    <2> SUFFICES ASSUME NEW q \in Requests, at'[q] = "forgetting"
                 PROVE  keyToken'[Key(net[token[q]])] # token[q]
      BY <1>0 DEF ForgetsUnkeyed, Key
    <2>1. token[q] # NoToken
      BY <1>1, <1>3 DEF BrokerInv, TokenStored, HasToken
    <2>2. Key(net[token[q]]) \in Keys
      BY <2>1, KeyDefined
    <2>3. q # r => at[q] = "forgetting"
      BY <1>3
    <2>4. QED
      BY <1>4, <2>1, <2>2, <2>3 DEF BrokerInv, ForgetsUnkeyed
  <1>9. OverlapKnown'
    BY <1>0, <1>3 DEF BrokerInv, OverlapKnown, Alive, Key
  <1>10. AloneIsKeyed'
    <2> SUFFICES ASSUME NEW q \in Requests, at'[q] \in {"showing", "entering", "waiting"},
                        q \notin overlapped
                 PROVE  token[q] = q /\ q \in pending /\ keyToken'[Key(net[q])] = q
      BY <1>0 DEF AloneIsKeyed, Key
    <2>1. q # r /\ at[q] = at'[q] /\ Alive(q) /\ Alive(r)
      BY <1>0, <1>3 DEF Alive
    <2>2. Key(net[q]) # k
      BY <1>1, <2>1 DEF BrokerInv, OverlapKnown
    <2>3. net[q] \in Nets /\ Key(net[q]) \in Keys
      BY <2>1, PromptAssumption DEF BrokerInv, TokenStored, Key, Alive
    <2>4. QED
      BY <1>4, <2>1, <2>2, <2>3 DEF BrokerInv, AloneIsKeyed
  <1>11. NoResultYet'
    BY <1>0, <1>3 DEF BrokerInv, NoResultYet
  <1>12. QED
    BY <1>2, <1>5, <1>6, <1>7, <1>8, <1>9, <1>10, <1>11 DEF BrokerInv

\* The token that goes is under no key any more, and is not that of an alone request.
LEMMA CleanForgetKeeps ==
  ASSUME BrokerInv, NEW r \in Requests, CleanForget(r)
  PROVE  BrokerInv'
  <1> USE RequestFacts
  <1> DEFINE t == token[r]
  <1>0. /\ at[r] = "forgetting" /\ at' = [at EXCEPT ![r] = "returned"]
        /\ pending' = pending \ {t} /\ requests' = requests \ {t}
        /\ result' = [result EXCEPT ![r] = "none"] /\ token' = [token EXCEPT ![r] = NoToken]
        /\ UNCHANGED <<net, overlapped, keyToken, reply, resolving>>
    BY DEF CleanForget, Move, Return
  <1>1. t # NoToken /\ t \in Requests
    BY <1>0 DEF BrokerInv, TokenStored, HasToken, PromptTypeOK
  <1>2. PromptTypeOK'
    BY <1>0 DEF BrokerInv, PromptTypeOK
  <1>3. /\ at'[r] = "returned" /\ token'[r] = NoToken /\ result'[r] = "none"
        /\ \A q \in Requests \ {r} :
              at'[q] = at[q] /\ token'[q] = token[q] /\ result'[q] = result[q]
    BY <1>0 DEF BrokerInv, PromptTypeOK
  <1>4. MapsAgree'
    BY <1>0 DEF BrokerInv, MapsAgree
  <1>5. EntryOwned'
    <2> SUFFICES ASSUME NEW u \in requests \ {t} PROVE \E q \in Requests : token'[q] = u
      BY <1>0 DEF EntryOwned
    <2>1. PICK q \in Requests : token[q] = u
      BY DEF BrokerInv, EntryOwned
    <2>2. q # r
      BY <2>1
    <2>3. QED
      BY <1>3, <2>1, <2>2
  <1>6. KeyEntryPending'
    BY <1>0 DEF BrokerInv, KeyEntryPending, ForgetsUnkeyed, Key
  <1>7. TokenStored'
    BY <1>0, <1>3 DEF BrokerInv, PromptTypeOK, TokenStored, HasToken
  <1>8. SharersAgree' /\ ForgetsUnkeyed'
    BY <1>0, <1>3 DEF BrokerInv, SharersAgree, ForgetsUnkeyed, Key
  <1>9. OverlapKnown'
    BY <1>0, <1>3 DEF BrokerInv, OverlapKnown, Alive, Key
  <1>10. AloneIsKeyed'
    <2> SUFFICES ASSUME NEW q \in Requests, at'[q] \in {"showing", "entering", "waiting"},
                        q \notin overlapped
                 PROVE  token'[q] = q /\ q \in pending' /\ keyToken[Key(net[q])] = q
      BY <1>0 DEF AloneIsKeyed, Key
    <2>1. q # r /\ at[q] = at'[q] /\ Alive(q) /\ Alive(r)
      BY <1>0, <1>3 DEF Alive
    <2>2. token[q] = q /\ q \in pending /\ keyToken[Key(net[q])] = q
      BY <1>0, <2>1 DEF BrokerInv, AloneIsKeyed
    <2>3. Key(net[q]) # Key(net[r])
      BY <2>1 DEF BrokerInv, OverlapKnown
    <2>4. q # t
      BY <1>1, <2>3, KeyDefined
    <2>5. QED
      BY <1>0, <1>3, <2>1, <2>2, <2>4
  <1>11. NoResultYet'
    BY <1>0, <1>3 DEF BrokerInv, NoResultYet
  <1>12. QED
    BY <1>2, <1>4, <1>5, <1>6, <1>7, <1>8, <1>9, <1>10, <1>11 DEF BrokerInv

\* Those who answer or cancel touch neither the maps nor the requests.
LEMMA ResolverKeeps ==
  ASSUME BrokerInv, NEW c \in Resolvers,
         \/ ResolveSend(c)
         \/ \E t \in Requests, a \in {"secret", "cancelled"} : ResolveLoad(c, t, a)
         \/ \E n \in Nets : CancelFind(c, n)
  PROVE  BrokerInv'
  <1> USE RequestFacts
  <1>1. UNCHANGED <<net, at, token, result, overlapped, pending, requests, keyToken>>
    BY DEF ResolveSend, ResolveLoad, CancelFind, Resolve, requestVars, mapVars
  <1>2. PromptTypeOK'
    <2>1. CASE ResolveSend(c)
      BY <2>1, <1>1 DEF BrokerInv, PromptTypeOK, ResolveSend, AtRest
    <2>2. ASSUME NEW t \in Requests, NEW a \in {"secret", "cancelled"}, Resolve(c, t, a)
          PROVE  PromptTypeOK'
      BY <2>2, <1>1 DEF BrokerInv, PromptTypeOK, Resolve
    <2>3. ASSUME NEW t \in Requests, NEW a \in {"secret", "cancelled"}, ResolveLoad(c, t, a)
          PROVE  PromptTypeOK'
      BY <2>2, <2>3 DEF ResolveLoad
    <2>4. ASSUME NEW n \in Nets, CancelFind(c, n) PROVE PromptTypeOK'
      <3>1. keyToken[Key(n)] \in Requests
        BY <2>4, PromptAssumption DEF BrokerInv, PromptTypeOK, CancelFind, Key
      <3>2. QED
        BY <2>2, <2>4, <3>1 DEF CancelFind
    <2>5. QED
      BY <2>1, <2>3, <2>4
  <1>3. MapsAgree' /\ EntryOwned' /\ KeyEntryPending' /\ ForgetsUnkeyed' /\ TokenStored'
    BY <1>1 DEF BrokerInv, MapsAgree, EntryOwned, KeyEntryPending, ForgetsUnkeyed, TokenStored, Key
  <1>4. SharersAgree' /\ OverlapKnown' /\ AloneIsKeyed' /\ NoResultYet'
    BY <1>1 DEF BrokerInv, SharersAgree, OverlapKnown, AloneIsKeyed, NoResultYet, Alive, Key
  <1>5. QED
    BY <1>2, <1>3, <1>4 DEF BrokerInv

LEMMA BrokerStep == BrokerInv /\ [PromptNext]_promptVars => BrokerInv'
  <1> SUFFICES ASSUME BrokerInv, [PromptNext]_promptVars PROVE BrokerInv'
    OBVIOUS
  <1>1. ASSUME NEW r \in Requests, RequestStep(r) PROVE BrokerInv'
    BY <1>1, LookKeeps, StoreKeeps, EnterKeeps, WaitKeeps, CleanKeyKeeps, CleanForgetKeeps
       DEF RequestStep
  <1>2. ASSUME NEW r \in Requests, NEW n \in Nets, AskBegin(r, n) PROVE BrokerInv'
    BY <1>2, BeginKeeps
  <1>3. ASSUME NEW s \in Sessions, NEW t \in Requests, NEW a \in {"secret", "cancelled"},
               ResolveLoad(s, t, a)
        PROVE  BrokerInv'
    BY <1>3, ResolverKeeps DEF Resolvers
  <1>4. ASSUME NEW c \in Cancellers, NEW n \in Nets, CancelFind(c, n) PROVE BrokerInv'
    BY <1>4, ResolverKeeps DEF Resolvers
  <1>5. ASSUME NEW c \in Resolvers, ResolveSend(c) PROVE BrokerInv'
    BY <1>5, ResolverKeeps
  <1>6. CASE UNCHANGED promptVars
    BY <1>6 DEF promptVars, requestVars, mapVars, BrokerInv, PromptTypeOK, MapsAgree, EntryOwned,
                KeyEntryPending, ForgetsUnkeyed, TokenStored, SharersAgree, OverlapKnown,
                AloneIsKeyed, NoResultYet, Alive, Key
  <1>7. QED
    BY <1>1, <1>2, <1>3, <1>4, <1>5, <1>6 DEF PromptNext

\* In every reachable state each entry of the maps has an owner that will clean it up.
THEOREM BrokerInvariant == PromptSpec => []BrokerInv
  BY BrokerInit, BrokerStep, PTL DEF PromptSpec

-----------------------------------------------------------------------------
\* The variables range over what the program can hold, whatever the bounds.
THEOREM PromptTypes == PromptSpec => []PromptTypeOK
  <1>1. BrokerInv => PromptTypeOK
    BY DEF BrokerInv
  <1>2. QED
    BY BrokerInvariant, <1>1, PTL

\* When the last request has returned the maps are empty: no prompt is left behind, for
\* any number of requests that share tokens or overtake each other.
THEOREM NothingIsLeftBehind == PromptSpec => []NothingLeftBehind
  <1>1. BrokerInv => NothingLeftBehind
    <2> SUFFICES ASSUME BrokerInv, \A r \in Requests : ~Alive(r)
                 PROVE  pending = {} /\ requests = {} /\ \A k \in Keys : keyToken[k] = NoToken
      BY DEF NothingLeftBehind
    <2>1. \A r \in Requests : token[r] = NoToken
      BY DEF BrokerInv, TokenStored, HasToken, Alive
    <2>2. requests = {}
      BY <2>1, RequestFacts DEF BrokerInv, EntryOwned, PromptTypeOK
    <2>3. QED
      BY <2>2 DEF BrokerInv, MapsAgree, KeyEntryPending
  <1>2. QED
    BY BrokerInvariant, <1>1, PTL

\* A waiting request that has its key for itself can be answered and can be cancelled,
\* however many requests were cleaned up before it.
THEOREM AloneStaysReachable == PromptSpec => []AloneIsReachable
  <1>1. BrokerInv => AloneIsReachable
    BY DEF BrokerInv, AloneIsKeyed, AloneIsReachable
  <1>2. QED
    BY BrokerInvariant, <1>1, PTL

\* Where the keys tell the networks apart, a secret is only ever returned to a request
\* for the network that the answered prompt named.
THEOREM SecretsStayApart ==
  ASSUME KeysTellApart
  PROVE  PromptSpec => []AnswerIsForItsNetwork
  <1>1. BrokerInv => AnswerIsForItsNetwork
    <2> SUFFICES ASSUME BrokerInv, NEW r \in Requests, result[r] = "secret"
                 PROVE  net[token[r]] = net[r]
      BY DEF AnswerIsForItsNetwork
    <2>1. token[r] # NoToken
      BY DEF BrokerInv, NoResultYet, TokenStored, HasToken
    <2>2. QED
      BY <2>1, KeyDefined DEF KeysTellApart, Key
  <1>2. QED
    BY BrokerInvariant, <1>1, PTL

=============================================================================
